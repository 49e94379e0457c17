--------------------------- MODULE ComponentsProofs ---------------------------
(***************************************************************************)
(* Proofs about Components, for any goroutines and any programs: the order *)
(* in which shutdown functions run, what requests find open, and what is   *)
(* open in the end.                                                        *)
(***************************************************************************)
EXTENDS Components, TLAPS

\* A sequence with an element before it, and the places of both in it.
LEMMA Consed ==
  ASSUME NEW S, NEW L \in Seq(S), NEW x \in S
  PROVE  /\ Prepended(x, L) \in Seq(S)
         /\ DOMAIN Prepended(x, L) = 1 .. Len(L) + 1
         /\ Prepended(x, L)[1] = x
         /\ \A i \in 2 .. Len(L) + 1 : i - 1 \in DOMAIN L /\ Prepended(x, L)[i] = L[i - 1]
BY DEF Prepended

\* Its elements.
LEMMA ElemsConsed ==
  ASSUME NEW S, NEW L \in Seq(S), NEW x \in S
  PROVE  Elems(Prepended(x, L)) = {x} \cup Elems(L)
<1> DEFINE M == Prepended(x, L)
<1>0. /\ DOMAIN M = 1 .. Len(L) + 1 /\ M[1] = x
      /\ \A i \in 2 .. Len(L) + 1 : i - 1 \in DOMAIN L /\ M[i] = L[i - 1]
  BY Consed
<1>0a. DOMAIN L = 1 .. Len(L) /\ Len(L) \in Nat
  OBVIOUS
<1> HIDE DEF M
<1>1. ASSUME NEW i \in DOMAIN M PROVE M[i] \in {x} \cup Elems(L)
  <2>1. i \in 1 .. Len(L) + 1 /\ Len(L) \in Nat
    BY <1>1, <1>0, <1>0a
  <2>2. CASE i = 1
    BY <2>2, <1>0, <1>0a
  <2>3. CASE i # 1
    <3>1. i \in 2 .. Len(L) + 1
      BY <2>1, <2>3
    <3>2. i - 1 \in DOMAIN L /\ M[i] = L[i - 1]
      BY <3>1, <1>0, <1>0a
    <3> QED
      BY <3>2 DEF Elems
  <2> QED
    BY <2>2, <2>3
<1>2. ASSUME NEW i \in DOMAIN L PROVE L[i] \in Elems(M)
  <2>1. i + 1 \in DOMAIN M /\ i + 1 \in 2 .. Len(L) + 1
    BY <1>2, <1>0, <1>0a
  <2>2. M[i + 1] = L[i]
    BY <1>2, <2>1, <1>0, <1>0a
  <2> QED
    BY <2>1, <2>2 DEF Elems
<1>3. x \in Elems(M)
  <2>1. 1 \in DOMAIN M /\ M[1] = x
    BY <1>0, <1>0a
  <2> QED
    BY <2>1 DEF Elems
<1>4. Elems(M) = {x} \cup Elems(L)
  BY <1>1, <1>2, <1>3 DEF Elems
<1> QED
  BY <1>4 DEF M

\* The places of a tail are those of the sequence, one further.
LEMMA Tailed ==
  ASSUME NEW S, NEW L \in Seq(S), L # <<>>
  PROVE  /\ Head(L) \in S /\ Tail(L) \in Seq(S)
         /\ 1 \in DOMAIN L /\ L[1] = Head(L)
         /\ \A i \in DOMAIN Tail(L) : i + 1 \in DOMAIN L /\ Tail(L)[i] = L[i + 1]
         /\ \A i \in DOMAIN L : i = 1 \/ (i - 1 \in DOMAIN Tail(L) /\ Tail(L)[i - 1] = L[i])
OBVIOUS

\* The elements of a sequence are its head and those of its tail.
LEMMA ElemsTailed ==
  ASSUME NEW S, NEW L \in Seq(S), L # <<>>
  PROVE  Elems(L) = {Head(L)} \cup Elems(Tail(L))
<1>1. ASSUME NEW i \in DOMAIN L PROVE L[i] \in {Head(L)} \cup Elems(Tail(L))
  BY <1>1, Tailed DEF Elems
<1>2. ASSUME NEW i \in DOMAIN Tail(L) PROVE Tail(L)[i] \in Elems(L)
  BY <1>2, Tailed DEF Elems
<1> QED
  BY <1>1, <1>2, Tailed DEF Elems

\* The elements of a sequence are of the set it is over.
LEMMA ElemsType == ASSUME NEW S, NEW L \in Seq(S) PROVE Elems(L) \subseteq S
BY DEF Elems

\* The empty sequence has none.
LEMMA ElemsEmpty == Elems(<<>>) = {}
BY DEF Elems

\* What a call needs begins with the access logger, which is not in it twice.
LEMMA NeedsLog ==
  ASSUME NEW k
  PROVE  /\ Needs(k) \in Seq(Shared) /\ Needs(k) # <<>>
         /\ \A i \in DOMAIN Needs(k) : Needs(k)[i] = "accessLogger" => i = 1
         /\ "accessLogger" \in Elems(Needs(k))
<1>1. Needs(k) = <<"accessLogger">> \/ \E o \in Shared \ {"accessLogger"} :
        Needs(k) = <<"accessLogger", o>>
  <2>1. CASE k \in {"kafka", "kafkaSend"}
    BY <2>1 DEF Needs, Shared
  <2>2. CASE k \in {"rocketmq", "rocketMQSend"}
    BY <2>2 DEF Needs, Shared
  <2>3. CASE k \in {"grpcConn", "registration"}
    BY <2>3 DEF Needs, Shared
  <2>4. CASE k \notin {"kafka", "kafkaSend", "rocketmq", "rocketMQSend", "grpcConn", "registration"}
    BY <2>4 DEF Needs
  <2> QED
    BY <2>1, <2>2, <2>3, <2>4
<1>2. CASE Needs(k) = <<"accessLogger">>
  <2>1. 1 \in DOMAIN Needs(k) /\ Needs(k)[1] = "accessLogger"
    BY <1>2
  <2> QED
    BY <1>2, <2>1 DEF Elems, Shared
<1>3. ASSUME NEW o \in Shared \ {"accessLogger"}, Needs(k) = <<"accessLogger", o>>
      PROVE  /\ Needs(k) \in Seq(Shared) /\ Needs(k) # <<>>
             /\ \A i \in DOMAIN Needs(k) : Needs(k)[i] = "accessLogger" => i = 1
             /\ "accessLogger" \in Elems(Needs(k))
  <2>1. "accessLogger" \in Shared
    BY DEF Shared
  <2>2. /\ DOMAIN Needs(k) = 1 .. 2 /\ Needs(k)[1] = "accessLogger" /\ Needs(k)[2] = o
        /\ Needs(k) \in Seq(Shared) /\ Needs(k) # <<>>
    BY <1>3, <2>1
  <2>3. "accessLogger" \in Elems(Needs(k))
    BY <2>2 DEF Elems
  <2>4. ASSUME NEW i \in 1 .. 2, Needs(k)[i] = "accessLogger" PROVE i = 1
    <3>1. i = 1 \/ i = 2
      BY <2>4
    <3> QED
      BY <3>1, <2>2, <2>4, <1>3
  <2> QED
    BY <2>2, <2>3, <2>4
<1> QED
  BY <1>1, <1>2, <1>3

(***************************************************************************)
(* The steps of a goroutine.  Most of them move it on and do no more than  *)
(* open something, which is then registered, leaked, or was registered.    *)
(***************************************************************************)

Moves(t) ==
    /\ \E to \in {"read", "setup", "done", "failed"} :
        /\ pc' = [pc EXCEPT ![t] = to]
        /\ \/ pc[t] = "init" /\ to = "read"
           \/ pc[t] = "once" /\ todo[t] = <<>>
           \/ pc[t] = "setup" /\ to = "read"
           \/ pc[t] = "listen" /\ to \in {"done", "failed"}
        /\ \/ open' = open
           \/ open' = open \cup {Item(t)} /\ to \in {"read", "setup"}
           \/ open' = open \cup {t} /\ (t \in leaked' \/ (pc[t] = "listen" /\ t \notin ran))
    /\ leaked' = leaked \/ leaked' = leaked \cup {t}
    /\ \/ serving' = serving
       \/ /\ serving' = serving \cup {t}
          /\ \/ /\ pc[t] = "once" /\ todo[t] = <<>> /\ pc'[t] \in {"read", "setup"}
                /\ kind[t] \in Consumers
             \/ pc[t] = "listen" /\ t \notin ran
    /\ phase' = phase \/ phase' = "crashed"
    /\ UNCHANGED <<kind, todo, made, registry, busy, uses, toRun, ran>>

\* Every step is one of these.
LEMMA StepsOfThread ==
  ASSUME TypeOK, NEW t \in Thread, Makes(t)
  PROVE  Alive /\ \/ Call(t) \/ OnceRuns(t) \/ OnceDone(t)
                  \/ pc[t] = "init" /\ NotMade(t)
                  \/ Moves(t)
                  \/ ReadShutdownFuncs(t) \/ WriteShutdownFuncs(t)
<1> DEFINE Goal == \/ Call(t) \/ OnceRuns(t) \/ OnceDone(t)
                   \/ pc[t] = "init" /\ NotMade(t)
                   \/ Moves(t)
                   \/ ReadShutdownFuncs(t) \/ WriteShutdownFuncs(t)
<1> USE DEF registry, requests, closing, Goto, Init1, Body, Item
<1>1. CASE Call(t) \/ OnceRuns(t) \/ OnceDone(t) \/ ReadShutdownFuncs(t) \/ WriteShutdownFuncs(t)
  BY <1>1 DEF Call, OnceRuns, OnceDone, ReadShutdownFuncs, WriteShutdownFuncs
<1>2. ASSUME Made(t), pc[t] = "init" \/ (pc[t] = "once" /\ todo[t] = <<>>) PROVE Moves(t)
  BY <1>2 DEF Made, Moves
<1>3. ASSUME Fails(t), pc[t] = "once" /\ todo[t] = <<>> PROVE Moves(t)
  BY <1>3 DEF Fails, Moves
<1>4. ASSUME FailsOpen(t), pc[t] = "once" /\ todo[t] = <<>> PROVE Moves(t)
  BY <1>4 DEF FailsOpen, Moves
<1>5. ASSUME Crashes(t), pc[t] = "once" /\ todo[t] = <<>> PROVE Moves(t)
  BY <1>5 DEF Crashes, Moves
<1>6. ASSUME NEW to \in {"setup", "read"}, MadeAndServing(t, to), pc[t] = "once" /\ todo[t] = <<>>,
             kind[t] \in Consumers
      PROVE  Moves(t)
  <2>1. pc'[t] = to
    BY <1>6 DEF MadeAndServing, TypeOK
  <2> QED
    BY <1>6, <2>1 DEF MadeAndServing, Moves
<1>7. CASE loadLogConfig(t)
  BY <1>7, <1>2 DEF loadLogConfig
<1>8. CASE initEtcdClient(t)
  <2>1. ASSUME Goto(t, "read"), pc[t] = "init",
               UNCHANGED <<kind, todo, made, open, leaked, registry, requests, closing>>
        PROVE  Moves(t)
    BY <2>1 DEF Moves
  <2> QED
    BY <1>8, <1>2, <2>1 DEF initEtcdClient
<1>9. CASE initProducers(t) \/ initRocketMQProducers(t)
  BY <1>9, <1>2 DEF initProducers, initRocketMQProducers
<1>10. CASE GetRedisClient(t) \/ GetSqlxDB(t) \/ GetGorm(t)
  BY <1>10, <1>2, <1>3, <1>4 DEF GetRedisClient, GetSqlxDB, GetGorm
<1>11. CASE GetGrpcClientConn(t) \/ Start(t)
  BY <1>11, <1>2, <1>3, <1>5 DEF GetGrpcClientConn, Start
<1>12. CASE StartKafkaConsumer(t) \/ StartRocketMQConsumer(t)
  BY <1>12, <1>3, <1>5, <1>6 DEF StartKafkaConsumer, StartRocketMQConsumer, Consumers
<1>13. CASE SetupReady(t)
  BY <1>13 DEF SetupReady, Moves
<1>14. CASE SendKafkaMessage(t) \/ SendRocketMQMessage(t)
  <2>1. ASSUME NEW producer, Send(t, producer), pc[t] = "once" /\ todo[t] = <<>> PROVE Moves(t)
    BY <2>1, <1>3 DEF Send, Moves
  <2> QED
    BY <1>14, <2>1 DEF SendKafkaMessage, SendRocketMQMessage
<1>15. CASE StartHttpServer(t)
  BY <1>15 DEF StartHttpServer, Moves
<1>16. CASE StartGrpcServer(t)
  <2>1. ASSUME Goto(t, "read"), pc[t] = "once", todo[t] = <<>>,
               UNCHANGED <<kind, todo, made, open, leaked, registry, requests, closing>>
        PROVE  Moves(t)
    BY <2>1 DEF Moves
  <2> QED
    BY <1>16, <1>3, <2>1 DEF StartGrpcServer
<1>17. CASE ListenAndServe(t)
  BY <1>17 DEF ListenAndServe, Moves
<1> QED
  BY <1>1, <1>7, <1>8, <1>9, <1>10, <1>11, <1>12, <1>13, <1>14, <1>15, <1>16, <1>17
     DEF Makes

(***************************************************************************)
(* Types.                                                                  *)
(***************************************************************************)

\* What a goroutine makes is a resource.
LEMMA ItemType == ASSUME TypeOK, NEW t \in Thread PROVE Item(t) \in Resource
BY Tailed DEF TypeOK, Item, Resource

\* Initially every variable has its type.
LEMMA TypeInit == Init => TypeOK
<1> SUFFICES ASSUME Init PROVE TypeOK
  OBVIOUS
<1>1. kind \in [Thread -> Kind]
  BY ComponentsAssumption DEF Init, ComponentsAssumption
<1>2. <<>> \in Seq(Shared) /\ <<>> \in Seq(Resource)
  OBVIOUS
<1> QED
  BY <1>1, <1>2 DEF Init, TypeOK

\* The steps that are not a goroutine's own.
LEMMA StepCases ==
  ASSUME TypeOK, [Next]_vars
  PROVE  \/ \E t \in Thread : Makes(t)
         \/ \E t \in Thread : RequestBegins(t) \/ RequestEnds(t)
         \/ CloseComponents \/ StopAccepting \/ RunShutdownFunc \/ doClose
         \/ UNCHANGED vars
BY DEF Next, Closes, Ended

\* Every step keeps the types.
LEMMA TypeStep == TypeOK /\ [Next]_vars => TypeOK'
<1> SUFFICES ASSUME TypeOK, [Next]_vars PROVE TypeOK'
  OBVIOUS
<1> USE DEF registry, requests, closing, Goto
<1>1. ASSUME NEW t \in Thread, Makes(t) PROVE TypeOK'
  <2>1. CASE Call(t)
    <3>1. Needs(kind[t]) \in Seq(Shared)
      BY NeedsLog
    <3> QED
      BY <2>1, <3>1 DEF TypeOK, Call
  <2>2. CASE OnceRuns(t)
    BY <2>2, Tailed DEF TypeOK, OnceRuns
  <2>3. CASE OnceDone(t)
    BY <2>3, Tailed DEF TypeOK, OnceDone
  <2>4. CASE NotMade(t)
    BY <2>4 DEF TypeOK, NotMade
  <2>5. CASE Moves(t)
    <3>1. Item(t) \in Resource /\ t \in Resource
      BY ItemType DEF Resource
    <3>2. open' \subseteq Resource /\ leaked' \subseteq Thread /\ serving' \subseteq Thread
      BY <2>5, <3>1 DEF TypeOK, Moves
    <3>3. pc' \in [Thread -> {"idle", "once", "init", "setup", "read", "write",
                              "listen", "done", "failed"}]
      BY <2>5 DEF TypeOK, Moves
    <3> QED
      BY <2>5, <3>2, <3>3 DEF TypeOK, Moves
  <2>6. CASE ReadShutdownFuncs(t)
    BY <2>6 DEF TypeOK, ReadShutdownFuncs
  <2>7. CASE WriteShutdownFuncs(t)
    <3>1. shutdownFuncs' \in Seq(Resource) /\ read' \in [Thread -> Seq(Resource)]
      <4>1. Prepended(Item(t), read[t]) \in Seq(Resource)
        BY ItemType, Consed DEF TypeOK
      <4> QED
        BY <2>7, <4>1 DEF TypeOK, WriteShutdownFuncs
    <3>2. lost' \subseteq Resource /\ late' \subseteq Resource
      <4>1. Elems(shutdownFuncs) \subseteq Resource
        BY ElemsType DEF TypeOK
      <4> QED
        BY <2>7, <4>1, ItemType DEF TypeOK, WriteShutdownFuncs
    <3>3. /\ made' \in [Shared -> {"no", "making", "done", "nil"}]
          /\ pc' \in [Thread -> {"idle", "once", "init", "setup", "read", "write",
                                 "listen", "done", "failed"}]
      <4>1. CASE todo[t] # <<>>
        BY <2>7, <4>1 DEF TypeOK, WriteShutdownFuncs
      <4>2. CASE todo[t] = <<>>
        BY <2>7, <4>2 DEF TypeOK, WriteShutdownFuncs
      <4> QED
        BY <4>1, <4>2
    <3> QED
      BY <2>7, <3>1, <3>2, <3>3 DEF TypeOK, WriteShutdownFuncs
  <2> QED
    BY <1>1, <2>1, <2>2, <2>3, <2>4, <2>5, <2>6, <2>7, StepsOfThread
<1>2. ASSUME NEW t \in Thread, RequestBegins(t) \/ RequestEnds(t) PROVE TypeOK'
  BY <1>2 DEF TypeOK, RequestBegins, RequestEnds
<1>3. CASE CloseComponents
  BY <1>3 DEF TypeOK, CloseComponents
<1>4. CASE StopAccepting
  BY <1>4 DEF TypeOK, StopAccepting
<1>5. CASE RunShutdownFunc
  <2>1. Head(toRun) \in Resource /\ Tail(toRun) \in Seq(Resource)
    BY <1>5, Tailed DEF TypeOK, RunShutdownFunc
  <2> QED
    BY <1>5, <2>1 DEF TypeOK, RunShutdownFunc, invokeShutdownFunc
<1>6. CASE doClose
  BY <1>6 DEF TypeOK, doClose
<1>7. CASE UNCHANGED vars
  BY <1>7 DEF TypeOK, vars
<1> QED
  BY <1>1, <1>2, <1>3, <1>4, <1>5, <1>6, <1>7, StepCases

\* Every variable has its type, in every reachable state.
THEOREM TypeCorrect == Spec => []TypeOK
BY TypeInit, TypeStep, PTL DEF Spec, Safe
(***************************************************************************)
(* sync.Once and the list: what is in it has been made, and everything it  *)
(* relies on before it.                                                    *)
(***************************************************************************)

\* Its function has been added, or will not be.
Written(c) ==
    IF c \in Shared THEN made[c] \in {"done", "nil"} ELSE pc[c] \in {"listen", "done", "failed"}

MadeFor(t) == pc[t] \in {"init", "read", "write"} /\ todo[t] # <<>>

\* A goroutine meets the access logger first, and what it needs and has no longer
\* to see is made; a sync.Once has one goroutine that runs its function.
OnceInv ==
    /\ \A t \in Thread :
        /\ pc[t] \in {"idle", "setup", "listen", "done", "failed"} => todo[t] = <<>>
        /\ pc[t] = "init" => todo[t] # <<>>
        /\ MadeFor(t) => made[Head(todo[t])] = "making"
        /\ \A s \in Thread : MadeFor(s) /\ MadeFor(t) /\ Head(todo[s]) = Head(todo[t]) => s = t
        /\ \A i \in DOMAIN todo[t] : todo[t][i] = "accessLogger" => i = 1
        /\ pc[t] # "idle" => \A o \in Elems(Needs(kind[t])) : Written(o) \/ o \in Elems(todo[t])
        /\ \A c \in uses[t] : c \in Thread /\ pc[c] = "done"
    /\ \A o \in Shared \ {"accessLogger"} : made[o] # "no" => Written("accessLogger")

Ordered(L) ==
    \A i, j \in DOMAIN L : /\ L[j] \in DependsOn(L[i]) => i < j
                           /\ L[j] = L[i] => i = j

\* What was added has been made; what CloseComponents has yet to run relies on
\* nothing that has run, and who has run accepts no requests.
ListInv ==
    /\ \A c \in Elems(shutdownFuncs) \cup Elems(toRun) \cup ran : Written(c)
    /\ \A t \in Thread : Ordered(read[t]) /\ \A c \in Elems(read[t]) : Written(c)
    /\ Ordered(shutdownFuncs) /\ Ordered(toRun)
    /\ phase = "running" => toRun = <<>> /\ ran = {}
    /\ \A c \in Elems(toRun) : c \notin ran /\ ran \cap DependsOn(c) = {}
    /\ \A t \in ran \cap Thread :
        t \notin serving /\ (kind[t] \in {"grpc", "kafka"} => t \notin busy)

\* The closing goroutine has it in its list, or will have.
InHand(c) ==
    \/ phase = "running" /\ c \in Elems(shutdownFuncs)
    \/ phase \in {"closing", "closed"} /\ c \in Elems(toRun)
    \/ phase = "crashed"

BeingAdded(c) == \E t \in Thread : Item(t) = c /\ pc[t] \in {"setup", "read", "write"}

\* What is open, and a server that is about to open, is in that list, or there is a
\* reason that it is not.
OpenInv ==
    /\ \A c \in open : c \in leaked \cup lost \cup late \/ BeingAdded(c) \/ InHand(c)
    /\ \A t \in Thread : pc[t] = "listen" => t \in lost \cup late \cup ran \/ InHand(t)
    /\ phase = "closed" => toRun = <<>>

\* The access logger is made under a sync.Once, like the others.
LEMMA AccessLogger == "accessLogger" \in Shared
BY DEF Shared

\* A goroutine that runs the function of a sync.Once does so for a shared resource.
LEMMA HeadType ==
  ASSUME TypeOK, NEW t \in Thread, todo[t] # <<>>
  PROVE  Head(todo[t]) \in Shared /\ Head(todo[t]) \in Elems(todo[t]) /\ Tail(todo[t]) \in Seq(Shared)
BY Tailed, ElemsTailed DEF TypeOK

\* What is written stays so.
LEMMA WrittenStays ==
  ASSUME TypeOK, OnceInv, [Next]_vars, NEW c \in Resource, Written(c)
  PROVE  Written(c)'
<1> USE DEF Goto
<1>0. c \notin Shared => c \in Thread
  BY DEF Resource
<1>1. ASSUME NEW t \in Thread, Makes(t) PROVE Written(c)'
  <2>1. CASE Call(t)
    BY <1>0, <2>1 DEF TypeOK, Call, Written
  <2>2. CASE OnceRuns(t)
    BY <1>0, <2>2 DEF TypeOK, OnceRuns, Written
  <2>3. CASE OnceDone(t)
    BY <1>0, <2>3 DEF TypeOK, OnceDone, Written
  <2>4. CASE pc[t] = "init" /\ NotMade(t)
    BY <1>0, <2>4 DEF TypeOK, NotMade, Written
  <2>5. CASE Moves(t)
    BY <1>0, <2>5 DEF TypeOK, Moves, Written
  <2>6. CASE ReadShutdownFuncs(t)
    BY <1>0, <2>6 DEF TypeOK, ReadShutdownFuncs, Written
  <2>7. CASE WriteShutdownFuncs(t)
    BY <1>0, <2>7 DEF TypeOK, WriteShutdownFuncs, Written
  <2> QED
    BY <1>1, <2>1, <2>2, <2>3, <2>4, <2>5, <2>6, <2>7, StepsOfThread
<1>2. CASE UNCHANGED <<pc, made>>
  BY <1>2 DEF Written
<1> QED
  BY <1>1, <1>2, StepCases DEF RequestBegins, RequestEnds, CloseComponents, StopAccepting,
     RunShutdownFunc, doClose, vars

\* Initially nothing is made.
LEMMA OnceInit == Init => OnceInv
BY ElemsEmpty DEF Init, OnceInv, MadeFor, Shared

\* Steps of the goroutines keep it.
LEMMA OnceStep == TypeOK /\ OnceInv /\ [Next]_vars => OnceInv'
<1> SUFFICES ASSUME TypeOK, OnceInv, [Next]_vars PROVE OnceInv'
  OBVIOUS
<1> USE DEF Goto
<1>0. \A c \in Resource : Written(c) => Written(c)'
  BY WrittenStays
<1>0a. Shared \subseteq Resource /\ Thread \cap Shared = {}
  BY ComponentsAssumption DEF Resource, ComponentsAssumption
<1>0b. \A u \in Thread : /\ Elems(Needs(kind[u])) \subseteq Shared
                         /\ todo[u] \in Seq(Shared)
  BY NeedsLog, ElemsType DEF TypeOK
<1>1. ASSUME NEW t \in Thread, Makes(t) PROVE OnceInv'
  <2>1. CASE Call(t)
    <3>0. /\ pc[t] = "idle" /\ pc' = [pc EXCEPT ![t] = "once"] /\ UNCHANGED <<made, kind>>
          /\ todo' = [todo EXCEPT ![t] = Needs(kind[t])]
          /\ uses' = [uses EXCEPT ![t] = {c \in Thread : kind[c] \in Clients /\ pc[c] = "done"}]
      BY <2>1 DEF Call
    <3>1. ASSUME NEW u \in Thread
          PROVE  /\ pc'[u] \in {"idle", "setup", "listen", "done", "failed"} => todo'[u] = <<>>
                 /\ pc'[u] = "init" => todo'[u] # <<>>
                 /\ MadeFor(u)' => made'[Head(todo'[u])] = "making"
                 /\ \A s \in Thread : MadeFor(s)' /\ MadeFor(u)' /\ Head(todo'[s]) = Head(todo'[u]) => s = u
                 /\ \A i \in DOMAIN todo'[u] : todo'[u][i] = "accessLogger" => i = 1
                 /\ \A c \in uses'[u] : c \in Thread /\ pc'[c] = "done"
      BY <3>0, NeedsLog DEF TypeOK, OnceInv, MadeFor
    <3>2. ASSUME NEW u \in Thread, pc'[u] # "idle", NEW o \in Elems(Needs(kind'[u]))
          PROVE  Written(o)' \/ o \in Elems(todo'[u])
      <4>1. CASE u = t
        BY <3>0, <3>2, <4>1 DEF TypeOK
      <4>2. CASE u # t
        BY <1>0, <1>0a, <1>0b, <3>0, <3>2, <4>2 DEF TypeOK, OnceInv
      <4> QED
        BY <4>1, <4>2
    <3>3. \A o \in Shared \ {"accessLogger"} : made'[o] # "no" => Written("accessLogger")'
      BY <1>0, <1>0a, <3>0, AccessLogger DEF OnceInv
    <3> QED
      BY <3>1, <3>2, <3>3 DEF OnceInv
  <2>2. CASE OnceRuns(t)
    <3>0. /\ pc[t] = "once" /\ todo[t] # <<>> /\ made[Head(todo[t])] = "no"
          /\ pc' = [pc EXCEPT ![t] = "init"] /\ UNCHANGED <<kind, todo, uses>>
          /\ made' = [made EXCEPT ![Head(todo[t])] = "making"]
      BY <2>2 DEF OnceRuns, requests
    <3>1. ASSUME NEW u \in Thread
          PROVE  /\ pc'[u] \in {"idle", "setup", "listen", "done", "failed"} => todo'[u] = <<>>
                 /\ pc'[u] = "init" => todo'[u] # <<>>
                 /\ MadeFor(u)' => made'[Head(todo'[u])] = "making"
                 /\ \A s \in Thread : MadeFor(s)' /\ MadeFor(u)' /\ Head(todo'[s]) = Head(todo'[u]) => s = u
                 /\ \A i \in DOMAIN todo'[u] : todo'[u][i] = "accessLogger" => i = 1
                 /\ \A c \in uses'[u] : c \in Thread /\ pc'[c] = "done"
      BY <3>0, HeadType DEF TypeOK, OnceInv, MadeFor
    <3>2. ASSUME NEW u \in Thread, pc'[u] # "idle", NEW o \in Elems(Needs(kind'[u]))
          PROVE  Written(o)' \/ o \in Elems(todo'[u])
      BY <1>0, <1>0a, <1>0b, <3>0, <3>2 DEF TypeOK, OnceInv
    <3>3. \A o \in Shared \ {"accessLogger"} : made'[o] # "no" => Written("accessLogger")'
      <4>1. CASE Head(todo[t]) = "accessLogger"
        BY <1>0, <1>0a, <3>0, <4>1, AccessLogger DEF TypeOK, OnceInv
      <4>2. CASE Head(todo[t]) # "accessLogger"
        <5>1. "accessLogger" \notin Elems(todo[t])
          BY <3>0, <4>2, <1>0b, Tailed DEF OnceInv, Elems
        <5>2. Written("accessLogger")
          BY <3>0, <5>1, NeedsLog DEF OnceInv
        <5> QED
          BY <1>0, <1>0a, <5>2, AccessLogger
      <4> QED
        BY <4>1, <4>2
    <3> QED
      BY <3>1, <3>2, <3>3 DEF OnceInv
  <2>3. CASE OnceDone(t)
    <3>0. /\ pc[t] = "once" /\ todo[t] # <<>> /\ made[Head(todo[t])] \in {"done", "nil"}
          /\ todo' = [todo EXCEPT ![t] = Tail(@)] /\ UNCHANGED <<kind, pc, made, uses>>
      BY <2>3 DEF OnceDone, requests
    <3>0a. \A i \in DOMAIN Tail(todo[t]) : Tail(todo[t])[i] # "accessLogger"
      <4>1. ASSUME NEW i \in DOMAIN Tail(todo[t]), Tail(todo[t])[i] = "accessLogger" PROVE FALSE
        <5>1. i \in Nat \ {0} /\ i + 1 \in DOMAIN todo[t] /\ todo[t][i + 1] = "accessLogger"
          BY <1>0b, <3>0, <4>1, Tailed
        <5> QED
          BY <5>1 DEF OnceInv
      <4> QED
        BY <4>1
    <3>1. ASSUME NEW u \in Thread
          PROVE  /\ pc'[u] \in {"idle", "setup", "listen", "done", "failed"} => todo'[u] = <<>>
                 /\ pc'[u] = "init" => todo'[u] # <<>>
                 /\ MadeFor(u)' => made'[Head(todo'[u])] = "making"
                 /\ \A s \in Thread : MadeFor(s)' /\ MadeFor(u)' /\ Head(todo'[s]) = Head(todo'[u]) => s = u
                 /\ \A i \in DOMAIN todo'[u] : todo'[u][i] = "accessLogger" => i = 1
                 /\ \A c \in uses'[u] : c \in Thread /\ pc'[c] = "done"
      BY <3>0, <3>0a, HeadType DEF TypeOK, OnceInv, MadeFor
    <3>2. ASSUME NEW u \in Thread, pc'[u] # "idle", NEW o \in Elems(Needs(kind'[u]))
          PROVE  Written(o)' \/ o \in Elems(todo'[u])
      <4>1. CASE u = t /\ o = Head(todo[t])
        BY <3>0, <4>1, HeadType DEF Written
      <4>2. CASE ~(u = t /\ o = Head(todo[t]))
        <5>1. o \in Elems(todo[u]) => o \in Elems(todo'[u])
          BY <3>0, <4>2, ElemsTailed DEF TypeOK
        <5> QED
          BY <1>0, <1>0a, <1>0b, <3>0, <3>2, <5>1 DEF OnceInv
      <4> QED
        BY <4>1, <4>2
    <3>3. \A o \in Shared \ {"accessLogger"} : made'[o] # "no" => Written("accessLogger")'
      BY <1>0, <1>0a, <3>0, AccessLogger DEF TypeOK, OnceInv
    <3> QED
      BY <3>1, <3>2, <3>3 DEF OnceInv
  <2>4. CASE pc[t] = "init" /\ NotMade(t)
    <3>0. /\ pc[t] = "init" /\ pc' = [pc EXCEPT ![t] = "once"] /\ UNCHANGED <<kind, todo, uses>>
          /\ made' = [made EXCEPT ![Head(todo[t])] = "nil"]
      BY <2>4 DEF NotMade, requests
    <3>1. ASSUME NEW u \in Thread
          PROVE  /\ pc'[u] \in {"idle", "setup", "listen", "done", "failed"} => todo'[u] = <<>>
                 /\ pc'[u] = "init" => todo'[u] # <<>>
                 /\ MadeFor(u)' => made'[Head(todo'[u])] = "making"
                 /\ \A s \in Thread : MadeFor(s)' /\ MadeFor(u)' /\ Head(todo'[s]) = Head(todo'[u]) => s = u
                 /\ \A i \in DOMAIN todo'[u] : todo'[u][i] = "accessLogger" => i = 1
                 /\ \A c \in uses'[u] : c \in Thread /\ pc'[c] = "done"
      BY <3>0, HeadType DEF TypeOK, OnceInv, MadeFor
    <3>2. ASSUME NEW u \in Thread, pc'[u] # "idle", NEW o \in Elems(Needs(kind'[u]))
          PROVE  Written(o)' \/ o \in Elems(todo'[u])
      BY <1>0, <1>0a, <1>0b, <3>0, <3>2 DEF TypeOK, OnceInv
    <3>2a. todo[t] # <<>> /\ made[Head(todo[t])] = "making" /\ Head(todo[t]) \in Shared
      BY <3>0, HeadType DEF OnceInv, MadeFor
    <3>3. \A o \in Shared \ {"accessLogger"} : made'[o] # "no" => Written("accessLogger")'
      BY <1>0, <1>0a, <3>0, <3>2a, AccessLogger DEF TypeOK, OnceInv
    <3> QED
      BY <3>1, <3>2, <3>3 DEF OnceInv
  <2>5. CASE Moves(t)
    <3>0. /\ \E to \in {"read", "setup", "done", "failed"} :
                /\ pc' = [pc EXCEPT ![t] = to]
                /\ \/ pc[t] = "init" /\ to = "read"
                   \/ pc[t] = "once" /\ todo[t] = <<>>
                   \/ pc[t] = "setup" /\ to = "read"
                   \/ pc[t] = "listen" /\ to \in {"done", "failed"}
          /\ UNCHANGED <<kind, todo, made, uses>>
      BY <2>5 DEF Moves
    <3>1. ASSUME NEW u \in Thread
          PROVE  /\ pc'[u] \in {"idle", "setup", "listen", "done", "failed"} => todo'[u] = <<>>
                 /\ pc'[u] = "init" => todo'[u] # <<>>
                 /\ MadeFor(u)' => made'[Head(todo'[u])] = "making"
                 /\ \A s \in Thread : MadeFor(s)' /\ MadeFor(u)' /\ Head(todo'[s]) = Head(todo'[u]) => s = u
                 /\ \A i \in DOMAIN todo'[u] : todo'[u][i] = "accessLogger" => i = 1
                 /\ \A c \in uses'[u] : c \in Thread /\ pc'[c] = "done"
      BY <3>0, HeadType DEF TypeOK, OnceInv, MadeFor
    <3>2. ASSUME NEW u \in Thread, pc'[u] # "idle", NEW o \in Elems(Needs(kind'[u]))
          PROVE  Written(o)' \/ o \in Elems(todo'[u])
      BY <1>0, <1>0a, <1>0b, <3>0, <3>2 DEF TypeOK, OnceInv
    <3>3. \A o \in Shared \ {"accessLogger"} : made'[o] # "no" => Written("accessLogger")'
      BY <1>0, <1>0a, <3>0, AccessLogger DEF TypeOK, OnceInv
    <3> QED
      BY <3>1, <3>2, <3>3 DEF OnceInv
  <2>6. CASE ReadShutdownFuncs(t)
    <3>0. /\ pc[t] = "read" /\ pc' = [pc EXCEPT ![t] = "write"]
          /\ UNCHANGED <<kind, todo, made, uses>>
      BY <2>6 DEF ReadShutdownFuncs, requests
    <3>1. ASSUME NEW u \in Thread
          PROVE  /\ pc'[u] \in {"idle", "setup", "listen", "done", "failed"} => todo'[u] = <<>>
                 /\ pc'[u] = "init" => todo'[u] # <<>>
                 /\ MadeFor(u)' => made'[Head(todo'[u])] = "making"
                 /\ \A s \in Thread : MadeFor(s)' /\ MadeFor(u)' /\ Head(todo'[s]) = Head(todo'[u]) => s = u
                 /\ \A i \in DOMAIN todo'[u] : todo'[u][i] = "accessLogger" => i = 1
                 /\ \A c \in uses'[u] : c \in Thread /\ pc'[c] = "done"
      BY <3>0, HeadType DEF TypeOK, OnceInv, MadeFor
    <3>2. ASSUME NEW u \in Thread, pc'[u] # "idle", NEW o \in Elems(Needs(kind'[u]))
          PROVE  Written(o)' \/ o \in Elems(todo'[u])
      BY <1>0, <1>0a, <1>0b, <3>0, <3>2 DEF TypeOK, OnceInv
    <3>3. \A o \in Shared \ {"accessLogger"} : made'[o] # "no" => Written("accessLogger")'
      BY <1>0, <1>0a, <3>0, AccessLogger DEF TypeOK, OnceInv
    <3> QED
      BY <3>1, <3>2, <3>3 DEF OnceInv
  <2>7. CASE WriteShutdownFuncs(t)
    <3>0. /\ pc[t] = "write" /\ UNCHANGED <<kind, todo, uses>>
          /\ \/ /\ todo[t] # <<>> /\ pc' = [pc EXCEPT ![t] = "once"]
                /\ \E v \in {"done", "nil"} : made' = [made EXCEPT ![Head(todo[t])] = v]
             \/ /\ todo[t] = <<>> /\ UNCHANGED made
                /\ \E to \in {"listen", "done"} : pc' = [pc EXCEPT ![t] = to]
      BY <2>7 DEF WriteShutdownFuncs, requests
    <3>1. ASSUME NEW u \in Thread
          PROVE  /\ pc'[u] \in {"idle", "setup", "listen", "done", "failed"} => todo'[u] = <<>>
                 /\ pc'[u] = "init" => todo'[u] # <<>>
                 /\ MadeFor(u)' => made'[Head(todo'[u])] = "making"
                 /\ \A s \in Thread : MadeFor(s)' /\ MadeFor(u)' /\ Head(todo'[s]) = Head(todo'[u]) => s = u
                 /\ \A i \in DOMAIN todo'[u] : todo'[u][i] = "accessLogger" => i = 1
                 /\ \A c \in uses'[u] : c \in Thread /\ pc'[c] = "done"
      BY <3>0, HeadType DEF TypeOK, OnceInv, MadeFor
    <3>2. ASSUME NEW u \in Thread, pc'[u] # "idle", NEW o \in Elems(Needs(kind'[u]))
          PROVE  Written(o)' \/ o \in Elems(todo'[u])
      BY <1>0, <1>0a, <1>0b, <3>0, <3>2 DEF TypeOK, OnceInv
    <3>2a. todo[t] # <<>> => made[Head(todo[t])] = "making" /\ Head(todo[t]) \in Shared
      BY <3>0, HeadType DEF OnceInv, MadeFor
    <3>3. \A o \in Shared \ {"accessLogger"} : made'[o] # "no" => Written("accessLogger")'
      BY <1>0, <1>0a, <3>0, <3>2a, AccessLogger DEF TypeOK, OnceInv
    <3> QED
      BY <3>1, <3>2, <3>3 DEF OnceInv
  <2> QED
    BY <1>1, <2>1, <2>2, <2>3, <2>4, <2>5, <2>6, <2>7, StepsOfThread
<1>2. CASE UNCHANGED <<pc, made, todo, kind, uses>>
  BY <1>2 DEF OnceInv, Written, MadeFor
<1> QED
  BY <1>1, <1>2, StepCases DEF RequestBegins, RequestEnds, CloseComponents, StopAccepting,
     RunShutdownFunc, doClose, vars, requests, closing, registry

(***************************************************************************)
(* The order of the list.                                                  *)
(***************************************************************************)

\* What is written relies on what is written.
LEMMA DependsWritten ==
  ASSUME TypeOK, OnceInv, NEW c \in Resource, Written(c), NEW d \in DependsOn(c)
  PROVE  d \in Resource /\ Written(d)
<1>1. CASE c \in Thread
  <2>1. pc[c] \in {"listen", "done", "failed"} /\ todo[c] = <<>>
    BY <1>1, ComponentsAssumption DEF ComponentsAssumption, OnceInv, Written
  <2>2. CASE d \in Elems(Needs(kind[c]))
    <3>1. d \in Shared
      BY <2>2, NeedsLog, ElemsType
    <3> QED
      BY <1>1, <2>1, <2>2, <3>1, ElemsEmpty DEF OnceInv, Resource
  <2>3. CASE d \in uses[c]
    BY <1>1, <2>3, ComponentsAssumption DEF ComponentsAssumption, OnceInv, Written, Resource
  <2> QED
    BY <1>1, <2>2, <2>3 DEF DependsOn
<1>2. CASE c \notin Thread
  <2>1. c \in Shared /\ d = "accessLogger" /\ c # "accessLogger"
    BY <1>2 DEF DependsOn, Resource
  <2> QED
    BY <2>1, AccessLogger DEF OnceInv, Written, Resource
<1> QED
  BY <1>1, <1>2

Begun(c) == c \in Thread => pc[c] # "idle"

\* What is written was called before.
LEMMA WrittenBegun == ASSUME NEW c, Written(c) PROVE Begun(c)
BY ComponentsAssumption DEF ComponentsAssumption, Written, Begun

\* From its call on, a resource relies on the same for ever.
LEMMA DependsStays ==
  ASSUME TypeOK, OnceInv, [Next]_vars, NEW c \in Resource, Begun(c)
  PROVE  DependsOn(c)' = DependsOn(c)
<1>1. ASSUME NEW t \in Thread, Makes(t) PROVE kind' = kind /\ \A u \in Thread : pc[u] # "idle" => uses'[u] = uses[u]
  <2>1. CASE Call(t)
    BY <2>1 DEF TypeOK, Call
  <2> QED
    BY <1>1, <2>1, StepsOfThread DEF OnceRuns, OnceDone, NotMade, Moves, ReadShutdownFuncs,
       WriteShutdownFuncs, requests
<1>2. kind' = kind /\ \A u \in Thread : pc[u] # "idle" => uses'[u] = uses[u]
  BY <1>1, StepCases DEF RequestBegins, RequestEnds, CloseComponents, StopAccepting,
     RunShutdownFunc, doClose, vars, requests
<1> QED
  BY <1>2 DEF DependsOn, Begun

\* What a goroutine is making is not written, and does not rely on itself.
LEMMA ItemNotWritten ==
  ASSUME TypeOK, OnceInv, NEW t \in Thread, pc[t] \in {"init", "read", "write"}
  PROVE  ~Written(Item(t)) /\ Item(t) \notin DependsOn(Item(t))
<1>1. CASE todo[t] = <<>>
  <2>1. Item(t) = t /\ t \notin Shared
    BY <1>1, ComponentsAssumption DEF ComponentsAssumption, Item
  <2>2. t \notin Elems(Needs(kind[t]))
    BY <2>1, NeedsLog, ElemsType
  <2>3. t \notin uses[t]
    BY DEF OnceInv
  <2> QED
    BY <2>1, <2>2, <2>3 DEF Written, DependsOn
<1>2. CASE todo[t] # <<>>
  <2>1. Item(t) = Head(todo[t]) /\ Item(t) \in Shared /\ made[Item(t)] = "making"
    BY <1>2, HeadType DEF Item, OnceInv, MadeFor
  <2> QED
    BY <2>1, ComponentsAssumption DEF ComponentsAssumption, Written, DependsOn
<1> QED
  BY <1>1, <1>2

\* What is added at the head of a list of written functions is in order there.
LEMMA OrderedConsed ==
  ASSUME TypeOK, OnceInv, NEW L \in Seq(Resource), Ordered(L), \A c \in Elems(L) : Written(c),
         NEW x \in Resource, ~Written(x), x \notin DependsOn(x)
  PROVE  Ordered(Prepended(x, L))
<1> DEFINE M == Prepended(x, L)
<1>1. /\ DOMAIN M = 1 .. Len(L) + 1 /\ M[1] = x
      /\ \A i \in 2 .. Len(L) + 1 : i - 1 \in DOMAIN L /\ M[i] = L[i - 1]
  BY Consed
<1>2. DOMAIN L = 1 .. Len(L) /\ Len(L) \in Nat
  OBVIOUS
<1>3. \A i \in DOMAIN L : /\ L[i] \in Resource /\ L[i] # x
                          /\ x \notin DependsOn(L[i])
  BY DependsWritten DEF Elems
<1> HIDE DEF M
<1>4. ASSUME NEW i \in DOMAIN M, NEW j \in DOMAIN M
      PROVE  /\ M[j] \in DependsOn(M[i]) => i < j
             /\ M[j] = M[i] => i = j
  <2>1. CASE i = 1 /\ j = 1
    BY <1>1, <2>1
  <2>2. CASE i = 1 /\ j # 1
    <3>1. j \in 2 .. Len(L) + 1
      BY <1>1, <1>2, <2>2
    <3> QED
      BY <1>1, <1>3, <2>2, <3>1
  <2>3. CASE i # 1 /\ j = 1
    <3>1. i \in 2 .. Len(L) + 1
      BY <1>1, <1>2, <2>3
    <3> QED
      BY <1>1, <1>3, <2>3, <3>1
  <2>4. CASE i # 1 /\ j # 1
    <3>1. i \in 2 .. Len(L) + 1 /\ j \in 2 .. Len(L) + 1
      BY <1>1, <1>2, <2>4
    <3>2. /\ i - 1 \in DOMAIN L /\ M[i] = L[i - 1]
          /\ j - 1 \in DOMAIN L /\ M[j] = L[j - 1]
      BY <1>1, <3>1
    <3>3. /\ M[j] \in DependsOn(M[i]) => i - 1 < j - 1
          /\ M[j] = M[i] => i - 1 = j - 1
      BY <3>2 DEF Ordered
    <3> QED
      BY <3>1, <3>3
  <2> QED
    BY <2>1, <2>2, <2>3, <2>4
<1> QED
  BY <1>4 DEF Ordered, M

\* A list stays in order.
LEMMA OrderedStays ==
  ASSUME TypeOK, OnceInv, [Next]_vars, NEW L \in Seq(Resource), Ordered(L),
         \A c \in Elems(L) : Begun(c)
  PROVE  Ordered(L)'
<1>1. \A i \in DOMAIN L : DependsOn(L[i])' = DependsOn(L[i])
  BY DependsStays DEF Elems
<1> QED
  BY <1>1 DEF Ordered

\* The tail of a list in order is in order, and relies on the head not at all.
LEMMA OrderedTailed ==
  ASSUME NEW L \in Seq(Resource), L # <<>>, Ordered(L)
  PROVE  /\ Ordered(Tail(L))
         /\ \A c \in Elems(Tail(L)) : c # Head(L) /\ Head(L) \notin DependsOn(c)
<1>1. ASSUME NEW i \in DOMAIN Tail(L)
      PROVE  /\ i \in Nat \ {0} /\ i + 1 \in DOMAIN L /\ Tail(L)[i] = L[i + 1]
             /\ Tail(L)[i] # Head(L) /\ Head(L) \notin DependsOn(Tail(L)[i])
  <2>1. i \in Nat \ {0} /\ i + 1 \in DOMAIN L /\ Tail(L)[i] = L[i + 1] /\ 1 \in DOMAIN L /\ L[1] = Head(L)
    BY Tailed
  <2> QED
    BY <2>1 DEF Ordered
<1>2. ASSUME NEW i \in DOMAIN Tail(L), NEW j \in DOMAIN Tail(L)
      PROVE  /\ Tail(L)[j] \in DependsOn(Tail(L)[i]) => i < j
             /\ Tail(L)[j] = Tail(L)[i] => i = j
  <2>1. /\ L[j + 1] \in DependsOn(L[i + 1]) => i + 1 < j + 1
        /\ L[j + 1] = L[i + 1] => i + 1 = j + 1
    BY <1>1 DEF Ordered
  <2> QED
    BY <1>1, <2>1
<1> QED
  BY <1>1, <1>2 DEF Ordered, Elems

\* Initially nothing is in the list.
LEMMA ListInit == Init => ListInv
<1> SUFFICES ASSUME Init PROVE ListInv
  OBVIOUS
<1>1. Ordered(<<>>)
  BY DEF Ordered
<1> QED
  BY <1>1, ElemsEmpty DEF Init, ListInv

\* A list that is in order for this state, whatever state it is of.
InOrder(L) == L \in Seq(Resource) /\ Ordered(L) /\ \A c \in Elems(L) : Begun(c)

\* A goroutine reads the list or writes what it read, with its own function before it.
LEMMA ListsOfThread ==
  ASSUME TypeOK, OnceInv, ListInv, [Next]_vars, NEW t \in Thread, Makes(t)
  PROVE  /\ InOrder(shutdownFuncs') /\ \A c \in Elems(shutdownFuncs') : Written(c)'
         /\ \A u \in Thread : InOrder(read'[u]) /\ \A c \in Elems(read'[u]) : Written(c)'
         /\ UNCHANGED <<toRun, ran, busy>>
         /\ phase' = phase \/ phase' = "crashed"
<1> USE DEF registry, requests, closing
<1>1. \A c \in Resource : Written(c) => Begun(c) /\ Written(c)'
  BY WrittenBegun, WrittenStays
<1>2. /\ InOrder(shutdownFuncs) /\ \A c \in Elems(shutdownFuncs) : Written(c)'
      /\ \A u \in Thread : InOrder(read[u]) /\ \A c \in Elems(read[u]) : Written(c) /\ Written(c)'
  BY <1>1, ElemsType DEF TypeOK, ListInv, InOrder
<1>3. CASE Call(t) \/ OnceRuns(t) \/ OnceDone(t) \/ (pc[t] = "init" /\ NotMade(t)) \/ Moves(t)
  BY <1>2, <1>3 DEF Call, OnceRuns, OnceDone, NotMade, Moves
<1>4. CASE ReadShutdownFuncs(t)
  BY <1>2, <1>4 DEF TypeOK, ReadShutdownFuncs
<1>5. CASE WriteShutdownFuncs(t)
  <2>1. PICK x \in Resource : x = Item(t)
    BY ItemType
  <2> DEFINE M == Prepended(x, read[t])
  <2>2. /\ pc[t] = "write" /\ shutdownFuncs' = M /\ read' = [read EXCEPT ![t] = <<>>]
        /\ UNCHANGED <<toRun, ran, busy, phase>>
    BY <1>5, <2>1 DEF WriteShutdownFuncs
  <2>3. ~Written(x) /\ x \notin DependsOn(x) /\ read[t] \in Seq(Resource) /\ InOrder(read[t])
    BY <1>2, <2>1, <2>2, ItemNotWritten DEF TypeOK
  <2>4. M \in Seq(Resource) /\ Elems(M) = {x} \cup Elems(read[t]) /\ Ordered(M)
    BY <1>2, <2>3, Consed, ElemsConsed, OrderedConsed DEF InOrder
  <2> HIDE DEF M
  <2>5. Begun(x)
    BY <2>1, <2>2, HeadType, ComponentsAssumption DEF ComponentsAssumption, Begun, Item
  <2>6. Written(x)'
    <3>1. CASE todo[t] = <<>>
      BY <1>5, <2>1, <3>1, ComponentsAssumption
         DEF ComponentsAssumption, WriteShutdownFuncs, Goto, TypeOK, Written, Item
    <3>2. CASE todo[t] # <<>>
      BY <1>5, <2>1, <3>2, HeadType DEF WriteShutdownFuncs, TypeOK, Written, Item
    <3> QED
      BY <3>1, <3>2
  <2>7. InOrder(M) /\ \A c \in Elems(M) : Written(c)'
    <3>1. \A c \in Elems(read[t]) : Begun(c) /\ Written(c)'
      BY <1>2 DEF InOrder
    <3>2. \A c \in Elems(M) : Begun(c) /\ Written(c)'
      BY <2>4, <2>5, <2>6, <3>1
    <3> QED
      BY <2>4, <3>2 DEF InOrder
  <2>8. InOrder(<<>>) /\ Elems(<<>>) = {}
    BY ElemsEmpty DEF InOrder, Ordered
  <2> QED
    BY <1>2, <2>2, <2>7, <2>8 DEF TypeOK
<1>6. \/ Call(t) \/ OnceRuns(t) \/ OnceDone(t) \/ (pc[t] = "init" /\ NotMade(t)) \/ Moves(t)
      \/ ReadShutdownFuncs(t) \/ WriteShutdownFuncs(t)
  BY StepsOfThread
<1> QED
  BY <1>3, <1>4, <1>5, <1>6

\* Steps keep it.
LEMMA ListStep == TypeOK /\ OnceInv /\ ListInv /\ [Next]_vars => ListInv'
<1> SUFFICES ASSUME TypeOK, OnceInv, ListInv, [Next]_vars PROVE ListInv'
  OBVIOUS
<1> USE DEF registry, requests, closing
<1>1. \A c \in Resource : Written(c) => Begun(c) /\ Written(c)'
  BY WrittenBegun, WrittenStays
<1>2. /\ InOrder(shutdownFuncs) /\ \A c \in Elems(shutdownFuncs) : Written(c)'
      /\ \A u \in Thread : InOrder(read[u]) /\ \A c \in Elems(read[u]) : Written(c)'
      /\ InOrder(toRun) /\ \A c \in Elems(toRun) : Written(c)'
      /\ ran \subseteq Resource /\ \A c \in ran : Written(c)'
  BY <1>1, ElemsType DEF TypeOK, ListInv, InOrder
\* Its parts about order and what is written.
<1> DEFINE Lists == /\ InOrder(shutdownFuncs') /\ \A c \in Elems(shutdownFuncs') : Written(c)'
                    /\ \A u \in Thread : InOrder(read'[u]) /\ \A c \in Elems(read'[u]) : Written(c)'
                    /\ InOrder(toRun') /\ \A c \in Elems(toRun') : Written(c)'
                    /\ \A c \in ran' : Written(c)'
\* Its parts about what has run.
           Rest  == /\ phase' = "running" => toRun' = <<>> /\ ran' = {}
                    /\ \A c \in Elems(toRun') : c \notin ran' /\ ran' \cap DependsOn(c) = {}
                    /\ \A t \in ran' \cap Thread :
                        t \notin serving' /\ (kind'[t] \in {"grpc", "kafka"} => t \notin busy')
<1>3. ASSUME NEW t \in Thread, Makes(t) PROVE Lists /\ Rest
  <2>1. Lists
    BY <1>2, <1>3, ListsOfThread
  <2>2. UNCHANGED <<toRun, ran, busy, kind>> /\ (phase' = phase \/ phase' = "crashed")
    BY <1>3, StepsOfThread DEF Call, OnceRuns, OnceDone, NotMade, Moves, ReadShutdownFuncs,
       WriteShutdownFuncs
  <2>3. \A u \in ran \cap Thread : u \notin serving'
    <3>1. CASE Moves(t)
      <4>1. pc[t] = "once" => t \notin ran
        BY ComponentsAssumption DEF ComponentsAssumption, ListInv, Written
      <4> QED
        BY <3>1, <4>1 DEF Moves, ListInv
    <3> QED
      BY <1>3, <3>1, StepsOfThread DEF Call, OnceRuns, OnceDone, NotMade, ReadShutdownFuncs,
         WriteShutdownFuncs, ListInv
  <2> QED
    BY <2>1, <2>2, <2>3 DEF ListInv
<1>4. ASSUME NEW t \in Thread, RequestBegins(t) \/ RequestEnds(t) PROVE Lists /\ Rest
  BY <1>2, <1>4 DEF RequestBegins, RequestEnds, ListInv
<1>5. ASSUME CloseComponents PROVE Lists /\ Rest
  BY <1>2, <1>5 DEF CloseComponents, ListInv
<1>6. ASSUME StopAccepting PROVE Lists /\ Rest
  BY <1>2, <1>6 DEF StopAccepting, ListInv
<1>7. ASSUME RunShutdownFunc PROVE Lists /\ Rest
  <2>1. PICK x \in Resource : /\ x = Head(toRun) /\ toRun # <<>> /\ x \notin serving
                              /\ x \in Thread => MayStop(x)
                              /\ ran' = ran \cup {x} /\ toRun' = Tail(toRun) /\ phase = "closing"
                              /\ UNCHANGED <<shutdownFuncs, read, phase, kind, serving, busy>>
    BY <1>7, Tailed DEF RunShutdownFunc, invokeShutdownFunc, TypeOK
  <2>2. /\ Elems(toRun) = {x} \cup Elems(Tail(toRun)) /\ Tail(toRun) \in Seq(Resource)
        /\ Ordered(Tail(toRun))
        /\ \A c \in Elems(Tail(toRun)) : c # x /\ x \notin DependsOn(c)
    BY <2>1, ElemsTailed, Tailed, OrderedTailed DEF TypeOK, ListInv
  <2>3. Lists
    BY <1>2, <2>1, <2>2 DEF InOrder
  <2>4. Rest
    BY <2>1, <2>2 DEF ListInv, MayStop
  <2> QED
    BY <2>3, <2>4
<1>8. ASSUME doClose PROVE Lists /\ Rest
  BY <1>2, <1>8 DEF doClose, ListInv
<1>9. ASSUME UNCHANGED vars PROVE Lists /\ Rest
  BY <1>2, <1>9 DEF vars, ListInv
<1>10. Lists /\ Rest
  BY <1>3, <1>4, <1>5, <1>6, <1>7, <1>8, <1>9, StepCases
\* What is in order for this state is for the next one.
<1>11. ASSUME NEW L \in Seq(Resource), InOrder(L) PROVE Ordered(L)'
  BY <1>11, OrderedStays DEF InOrder
<1>12. \A c \in Elems(toRun') : DependsOn(c)' = DependsOn(c)
  BY <1>10, DependsStays, ElemsType DEF InOrder
<1> HIDE DEF Lists, Rest
<1> QED
  BY <1>10, <1>11, <1>12 DEF ListInv, Ordered, DependsOn, InOrder, Lists, Rest, Written

(***************************************************************************)
(* What is open.                                                           *)
(***************************************************************************)

\* Initially nothing is open.
LEMMA OpenInit == Init => OpenInv
BY DEF Init, OpenInv

\* A goroutine that moves on has what it adds in the same hands.
LEMMA OpenOfThread ==
  ASSUME TypeOK, OnceInv, ListInv, OpenInv, [Next]_vars, NEW t \in Thread, Makes(t)
  PROVE  OpenInv'
<1> USE DEF registry, requests, closing, Goto
<1>1. phase \in {"running", "closing"}
  BY StepsOfThread DEF Alive
<1>2. CASE Call(t) \/ OnceRuns(t) \/ OnceDone(t) \/ (pc[t] = "init" /\ NotMade(t))
  <2>1. /\ pc[t] \in {"idle", "once", "init"} /\ pc'[t] \in {"once", "init"}
        /\ \A u \in Thread \ {t} : pc'[u] = pc[u] /\ todo'[u] = todo[u]
        /\ UNCHANGED <<open, leaked, lost, late, shutdownFuncs, toRun, ran, phase>>
    BY <1>2 DEF TypeOK, Call, OnceRuns, OnceDone, NotMade
  <2> QED
    BY <2>1 DEF OpenInv, BeingAdded, InHand, Item
<1>3. CASE Moves(t)
  <2>1. PICK to \in {"read", "setup", "done", "failed"} :
          /\ pc' = [pc EXCEPT ![t] = to]
          /\ pc[t] \notin {"read", "write"} /\ (pc[t] = "setup" => to = "read")
          /\ \/ open' = open
             \/ open' = open \cup {Item(t)} /\ to \in {"read", "setup"}
             \/ open' = open \cup {t} /\ (t \in leaked' \/ (pc[t] = "listen" /\ t \notin ran))
    BY <1>3 DEF Moves
  <2>2. /\ UNCHANGED <<todo, lost, late, shutdownFuncs, toRun, ran>> /\ leaked \subseteq leaked'
        /\ phase' = phase \/ phase' = "crashed"
    BY <1>3 DEF Moves
  <2>3. \A c : BeingAdded(c) => BeingAdded(c)'
    BY <2>1, <2>2 DEF TypeOK, BeingAdded, Item
  <2>4. \A c : InHand(c) => InHand(c)'
    BY <1>1, <2>2 DEF InHand
  <2>5. to \in {"read", "setup"} => \E u \in Thread : Item(u)' = Item(t) /\ pc'[u] \in {"read", "setup"}
    BY <2>1, <2>2 DEF TypeOK, Item
  <2>6. \A c \in open' : c \in leaked' \cup lost' \cup late' \/ BeingAdded(c)' \/ InHand(c)'
    BY <2>1, <2>2, <2>3, <2>4, <2>5 DEF OpenInv, BeingAdded
  <2>7. \A u \in Thread : pc'[u] = "listen" => u \in lost \cup late \cup ran \/ InHand(u)'
    BY <2>1, <2>4 DEF TypeOK, OpenInv
  <2> QED
    BY <1>1, <2>2, <2>6, <2>7 DEF OpenInv, InHand
<1>4. CASE ReadShutdownFuncs(t)
  <2>1. /\ pc[t] = "read" /\ pc' = [pc EXCEPT ![t] = "write"]
        /\ UNCHANGED <<todo, open, leaked, lost, late, shutdownFuncs, toRun, ran, phase>>
    BY <1>4 DEF ReadShutdownFuncs
  <2>2. \A c : BeingAdded(c) => BeingAdded(c)'
    BY <2>1 DEF TypeOK, BeingAdded, Item
  <2> QED
    BY <2>1, <2>2 DEF TypeOK, OpenInv, InHand
<1>5. CASE WriteShutdownFuncs(t)
  <2>1. PICK x \in Resource : x = Item(t)
    BY ItemType
  <2>2. /\ pc[t] = "write" /\ pc'[t] \in {"once", "listen", "done"}
        /\ \A u \in Thread \ {t} : pc'[u] = pc[u]
        /\ pc'[t] = "listen" => x = t
        /\ Elems(shutdownFuncs') = {x} \cup Elems(read[t])
        /\ lost' = lost \cup (Elems(shutdownFuncs) \ Elems(read[t]))
        /\ late' = IF phase = "closing" THEN late \cup {x} ELSE late
        /\ UNCHANGED <<todo, open, leaked, toRun, ran, phase>>
    BY <1>5, <2>1, ElemsConsed DEF TypeOK, WriteShutdownFuncs, Item
  <2>3. InHand(x)' \/ x \in late'
    BY <1>1, <2>2 DEF InHand
  <2>4. \A c : BeingAdded(c) /\ c # x => BeingAdded(c)'
    BY <2>1, <2>2 DEF BeingAdded, Item
  <2>5. \A c : InHand(c) => InHand(c)' \/ c \in lost'
    BY <2>2 DEF InHand
  <2>6. \A c \in open' : c \in leaked' \cup lost' \cup late' \/ BeingAdded(c)' \/ InHand(c)'
    BY <2>2, <2>3, <2>4, <2>5 DEF OpenInv
  <2>7. \A u \in Thread : pc'[u] = "listen" => u \in lost' \cup late' \cup ran \/ InHand(u)'
    BY <2>2, <2>3, <2>5 DEF OpenInv
  <2> QED
    BY <1>1, <2>2, <2>6, <2>7 DEF OpenInv, InHand
<1> QED
  BY <1>2, <1>3, <1>4, <1>5, StepsOfThread

\* Every step keeps it.
LEMMA OpenStep == TypeOK /\ OnceInv /\ ListInv /\ OpenInv /\ [Next]_vars => OpenInv'
<1> SUFFICES ASSUME TypeOK, OnceInv, ListInv, OpenInv, [Next]_vars PROVE OpenInv'
  OBVIOUS
<1> USE DEF registry, requests, closing
<1>1. ASSUME NEW t \in Thread, RequestBegins(t) \/ RequestEnds(t) PROVE OpenInv'
  BY <1>1 DEF RequestBegins, RequestEnds, OpenInv, BeingAdded, InHand, Item
<1>2. CASE CloseComponents
  BY <1>2 DEF CloseComponents, OpenInv, BeingAdded, InHand, Item, ListInv
<1>3. CASE StopAccepting
  BY <1>3 DEF StopAccepting, OpenInv, BeingAdded, InHand, Item
<1>4. CASE RunShutdownFunc
  <2>1. PICK x : /\ Elems(toRun) = {x} \cup Elems(Tail(toRun)) /\ toRun' = Tail(toRun)
                 /\ open' = open \ {x} /\ ran' = ran \cup {x} /\ phase = "closing"
                 /\ UNCHANGED <<pc, todo, leaked, lost, late, shutdownFuncs, phase>>
    BY <1>4, ElemsTailed DEF RunShutdownFunc, invokeShutdownFunc, TypeOK
  <2> QED
    BY <2>1 DEF OpenInv, BeingAdded, InHand, Item
<1>5. CASE doClose
  BY <1>5 DEF doClose, OpenInv, BeingAdded, InHand, Item
<1>6. CASE UNCHANGED vars
  BY <1>6 DEF vars, OpenInv, BeingAdded, InHand, Item
<1> QED
  BY <1>1, <1>2, <1>3, <1>4, <1>5, <1>6, OpenOfThread, StepCases

(***************************************************************************)
(* Who keeps what requests use open.                                       *)
(***************************************************************************)

\* A server or consumer that may have requests has its function before it: it adds it,
\* it is in the list or among those yet to run, or it is lost, late or has run.
ServeInv ==
    \A t \in Thread :
        /\ pc[t] = "listen" => kind[t] \in Servers
        /\ t \in serving \cup busy =>
            /\ kind[t] \in Servers \cup Consumers
            /\ \/ pc[t] \in {"setup", "read", "write"} /\ todo[t] = <<>>
               \/ t \in lost \cup late \cup ran
               \/ t \in Elems(toRun)
               \/ phase = "running" /\ t \in Elems(shutdownFuncs)
               \/ phase = "crashed" /\ ran = {}

\* Initially nothing is served.
LEMMA ServeInit == Init => ServeInv
BY DEF Init, ServeInv

\* A goroutine that begins to serve adds its function, or added it before.
LEMMA ServeOfThread ==
  ASSUME TypeOK, OnceInv, ListInv, OpenInv, ServeInv, [Next]_vars, NEW t \in Thread, Makes(t)
  PROVE  ServeInv'
<1> USE DEF registry, requests, closing, Goto
<1>1. phase \in {"running", "closing"}
  BY StepsOfThread DEF Alive
<1>2. CASE Call(t) \/ OnceRuns(t) \/ OnceDone(t) \/ (pc[t] = "init" /\ NotMade(t))
  <2>1. /\ pc[t] \in {"idle", "once", "init"} /\ pc'[t] \in {"once", "init"}
        /\ \A u \in Thread \ {t} : pc'[u] = pc[u] /\ todo'[u] = todo[u]
        /\ UNCHANGED <<kind, serving, busy, lost, late, shutdownFuncs, toRun, ran, phase>>
    BY <1>2 DEF TypeOK, Call, OnceRuns, OnceDone, NotMade
  <2> QED
    BY <2>1 DEF ServeInv
<1>3. CASE Moves(t)
  <2>1. PICK to \in {"read", "setup", "done", "failed"} :
          /\ pc' = [pc EXCEPT ![t] = to]
          /\ pc[t] \notin {"read", "write"} /\ (pc[t] = "setup" => to = "read")
    BY <1>3 DEF Moves
  <2>2. /\ UNCHANGED <<kind, todo, busy, lost, late, shutdownFuncs, toRun, ran>>
        /\ phase' = phase \/ phase' = "crashed"
    BY <1>3 DEF Moves
  <2>3. ASSUME NEW u \in Thread, u \in serving \cup busy
        PROVE  /\ kind[u] \in Servers \cup Consumers
               /\ \/ pc'[u] \in {"setup", "read", "write"} /\ todo[u] = <<>>
                  \/ u \in lost \cup late \cup ran
                  \/ u \in Elems(toRun)
                  \/ phase' = "running" /\ u \in Elems(shutdownFuncs)
                  \/ phase' = "crashed" /\ ran = {}
    <3>1. pc[u] \in {"setup", "read", "write"} => pc'[u] \in {"setup", "read", "write"}
      BY <2>1 DEF TypeOK
    <3> QED
      BY <1>1, <2>2, <2>3, <3>1 DEF ServeInv, ListInv
  <2>4. ASSUME t \in serving', t \notin serving
        PROVE  /\ kind[t] \in Servers \cup Consumers
               /\ \/ pc'[t] \in {"setup", "read", "write"} /\ todo[t] = <<>>
                  \/ t \in lost \cup late \cup ran
                  \/ t \in Elems(toRun)
                  \/ phase' = "running" /\ t \in Elems(shutdownFuncs)
                  \/ phase' = "crashed" /\ ran = {}
    <3>1. CASE pc[t] = "once" /\ todo[t] = <<>> /\ pc'[t] \in {"read", "setup"} /\ kind[t] \in Consumers
      BY <3>1
    <3>2. CASE pc[t] = "listen" /\ t \notin ran
      <4>1. kind[t] \in Servers /\ (t \in lost \cup late \/ InHand(t))
        BY <3>2 DEF ServeInv, OpenInv
      <4> QED
        BY <1>1, <2>2, <4>1 DEF InHand, ListInv
    <3> QED
      BY <1>3, <2>4, <3>1, <3>2 DEF Moves
  <2>5. serving' = serving \/ serving' = serving \cup {t}
    BY <1>3 DEF Moves
  <2>6. \A u \in Thread : pc'[u] = "listen" => kind[u] \in Servers
    BY <2>1 DEF TypeOK, ServeInv
  <2> QED
    BY <2>2, <2>3, <2>4, <2>5, <2>6 DEF ServeInv
<1>4. CASE ReadShutdownFuncs(t)
  <2>1. /\ pc[t] = "read" /\ pc' = [pc EXCEPT ![t] = "write"]
        /\ UNCHANGED <<kind, todo, serving, busy, lost, late, shutdownFuncs, toRun, ran, phase>>
    BY <1>4 DEF ReadShutdownFuncs
  <2> QED
    BY <2>1 DEF TypeOK, ServeInv
<1>5. CASE WriteShutdownFuncs(t)
  <2>1. PICK x \in Resource : x = Item(t)
    BY ItemType
  <2>2. /\ pc[t] = "write"
        /\ pc'[t] = "listen" => kind[t] \in Servers
        /\ \A u \in Thread \ {t} : pc'[u] = pc[u]
        /\ todo[t] = <<>> => x = t
        /\ Elems(shutdownFuncs') = {x} \cup Elems(read[t])
        /\ lost' = lost \cup (Elems(shutdownFuncs) \ Elems(read[t]))
        /\ late' = IF phase = "closing" THEN late \cup {x} ELSE late
        /\ UNCHANGED <<kind, todo, serving, busy, toRun, ran, phase>>
    BY <1>5, <2>1, ElemsConsed DEF TypeOK, WriteShutdownFuncs, Item
  <2>3. \A c \in Elems(shutdownFuncs) : c \in Elems(shutdownFuncs') \cup lost'
    BY <2>2
  <2>4. x \in late' \/ (phase = "running" /\ x \in Elems(shutdownFuncs'))
    BY <1>1, <2>2
  <2> QED
    BY <1>1, <2>2, <2>3, <2>4 DEF ServeInv
<1> QED
  BY <1>2, <1>3, <1>4, <1>5, StepsOfThread

\* Every step keeps it.
LEMMA ServeStep ==
  TypeOK /\ OnceInv /\ ListInv /\ OpenInv /\ ServeInv /\ [Next]_vars => ServeInv'
<1> SUFFICES ASSUME TypeOK, OnceInv, ListInv, OpenInv, ServeInv, [Next]_vars PROVE ServeInv'
  OBVIOUS
<1> USE DEF registry, requests, closing
<1>1. ASSUME NEW t \in Thread, RequestBegins(t) \/ RequestEnds(t) PROVE ServeInv'
  <2>1. serving' \cup busy' \subseteq serving \cup busy
    BY <1>1 DEF RequestBegins, RequestEnds
  <2>2. UNCHANGED <<kind, pc, todo, lost, late, ran, toRun, shutdownFuncs, phase>>
    BY <1>1 DEF RequestBegins, RequestEnds
  <2> QED
    BY <2>1, <2>2 DEF ServeInv
<1>2. CASE CloseComponents
  BY <1>2, ElemsEmpty DEF CloseComponents, ServeInv, ListInv
<1>3. CASE StopAccepting
  BY <1>3 DEF StopAccepting, ServeInv
<1>4. CASE RunShutdownFunc
  <2>1. PICK x : /\ Elems(toRun) = {x} \cup Elems(Tail(toRun)) /\ toRun' = Tail(toRun)
                 /\ ran' = ran \cup {x} /\ phase = "closing"
                 /\ UNCHANGED <<kind, pc, todo, lost, late, shutdownFuncs, phase, serving, busy>>
    BY <1>4, ElemsTailed DEF RunShutdownFunc, invokeShutdownFunc, TypeOK
  <2> QED
    BY <2>1 DEF ServeInv
<1>5. CASE doClose
  BY <1>5 DEF doClose, ServeInv
<1>6. CASE UNCHANGED vars
  BY <1>6 DEF vars, ServeInv
<1> QED
  BY <1>1, <1>2, <1>3, <1>4, <1>5, <1>6, ServeOfThread, StepCases

(***************************************************************************)
(* The theorems.                                                           *)
(***************************************************************************)

\* The inductive invariant.
LEMMA ComponentsInvariant == Spec => [](TypeOK /\ OnceInv /\ ListInv /\ OpenInv /\ ServeInv)
BY TypeInit, TypeStep, OnceInit, OnceStep, ListInit, ListStep, OpenInit, OpenStep,
   ServeInit, ServeStep, PTL DEF Spec, Safe

\* However many goroutines add functions at once and whichever they lose: no shutdown
\* function is in the list twice, after one that its resource relies on, or run twice.
THEOREM RunInReverseOrder == Spec => []ReverseOrder
<1>1. ListInv => ReverseOrder
  BY DEF ListInv, Ordered, ReverseOrder
<1> QED
  BY <1>1, ComponentsInvariant, PTL

\* A request meets a resource that was closed under it only in the cases of Unguarded: its
\* consumer is still adding its function, that function is lost or late, or it is one of
\* http or RocketMQ and has run.  A grpc server and a Kafka consumer end without requests.
THEOREM RequestsFindOpen == Spec => []RequestsFindResourcesOpen
<1>1. TypeOK /\ ListInv /\ ServeInv => RequestsFindResourcesOpen
  <2> SUFFICES ASSUME TypeOK, ListInv, ServeInv, NEW t \in busy
               PROVE  /\ ran \cap DependsOn(t) # {} => Unguarded(t)
                      /\ kind[t] \in {"grpc", "kafka"} => t \notin ran
    BY DEF RequestsFindResourcesOpen
  <2>1. t \in Thread
    BY DEF TypeOK
  <2>2. kind[t] \in {"grpc", "kafka"} => t \notin ran
    BY <2>1 DEF ListInv
  <2>3. ASSUME ran \cap DependsOn(t) # {} PROVE Unguarded(t)
    <3>1. ran # {} /\ t \notin Elems(toRun) /\ phase # "running"
      BY <2>3 DEF ListInv
    <3>2. pc[t] \in {"setup", "read", "write"} \/ t \in lost \cup late \cup ran
      BY <2>1, <3>1 DEF ServeInv
    <3>3. kind[t] \in {"http", "grpc", "kafka", "rocketmq"}
      BY <2>1 DEF ServeInv, Servers, Consumers
    <3> QED
      BY <2>2, <3>2, <3>3 DEF Unguarded
  <2> QED
    BY <2>2, <2>3
<1> QED
  BY <1>1, ComponentsInvariant, PTL

\* What is open when the process ends in order is there for one of the known reasons.
THEOREM ClosedOrLost == Spec => []ClosedUnlessLost
<1>1. OpenInv => ClosedUnlessLost
  BY ElemsEmpty DEF OpenInv, InHand, BeingAdded, ClosedUnlessLost
<1> QED
  BY <1>1, ComponentsInvariant, PTL
===============================================================================
