--------------------------- MODULE SnowflakeProofs ---------------------------
(***************************************************************************)
(* Proofs about Snowflake, for any number of processes and goroutines, any *)
(* size of the fields and any bound.                                       *)
(***************************************************************************)
EXTENDS Snowflake, TLAPS

Critical == {"timeGen", "sequence", "timeReGen"}

(***************************************************************************)
(* What the mutex and sync.Once guarantee.                                 *)
(***************************************************************************)

\* A goroutine inside nextSnowflakeID holds the mutex of a generator.
MutexInv ==
    \A p \in Proc, c \in Caller :
       pc[p][c] \in Critical => lock[p] = {c} /\ gen[p] # NoGen

\* Nobody is past snowflakeOnce.Do before it is done, and one goroutine at
\* most is inside.
OnceInv ==
    \A p \in Proc :
       /\ once[p] # "done" => gen[p] = NoGen
       /\ \A c \in Caller :
             /\ once[p] = "new" => pc[p][c] \in {"idle", "once"}
             /\ once[p] = "running" => pc[p][c] \in {"idle", "once", "redis"}
             /\ once[p] = "done" => pc[p][c] # "redis"
             /\ \A d \in Caller :
                   pc[p][c] = "redis" /\ pc[p][d] = "redis" => c = d

\* The spin loop waits for a millisecond after the last id's.
ReGenInv ==
    \A p \in Proc, c \in Caller :
       pc[p][c] = "timeReGen" =>
          ts[p][c] = gen[p].lastTimeStamp /\ gen[p].sequence = 0

\* The generator knows the last millisecond of the ids issued.
LastInv ==
    \A p \in Proc : \A i \in DOMAIN issued[p] :
       /\ issued[p][i].ts <= gen[p].lastTimeStamp
       /\ issued[p][i].workerID = gen[p].workerID

GenInv == TypeOK /\ MutexInv /\ OnceInv /\ ReGenInv /\ LastInv

\* Initially every variable has its type.
LEMMA TypeInit == Init => TypeOK
BY SnowflakeAssumption DEF Init, TypeOK, NoGen, SnowflakeAssumption

\* The sequence of the next id fits its field.
LEMMA NextSequenceRange ==
  ASSUME NEW g \in Generator, NEW t \in Int
  PROVE  nextSequence(g, t) \in 0 .. SequenceMask
BY SnowflakeAssumption DEF nextSequence, Generator, SnowflakeAssumption

\* Issuing an id of a time and a sequence in range keeps the types.
LEMMA IssueType ==
  ASSUME TypeOK, NEW p \in Proc, NEW c \in Caller, gen[p] # NoGen,
         NEW t \in 0 .. MaxClock, NEW s \in 0 .. SequenceMask,
         Issue(p, c, t, s)
  PROVE  /\ gen' \in [Proc -> Generator \cup {NoGen}]
         /\ lock' \in [Proc -> SUBSET Caller]
         /\ pc' \in [Proc -> [Caller -> {"idle", "once", "redis", "nilcheck",
                                       "timeGen", "sequence", "timeReGen"}]]
         /\ result' \in [Proc -> [Caller -> {"none", "id", "panic",
                                 "uninitialized", "backwards"}]]
         /\ issued' \in [Proc -> Seq(ID)]
<1>1. gen[p] \in Generator
  BY DEF TypeOK
<1>2. t \in -1 .. MaxClock
  BY SnowflakeAssumption DEF SnowflakeAssumption
<1>3. [gen[p] EXCEPT !.lastTimeStamp = t] \in Generator
  BY <1>1, <1>2 DEF Generator
<1>4. [[gen[p] EXCEPT !.lastTimeStamp = t] EXCEPT !.sequence = s] \in Generator
  BY <1>3 DEF Generator
<1>5. gen' \in [Proc -> Generator \cup {NoGen}]
  BY <1>4 DEF TypeOK, Issue
<1>6. [ts |-> t, workerID |-> gen[p].workerID, sequence |-> s] \in ID
  BY <1>1 DEF ID, Generator
<1>7. issued' \in [Proc -> Seq(ID)]
  BY <1>6 DEF TypeOK, Issue
<1> QED
  BY <1>5, <1>7 DEF TypeOK, Issue, Unlock, Return, Goto

\* Every step keeps the types.
LEMMA TypeStep == TypeOK /\ MutexInv /\ [Next]_vars => TypeOK'
<1> SUFFICES ASSUME TypeOK, MutexInv, [Next]_vars PROVE TypeOK'
  OBVIOUS
<1> USE SnowflakeAssumption DEF TypeOK, SnowflakeAssumption
<1>1. CASE UNCHANGED vars
  BY <1>1 DEF vars
<1>2. CASE ClockBoundReached
  BY <1>2 DEF ClockBoundReached, vars
<1>3. ASSUME NEW p \in Proc, NEW w \in ManualWorkerIDs, InitIDGenerator(p, w)
      PROVE  TypeOK'
  BY <1>3 DEF InitIDGenerator, newIDGenerator, Generator, WorkerID
<1>4. ASSUME NEW p \in Proc, NEW c \in Caller, NextSnowflakeID(p, c)
      PROVE  TypeOK'
  BY <1>4 DEF NextSnowflakeID, Goto
<1>5. ASSUME NEW p \in Proc, NEW c \in Caller, IncrResent(p, c)
      PROVE  TypeOK'
  BY <1>5 DEF IncrResent
<1>6. ASSUME NEW p \in Proc, NEW c \in Caller, Lock(p, c)
      PROVE  TypeOK'
  BY <1>6 DEF Lock, Goto
<1>7. ASSUME NEW p \in Proc, NEW c \in Caller, CallStep(p, c)
      PROVE  TypeOK'
  <2>1. CASE OnceDo(p, c)
    BY <2>1 DEF OnceDo, Goto
  <2>2. CASE OnceDone(p, c)
    BY <2>2 DEF OnceDone, Goto
  <2>3. CASE initIDGeneratorByRedis(p, c)
    <3>1. nextWorkerID' % MaxWorkerID \in 0 .. MaxWorkerID - 1
      BY <2>3 DEF initIDGeneratorByRedis
    <3> QED
      BY <2>3, <3>1 DEF initIDGeneratorByRedis, newIDGenerator, Generator,
                        WorkerID, Goto
  <2>4. CASE initPanics(p, c)
    BY <2>4 DEF initPanics, Return, Goto
  <2>5. CASE NotInitialized(p, c)
    BY <2>5 DEF NotInitialized, Return, Goto
  <2>6. CASE timeGen(p, c)
    BY <2>6 DEF timeGen, Goto
  <2>7. ASSUME pc[p][c] \in {"sequence", "timeReGen"}
        PROVE  gen[p] # NoGen /\ gen[p] \in Generator
    BY <2>7 DEF MutexInv, Critical
  <2>8. ASSUME pc[p][c] \in {"sequence", "timeReGen"}, NEW t \in Int
        PROVE  nextSequence(gen[p], t) \in 0 .. SequenceMask
    BY <2>7, <2>8, NextSequenceRange
  <2>9. CASE SequenceExhausted(p, c)
    <3>1. 0 \in 0 .. SequenceMask /\ gen[p] \in Generator
      BY <2>7, <2>9 DEF SequenceExhausted
    <3>2. [gen[p] EXCEPT !.sequence = 0] \in Generator
      BY <3>1 DEF Generator
    <3>3. gen' \in [Proc -> Generator \cup {NoGen}]
      BY <2>9, <3>2 DEF SequenceExhausted
    <3> QED
      BY <2>9, <3>3 DEF SequenceExhausted, Goto
  <2>10. CASE RefuseBackwards(p, c)
    <3>1. nextSequence(gen[p], ts[p][c]) \in 0 .. SequenceMask
      BY <2>8, <2>10 DEF RefuseBackwards
    <3>2. gen' \in [Proc -> Generator \cup {NoGen}]
      BY <2>7, <2>10, <3>1 DEF RefuseBackwards, Generator
    <3> QED
      BY <2>10, <3>2 DEF RefuseBackwards, Return, Goto, Unlock
  <2>11. CASE IssueID(p, c)
    <3>1. nextSequence(gen[p], ts[p][c]) \in 0 .. SequenceMask
      BY <2>8, <2>11 DEF IssueID
    <3> QED
      BY <2>7, <2>11, <3>1, IssueType DEF IssueID
  <2>12. CASE timeReGen(p, c)
    <3>1. gen[p].sequence \in 0 .. SequenceMask /\ clock[p] \in 0 .. MaxClock
      BY <2>7, <2>12 DEF timeReGen, Generator
    <3>2. ts' \in [Proc -> [Caller -> 0 .. MaxClock]]
      BY <2>12 DEF timeReGen
    <3> QED
      BY <2>7, <2>12, <3>1, <3>2, IssueType DEF timeReGen
  <2> QED
    BY <1>7, <2>1, <2>2, <2>3, <2>4, <2>5, <2>6, <2>9, <2>10, <2>11, <2>12
       DEF CallStep
<1>8. ASSUME NEW p \in Proc, Tick(p)
      PROVE  TypeOK'
  BY <1>8 DEF Tick
<1>9. ASSUME NEW p \in Proc, StepBack(p)
      PROVE  TypeOK'
  BY <1>9 DEF StepBack
<1> QED
  BY <1>1, <1>2, <1>3, <1>4, <1>5, <1>6, <1>7, <1>8, <1>9 DEF Next

(***************************************************************************)
(* A step, one case per action, for the proofs below.                      *)
(***************************************************************************)

\* A step of Next is a step of one of the actions.
LEMMA StepCases ==
  ASSUME [Next]_vars
  PROVE  \/ UNCHANGED vars
         \/ \E p \in Proc : \E w \in ManualWorkerIDs : InitIDGenerator(p, w)
         \/ \E p \in Proc : \E c \in Caller : NextSnowflakeID(p, c)
         \/ \E p \in Proc : \E c \in Caller : IncrResent(p, c)
         \/ \E p \in Proc : \E c \in Caller : Lock(p, c)
         \/ \E p \in Proc : \E c \in Caller : OnceDo(p, c)
         \/ \E p \in Proc : \E c \in Caller : OnceDone(p, c)
         \/ \E p \in Proc : \E c \in Caller : initIDGeneratorByRedis(p, c)
         \/ \E p \in Proc : \E c \in Caller : initPanics(p, c)
         \/ \E p \in Proc : \E c \in Caller : NotInitialized(p, c)
         \/ \E p \in Proc : \E c \in Caller : timeGen(p, c)
         \/ \E p \in Proc : \E c \in Caller : SequenceExhausted(p, c)
         \/ \E p \in Proc : \E c \in Caller : RefuseBackwards(p, c)
         \/ \E p \in Proc : \E c \in Caller : IssueID(p, c)
         \/ \E p \in Proc : \E c \in Caller : timeReGen(p, c)
         \/ \E p \in Proc : Tick(p)
         \/ \E p \in Proc : StepBack(p)
BY DEF Next, CallStep, ClockBoundReached

\* The holder of the mutex has a generator with a worker id.
LEMMA HolderHasGenerator ==
  ASSUME TypeOK, MutexInv, NEW p \in Proc, NEW c \in Caller,
         pc[p][c] \in Critical
  PROVE  /\ gen[p] \in Generator /\ gen[p].workerID \in Nat
         /\ gen[p] # NoGen
<1>1. gen[p] \in Generator /\ gen[p] # NoGen
  BY DEF TypeOK, MutexInv
<1>2. WorkerID \subseteq Nat
  BY SnowflakeAssumption DEF WorkerID, SnowflakeAssumption
<1> QED
  BY <1>1, <1>2 DEF Generator

\* The holder is alone in the critical section.
LEMMA HolderAlone ==
  ASSUME MutexInv, NEW p \in Proc, NEW c \in Caller, NEW d \in Caller,
         pc[p][c] \in Critical, pc[p][d] \in Critical
  PROVE  c = d
BY DEF MutexInv

\* The ids issued have the fields of an id.
LEMMA IssuedType ==
  ASSUME TypeOK, NEW p \in Proc, NEW i \in DOMAIN issued[p]
  PROVE  issued[p][i].ts \in Nat /\ issued[p][i].sequence \in 0 .. SequenceMask
<1>1. issued[p][i] \in ID
  BY DEF TypeOK
<1> QED
  BY <1>1 DEF ID

\* No id was issued without a generator.
LEMMA NoGeneratorNoIDs ==
  ASSUME TypeOK, LastInv, NEW p \in Proc, gen[p] = NoGen
  PROVE  DOMAIN issued[p] = {}
<1>1. ASSUME NEW i \in DOMAIN issued[p] PROVE FALSE
  <2>1. issued[p][i] \in ID
    BY <1>1 DEF TypeOK
  <2> QED
    BY <1>1, <2>1 DEF LastInv, NoGen, ID
<1> QED
  BY <1>1

\* Issue adds one id at the end of the ids of its process.
LEMMA IssueAppends ==
  ASSUME TypeOK, NEW p \in Proc, NEW c \in Caller,
         NEW t, NEW s, Issue(p, c, t, s)
  PROVE  /\ DOMAIN issued[p] = 1 .. Len(issued[p]) /\ Len(issued[p]) \in Nat
         /\ DOMAIN issued'[p] = 1 .. Len(issued[p]) + 1
         /\ \A i \in DOMAIN issued[p] : issued'[p][i] = issued[p][i]
         /\ issued'[p][Len(issued[p]) + 1] =
               [ts |-> t, workerID |-> gen[p].workerID, sequence |-> s]
         /\ \A q \in Proc \ {p} : issued'[q] = issued[q]
<1> DEFINE id == [ts |-> t, workerID |-> gen[p].workerID, sequence |-> s]
<1>1. issued[p] \in Seq(ID)
  BY DEF TypeOK
<1>2. issued'[p] = Append(issued[p], id) /\ \A q \in Proc \ {p} : issued'[q] = issued[q]
  BY DEF TypeOK, Issue
<1> HIDE DEF id
<1>3. /\ DOMAIN issued[p] = 1 .. Len(issued[p]) /\ Len(issued[p]) \in Nat
      /\ DOMAIN Append(issued[p], id) = 1 .. Len(issued[p]) + 1
      /\ \A i \in 1 .. Len(issued[p]) : Append(issued[p], id)[i] = issued[p][i]
      /\ Append(issued[p], id)[Len(issued[p]) + 1] = id
  BY <1>1
<1> QED
  BY <1>2, <1>3 DEF id

\* Issue at a time not before the last one keeps LastInv.
LEMMA IssueLast ==
  ASSUME TypeOK, LastInv, NEW p \in Proc, NEW c \in Caller,
         gen[p] \in Generator, NEW t \in Int, NEW s,
         gen[p].lastTimeStamp <= t, Issue(p, c, t, s)
  PROVE  LastInv'
<1>1. gen[p].lastTimeStamp \in Int
  BY DEF Generator
<1>2. /\ gen'[p].lastTimeStamp = t /\ gen'[p].workerID = gen[p].workerID
      /\ \A q \in Proc \ {p} : gen'[q] = gen[q]
  BY DEF TypeOK, Issue, Generator
<1>3. ASSUME NEW i \in DOMAIN issued'[p]
      PROVE  /\ issued'[p][i].ts <= gen'[p].lastTimeStamp
             /\ issued'[p][i].workerID = gen'[p].workerID
  <2>1. CASE i \in DOMAIN issued[p]
    <3>1. issued[p][i].ts \in Nat /\ issued'[p][i] = issued[p][i]
      BY <2>1, IssueAppends, IssuedType
    <3> QED
      BY <1>1, <1>2, <2>1, <3>1 DEF LastInv
  <2>2. CASE i = Len(issued[p]) + 1
    <3>1. issued'[p][i] = [ts |-> t, workerID |-> gen[p].workerID, sequence |-> s]
      BY <2>2, IssueAppends
    <3> QED
      BY <1>2, <3>1
  <2>3. /\ DOMAIN issued[p] = 1 .. Len(issued[p]) /\ Len(issued[p]) \in Nat
        /\ DOMAIN issued'[p] = 1 .. Len(issued[p]) + 1
    BY IssueAppends
  <2> QED
    BY <1>3, <2>1, <2>2, <2>3
<1>4. ASSUME NEW q \in Proc \ {p}, NEW i \in DOMAIN issued'[q]
      PROVE  /\ issued'[q][i].ts <= gen'[q].lastTimeStamp
             /\ issued'[q][i].workerID = gen'[q].workerID
  <2>1. issued'[q] = issued[q]
    BY IssueAppends
  <2> QED
    BY <1>2, <1>4, <2>1 DEF LastInv
<1> QED
  BY <1>3, <1>4 DEF LastInv

\* The mutex is taken before the critical section and released at its end.
LEMMA MutexStep == TypeOK /\ MutexInv /\ [Next]_vars => MutexInv'
<1> SUFFICES ASSUME TypeOK, MutexInv, [Next]_vars PROVE MutexInv'
  OBVIOUS
<1> USE DEF TypeOK, MutexInv, Critical
<1>1. CASE UNCHANGED vars
  BY <1>1 DEF vars
<1>2. ASSUME NEW p \in Proc, NEW w \in ManualWorkerIDs, InitIDGenerator(p, w)
      PROVE  MutexInv'
  BY <1>2 DEF InitIDGenerator, newIDGenerator, NoGen
<1>3. ASSUME NEW p \in Proc, NEW c \in Caller, NextSnowflakeID(p, c) PROVE MutexInv'
  BY <1>3 DEF NextSnowflakeID, Goto
<1>4. ASSUME NEW p \in Proc, NEW c \in Caller, IncrResent(p, c) PROVE MutexInv'
  BY <1>4 DEF IncrResent
<1>5. ASSUME NEW p \in Proc, NEW c \in Caller, Lock(p, c) PROVE MutexInv'
  BY <1>5 DEF Lock, Goto
<1>6. ASSUME NEW p \in Proc, NEW c \in Caller, OnceDo(p, c) PROVE MutexInv'
  BY <1>6 DEF OnceDo, Goto
<1>7. ASSUME NEW p \in Proc, NEW c \in Caller, OnceDone(p, c) PROVE MutexInv'
  BY <1>7 DEF OnceDone, Goto
<1>8. ASSUME NEW p \in Proc, NEW c \in Caller, initIDGeneratorByRedis(p, c)
      PROVE  MutexInv'
  BY <1>8 DEF initIDGeneratorByRedis, newIDGenerator, NoGen, Goto
<1>9. ASSUME NEW p \in Proc, NEW c \in Caller, initPanics(p, c) PROVE MutexInv'
  BY <1>9 DEF initPanics, Return, Goto
<1>10. ASSUME NEW p \in Proc, NEW c \in Caller, NotInitialized(p, c) PROVE MutexInv'
  BY <1>10 DEF NotInitialized, Return, Goto
<1>11. ASSUME NEW p \in Proc, NEW c \in Caller, timeGen(p, c) PROVE MutexInv'
  BY <1>11 DEF timeGen, Goto
<1>12. ASSUME NEW p \in Proc, NEW c \in Caller, SequenceExhausted(p, c)
      PROVE  MutexInv'
  <2>1. gen[p] \in Generator /\ gen[p].workerID \in Nat
    BY <1>12, HolderHasGenerator DEF SequenceExhausted
  <2>2. gen'[p].workerID = gen[p].workerID
    BY <1>12, <2>1 DEF SequenceExhausted, Generator
  <2>3. gen'[p] # NoGen
    BY <2>1, <2>2 DEF NoGen
  <2> QED
    BY <1>12, <2>3 DEF SequenceExhausted, Goto
<1>13. ASSUME NEW p \in Proc, NEW c \in Caller, RefuseBackwards(p, c)
      PROVE  MutexInv'
  <2>1. gen[p] \in Generator /\ gen[p].workerID \in Nat
    BY <1>13, HolderHasGenerator DEF RefuseBackwards
  <2>2. gen'[p].workerID = gen[p].workerID
    BY <1>13, <2>1 DEF RefuseBackwards, Generator
  <2>3. gen'[p] # NoGen
    BY <2>1, <2>2 DEF NoGen
  <2> QED
    BY <1>13, <2>3 DEF RefuseBackwards, Unlock, Return, Goto
<1>14. ASSUME NEW p \in Proc, NEW c \in Caller, IssueID(p, c) PROVE MutexInv'
  <2>1. gen[p] \in Generator /\ gen[p].workerID \in Nat
    BY <1>14, HolderHasGenerator DEF IssueID
  <2>2. gen'[p].workerID = gen[p].workerID
    BY <1>14, <2>1 DEF IssueID, Issue, Generator
  <2>3. gen'[p] # NoGen
    BY <2>1, <2>2 DEF NoGen
  <2>4. \A d \in Caller : pc[p][d] \in Critical => d = c
    BY <1>14, HolderAlone DEF IssueID
  <2>5. \A d \in Caller : pc'[p][d] \notin Critical
    BY <1>14, <2>4 DEF IssueID, Issue, Unlock, Return, Goto
  <2> QED
    BY <1>14, <2>5 DEF IssueID, Issue, Unlock, Return, Goto
<1>15. ASSUME NEW p \in Proc, NEW c \in Caller, timeReGen(p, c) PROVE MutexInv'
  <2>1. gen[p] \in Generator /\ gen[p].workerID \in Nat
    BY <1>15, HolderHasGenerator DEF timeReGen
  <2>2. gen'[p].workerID = gen[p].workerID
    BY <1>15, <2>1 DEF timeReGen, Issue, Generator
  <2>3. gen'[p] # NoGen
    BY <2>1, <2>2 DEF NoGen
  <2>4. \A d \in Caller : pc[p][d] \in Critical => d = c
    BY <1>15, HolderAlone DEF timeReGen
  <2>5. \A d \in Caller : pc'[p][d] \notin Critical
    BY <1>15, <2>4 DEF timeReGen, Issue, Unlock, Return, Goto
  <2> QED
    BY <1>15, <2>5 DEF timeReGen, Issue, Unlock, Return, Goto
<1>16. ASSUME NEW p \in Proc, Tick(p) PROVE MutexInv'
  BY <1>16 DEF Tick
<1>17. ASSUME NEW p \in Proc, StepBack(p) PROVE MutexInv'
  BY <1>17 DEF StepBack
<1> QED
  BY StepCases, <1>1, <1>2, <1>3, <1>4, <1>5, <1>6, <1>7, <1>8, <1>9, <1>10,
     <1>11, <1>12, <1>13, <1>14, <1>15, <1>16, <1>17

\* sync.Once keeps everybody out until the generator is settled.
LEMMA OnceStep == TypeOK /\ MutexInv /\ OnceInv /\ [Next]_vars => OnceInv'
<1> SUFFICES ASSUME TypeOK, MutexInv, OnceInv, [Next]_vars PROVE OnceInv'
  OBVIOUS
<1> USE DEF TypeOK, MutexInv, OnceInv, Critical
<1>1. CASE UNCHANGED vars
  BY <1>1 DEF vars
<1>2. ASSUME NEW p \in Proc, NEW w \in ManualWorkerIDs, InitIDGenerator(p, w)
      PROVE  OnceInv'
  BY <1>2 DEF InitIDGenerator, newIDGenerator, NoGen
<1>3. ASSUME NEW p \in Proc, NEW c \in Caller, NextSnowflakeID(p, c) PROVE OnceInv'
  BY <1>3 DEF NextSnowflakeID, Goto
<1>4. ASSUME NEW p \in Proc, NEW c \in Caller, IncrResent(p, c) PROVE OnceInv'
  BY <1>4 DEF IncrResent
<1>5. ASSUME NEW p \in Proc, NEW c \in Caller, Lock(p, c) PROVE OnceInv'
  BY <1>5 DEF Lock, Goto
<1>6. ASSUME NEW p \in Proc, NEW c \in Caller, OnceDo(p, c) PROVE OnceInv'
  BY <1>6 DEF OnceDo, Goto
<1>7. ASSUME NEW p \in Proc, NEW c \in Caller, OnceDone(p, c) PROVE OnceInv'
  BY <1>7 DEF OnceDone, Goto
<1>8. ASSUME NEW p \in Proc, NEW c \in Caller, initIDGeneratorByRedis(p, c)
      PROVE  OnceInv'
  BY <1>8 DEF initIDGeneratorByRedis, newIDGenerator, NoGen, Goto
<1>9. ASSUME NEW p \in Proc, NEW c \in Caller, initPanics(p, c) PROVE OnceInv'
  BY <1>9 DEF initPanics, Return, Goto
<1>10. ASSUME NEW p \in Proc, NEW c \in Caller, NotInitialized(p, c) PROVE OnceInv'
  BY <1>10 DEF NotInitialized, Return, Goto
<1>11. ASSUME NEW p \in Proc, NEW c \in Caller, timeGen(p, c) PROVE OnceInv'
  BY <1>11 DEF timeGen, Goto
<1>12. ASSUME NEW p \in Proc, NEW c \in Caller, SequenceExhausted(p, c)
      PROVE  OnceInv'
  BY <1>12 DEF SequenceExhausted, Goto
<1>13. ASSUME NEW p \in Proc, NEW c \in Caller, RefuseBackwards(p, c) PROVE OnceInv'
  BY <1>13 DEF RefuseBackwards, Unlock, Return, Goto
<1>14. ASSUME NEW p \in Proc, NEW c \in Caller, IssueID(p, c) PROVE OnceInv'
  BY <1>14 DEF IssueID, Issue, Unlock, Return, Goto
<1>15. ASSUME NEW p \in Proc, NEW c \in Caller, timeReGen(p, c) PROVE OnceInv'
  BY <1>15 DEF timeReGen, Issue, Unlock, Return, Goto
<1>16. ASSUME NEW p \in Proc, Tick(p) PROVE OnceInv'
  BY <1>16 DEF Tick
<1>17. ASSUME NEW p \in Proc, StepBack(p) PROVE OnceInv'
  BY <1>17 DEF StepBack
<1> QED
  BY StepCases, <1>1, <1>2, <1>3, <1>4, <1>5, <1>6, <1>7, <1>8, <1>9, <1>10,
     <1>11, <1>12, <1>13, <1>14, <1>15, <1>16, <1>17

\* Nobody else moves the generator while its holder spins.
LEMMA ReGenStep == TypeOK /\ MutexInv /\ OnceInv /\ ReGenInv /\ [Next]_vars => ReGenInv'
<1> SUFFICES ASSUME TypeOK, MutexInv, OnceInv, ReGenInv, [Next]_vars PROVE ReGenInv'
  OBVIOUS
<1> USE DEF TypeOK, MutexInv, OnceInv, ReGenInv, Critical
<1>1. CASE UNCHANGED vars
  BY <1>1 DEF vars
<1>2. ASSUME NEW p \in Proc, NEW w \in ManualWorkerIDs, InitIDGenerator(p, w)
      PROVE  ReGenInv'
  BY <1>2 DEF InitIDGenerator, newIDGenerator, NoGen
<1>3. ASSUME NEW p \in Proc, NEW c \in Caller, NextSnowflakeID(p, c) PROVE ReGenInv'
  BY <1>3 DEF NextSnowflakeID, Goto
<1>4. ASSUME NEW p \in Proc, NEW c \in Caller, IncrResent(p, c) PROVE ReGenInv'
  BY <1>4 DEF IncrResent
<1>5. ASSUME NEW p \in Proc, NEW c \in Caller, Lock(p, c) PROVE ReGenInv'
  BY <1>5 DEF Lock, Goto
<1>6. ASSUME NEW p \in Proc, NEW c \in Caller, OnceDo(p, c) PROVE ReGenInv'
  BY <1>6 DEF OnceDo, Goto
<1>7. ASSUME NEW p \in Proc, NEW c \in Caller, OnceDone(p, c) PROVE ReGenInv'
  BY <1>7 DEF OnceDone, Goto
<1>8. ASSUME NEW p \in Proc, NEW c \in Caller, initIDGeneratorByRedis(p, c)
      PROVE  ReGenInv'
  BY <1>8 DEF initIDGeneratorByRedis, newIDGenerator, NoGen, Goto
<1>9. ASSUME NEW p \in Proc, NEW c \in Caller, initPanics(p, c) PROVE ReGenInv'
  BY <1>9 DEF initPanics, Return, Goto
<1>10. ASSUME NEW p \in Proc, NEW c \in Caller, NotInitialized(p, c) PROVE ReGenInv'
  BY <1>10 DEF NotInitialized, Return, Goto
<1>11. ASSUME NEW p \in Proc, NEW c \in Caller, timeGen(p, c) PROVE ReGenInv'
  BY <1>11 DEF timeGen, Goto
<1>12. ASSUME NEW p \in Proc, NEW c \in Caller, SequenceExhausted(p, c)
      PROVE  ReGenInv'
  BY <1>12 DEF SequenceExhausted, Goto
<1>13. ASSUME NEW p \in Proc, NEW c \in Caller, RefuseBackwards(p, c)
      PROVE  ReGenInv'
  <2>1. \A d \in Caller : pc[p][d] \in Critical => d = c
    BY <1>13, HolderAlone DEF RefuseBackwards
  <2>2. \A d \in Caller : pc'[p][d] \notin Critical
    BY <1>13, <2>1 DEF RefuseBackwards, Unlock, Return, Goto
  <2> QED
    BY <1>13, <2>2 DEF RefuseBackwards, Unlock, Return, Goto
<1>14. ASSUME NEW p \in Proc, NEW c \in Caller, IssueID(p, c) PROVE ReGenInv'
  <2>1. \A d \in Caller : pc[p][d] \in Critical => d = c
    BY <1>14, HolderAlone DEF IssueID
  <2>2. \A d \in Caller : pc'[p][d] \notin Critical
    BY <1>14, <2>1 DEF IssueID, Issue, Unlock, Return, Goto
  <2> QED
    BY <1>14, <2>2 DEF IssueID, Issue, Unlock, Return, Goto
<1>15. ASSUME NEW p \in Proc, NEW c \in Caller, timeReGen(p, c) PROVE ReGenInv'
  <2>1. \A d \in Caller : pc[p][d] \in Critical => d = c
    BY <1>15, HolderAlone DEF timeReGen
  <2>2. \A d \in Caller : pc'[p][d] \notin Critical
    BY <1>15, <2>1 DEF timeReGen, Issue, Unlock, Return, Goto
  <2> QED
    BY <1>15, <2>2 DEF timeReGen, Issue, Unlock, Return, Goto
<1>16. ASSUME NEW p \in Proc, Tick(p) PROVE ReGenInv'
  BY <1>16 DEF Tick
<1>17. ASSUME NEW p \in Proc, StepBack(p) PROVE ReGenInv'
  BY <1>17 DEF StepBack
<1> QED
  BY StepCases, <1>1, <1>2, <1>3, <1>4, <1>5, <1>6, <1>7, <1>8, <1>9, <1>10,
     <1>11, <1>12, <1>13, <1>14, <1>15, <1>16, <1>17

\* The last millisecond of the generator bounds the ids issued.
LEMMA LastStep ==
  TypeOK /\ MutexInv /\ OnceInv /\ ReGenInv /\ LastInv /\ [Next]_vars => LastInv'
<1> SUFFICES ASSUME TypeOK, MutexInv, OnceInv, ReGenInv, LastInv, [Next]_vars
      PROVE  LastInv'
  OBVIOUS
<1> USE DEF TypeOK, MutexInv, OnceInv, ReGenInv, LastInv, Critical
<1>1. CASE UNCHANGED vars
  BY <1>1 DEF vars
<1>2. ASSUME NEW p \in Proc, NEW w \in ManualWorkerIDs, InitIDGenerator(p, w)
      PROVE  LastInv'
  <2>1. DOMAIN issued[p] = {}
    BY <1>2, NoGeneratorNoIDs DEF InitIDGenerator
  <2> QED
    BY <1>2, <2>1 DEF InitIDGenerator, newIDGenerator, NoGen
<1>3. ASSUME NEW p \in Proc, NEW c \in Caller, NextSnowflakeID(p, c) PROVE LastInv'
  BY <1>3 DEF NextSnowflakeID, Goto
<1>4. ASSUME NEW p \in Proc, NEW c \in Caller, IncrResent(p, c) PROVE LastInv'
  BY <1>4 DEF IncrResent
<1>5. ASSUME NEW p \in Proc, NEW c \in Caller, Lock(p, c) PROVE LastInv'
  BY <1>5 DEF Lock, Goto
<1>6. ASSUME NEW p \in Proc, NEW c \in Caller, OnceDo(p, c) PROVE LastInv'
  BY <1>6 DEF OnceDo, Goto
<1>7. ASSUME NEW p \in Proc, NEW c \in Caller, OnceDone(p, c) PROVE LastInv'
  BY <1>7 DEF OnceDone, Goto
<1>8. ASSUME NEW p \in Proc, NEW c \in Caller, initIDGeneratorByRedis(p, c)
      PROVE  LastInv'
  <2>1. DOMAIN issued[p] = {}
    BY <1>8, NoGeneratorNoIDs DEF initIDGeneratorByRedis
  <2> QED
    BY <1>8, <2>1 DEF initIDGeneratorByRedis, newIDGenerator, NoGen, Goto
<1>9. ASSUME NEW p \in Proc, NEW c \in Caller, initPanics(p, c) PROVE LastInv'
  BY <1>9 DEF initPanics, Return, Goto
<1>10. ASSUME NEW p \in Proc, NEW c \in Caller, NotInitialized(p, c) PROVE LastInv'
  BY <1>10 DEF NotInitialized, Return, Goto
<1>11. ASSUME NEW p \in Proc, NEW c \in Caller, timeGen(p, c) PROVE LastInv'
  BY <1>11 DEF timeGen, Goto
<1>12. ASSUME NEW p \in Proc, NEW c \in Caller, SequenceExhausted(p, c)
      PROVE  LastInv'
  BY <1>12 DEF SequenceExhausted, Goto
<1>13. ASSUME NEW p \in Proc, NEW c \in Caller, RefuseBackwards(p, c) PROVE LastInv'
  BY <1>13 DEF RefuseBackwards, Unlock, Return, Goto
<1>14. ASSUME NEW p \in Proc, NEW c \in Caller, IssueID(p, c) PROVE LastInv'
  <2> DEFINE t == ts[p][c]
             s == nextSequence(gen[p], ts[p][c])
  <2>1. Issue(p, c, t, s) /\ gen[p] \in Generator
    BY <1>14, HolderHasGenerator DEF IssueID
  <2>2. t \in Int /\ gen[p].lastTimeStamp <= t
    BY <1>14, <2>1 DEF IssueID, Generator
  <2> HIDE DEF t, s
  <2> QED
    BY <2>1, <2>2, IssueLast
<1>15. ASSUME NEW p \in Proc, NEW c \in Caller, timeReGen(p, c) PROVE LastInv'
  <2> DEFINE t == clock[p]
             s == gen[p].sequence
  <2>1. Issue(p, c, t, s) /\ gen[p] \in Generator
    BY <1>15, HolderHasGenerator DEF timeReGen
  <2>2. t \in Int /\ gen[p].lastTimeStamp <= t
    BY <1>15, <2>1 DEF timeReGen, Generator
  <2> HIDE DEF t, s
  <2> QED
    BY <2>1, <2>2, IssueLast
<1>16. ASSUME NEW p \in Proc, Tick(p) PROVE LastInv'
  BY <1>16 DEF Tick
<1>17. ASSUME NEW p \in Proc, StepBack(p) PROVE LastInv'
  BY <1>17 DEF StepBack
<1> QED
  BY StepCases, <1>1, <1>2, <1>3, <1>4, <1>5, <1>6, <1>7, <1>8, <1>9, <1>10,
     <1>11, <1>12, <1>13, <1>14, <1>15, <1>16, <1>17

(***************************************************************************)
(* The general invariant, whatever the clock does.                         *)
(***************************************************************************)

\* GenInv holds initially.
LEMMA GenInit == Init => GenInv
<1>1. Init => MutexInv /\ OnceInv /\ ReGenInv
  BY DEF Init, MutexInv, OnceInv, ReGenInv, Critical, NoGen
<1>2. Init => LastInv
  BY DEF Init, LastInv
<1> QED
  BY <1>1, <1>2, TypeInit DEF GenInv

\* Every step keeps GenInv.
LEMMA GenStep == GenInv /\ [Next]_vars => GenInv'
BY TypeStep, MutexStep, OnceStep, ReGenStep, LastStep DEF GenInv

\* GenInv is an invariant of the specification.
LEMMA GenInvariant == Spec => []GenInv
BY GenInit, GenStep, PTL DEF Spec

\* Type correctness of the generator: every variable of snowflake.go keeps
\* its type, the worker id and the sequence the width of their fields.
THEOREM TypeCorrect == Spec => []TypeOK
BY GenInvariant, PTL DEF GenInv

\* A remainder is the number itself below the modulus, and 0 at it.
LEMMA ModSmall == ASSUME NEW M \in Nat \ {0}, NEW m \in Nat, m < M
                  PROVE  m % M = m
OBVIOUS
LEMMA ModSelf == ASSUME NEW M \in Nat \ {0} PROVE M % M = 0
OBVIOUS

\* Unless the millisecond is exhausted, its next sequence is one more.
LEMMA NextSequenceGrows ==
  ASSUME NEW g \in Generator, nextSequence(g, g.lastTimeStamp) # 0
  PROVE  nextSequence(g, g.lastTimeStamp) = g.sequence + 1
<1>1. SequenceMask \in Nat /\ g.sequence \in 0 .. SequenceMask
  BY SnowflakeAssumption DEF SnowflakeAssumption, Generator
<1>2. nextSequence(g, g.lastTimeStamp) = (g.sequence + 1) % (SequenceMask + 1)
  BY DEF nextSequence
<1>3. CASE g.sequence = SequenceMask
  BY <1>1, <1>2, <1>3, ModSelf
<1>4. CASE g.sequence < SequenceMask
  BY <1>1, <1>2, <1>4, ModSmall
<1> QED
  BY <1>1, <1>3, <1>4

\* The ids change only when one is issued, and it is later than the last
\* millisecond of the generator, or of that millisecond with a new sequence.
LEMMA IssueCases ==
  ASSUME GenInv, [Next]_vars
  PROVE  \/ UNCHANGED issued
         \/ \E p \in Proc, c \in Caller, t \in Int, s \in Int :
               /\ Issue(p, c, t, s) /\ gen[p] \in Generator
               /\ pc[p][c] \in {"sequence", "timeReGen"}
               /\ \/ t > gen[p].lastTimeStamp
                  \/ /\ t = gen[p].lastTimeStamp /\ pc[p][c] = "sequence"
                     /\ s > gen[p].sequence
<1>1. ASSUME NEW p \in Proc, NEW c \in Caller, IssueID(p, c)
      PROVE  \E t \in Int, s \in Int :
               /\ Issue(p, c, t, s) /\ gen[p] \in Generator
               /\ pc[p][c] \in {"sequence", "timeReGen"}
               /\ \/ t > gen[p].lastTimeStamp
                  \/ /\ t = gen[p].lastTimeStamp /\ pc[p][c] = "sequence"
                     /\ s > gen[p].sequence
  <2> DEFINE s == nextSequence(gen[p], ts[p][c])
  <2>1. /\ pc[p][c] = "sequence" /\ gen[p] \in Generator /\ ts[p][c] \in Int
        /\ gen[p].lastTimeStamp \in Int /\ gen[p].sequence \in Int
    BY <1>1, HolderHasGenerator DEF GenInv, IssueID, TypeOK, Critical, Generator
  <2>2. Issue(p, c, ts[p][c], s) /\ ts[p][c] >= gen[p].lastTimeStamp
    BY <1>1 DEF IssueID
  <2>3. s \in Int
    BY <2>1, NextSequenceRange
  <2>4. ts[p][c] = gen[p].lastTimeStamp => s > gen[p].sequence
    BY <1>1, <2>1, NextSequenceGrows DEF IssueID
  <2> QED
    BY <2>1, <2>2, <2>3, <2>4
<1>2. ASSUME NEW p \in Proc, NEW c \in Caller, timeReGen(p, c)
      PROVE  \E t \in Int, s \in Int :
               /\ Issue(p, c, t, s) /\ gen[p] \in Generator
               /\ pc[p][c] \in {"sequence", "timeReGen"}
               /\ t > gen[p].lastTimeStamp
  <2>1. /\ pc[p][c] = "timeReGen" /\ gen[p] \in Generator /\ clock[p] \in Int
        /\ gen[p].sequence \in Int
    BY <1>2, HolderHasGenerator DEF GenInv, timeReGen, TypeOK, Critical, Generator
  <2>2. clock[p] > gen[p].lastTimeStamp /\ Issue(p, c, clock[p], gen[p].sequence)
    BY <1>2, <2>1 DEF GenInv, ReGenInv, timeReGen
  <2> QED
    BY <2>1, <2>2
<1>3. \/ UNCHANGED issued
      \/ \E p \in Proc, c \in Caller : IssueID(p, c) \/ timeReGen(p, c)
  BY StepCases
     DEF vars, InitIDGenerator, NextSnowflakeID, IncrResent, Lock, OnceDo,
         OnceDone, initIDGeneratorByRedis, initPanics, NotInitialized, timeGen,
         SequenceExhausted, RefuseBackwards, Tick, StepBack
<1> QED
  BY <1>1, <1>2, <1>3

\* An order that the old ids have and the new one extends holds of all.
LEMMA AppendKeepsOrder ==
  ASSUME TypeOK, NEW p \in Proc, NEW c \in Caller, NEW t \in Int, NEW s \in Int,
         Issue(p, c, t, s), NEW i \in DOMAIN issued'[p],
         NEW j \in DOMAIN issued'[p], i < j
  PROVE  /\ i \in DOMAIN issued[p] /\ issued'[p][i] = issued[p][i]
         /\ \/ j \in DOMAIN issued[p] /\ issued'[p][j] = issued[p][j]
            \/ /\ j \notin DOMAIN issued[p]
               /\ issued'[p][j] = [ts |-> t, workerID |-> gen[p].workerID,
                                    sequence |-> s]
BY IssueAppends

\* Under any clock, a step keeps the timestamps of a process in order.
LEMMA TimestampsStep ==
  GenInv /\ TimestampsNeverDecrease /\ [Next]_vars => TimestampsNeverDecrease'
<1> SUFFICES ASSUME GenInv, TimestampsNeverDecrease, [Next]_vars
             PROVE  TimestampsNeverDecrease'
  OBVIOUS
<1>1. CASE UNCHANGED issued
  BY <1>1 DEF TimestampsNeverDecrease
<1>2. ASSUME NEW p \in Proc, NEW c \in Caller, NEW t \in Int, NEW s \in Int,
             Issue(p, c, t, s), gen[p] \in Generator, t >= gen[p].lastTimeStamp
      PROVE  TimestampsNeverDecrease'
  <2>1. ASSUME NEW i \in DOMAIN issued'[p], NEW j \in DOMAIN issued'[p], i < j
        PROVE  issued'[p][i].ts <= issued'[p][j].ts
    <3>1. /\ i \in DOMAIN issued[p] /\ issued'[p][i] = issued[p][i]
          /\ \/ j \in DOMAIN issued[p] /\ issued'[p][j] = issued[p][j]
             \/ issued'[p][j] = [ts |-> t, workerID |-> gen[p].workerID,
                                  sequence |-> s]
      BY <1>2, <2>1, AppendKeepsOrder DEF GenInv
    <3>2. issued[p][i].ts \in Nat /\ issued[p][i].ts <= gen[p].lastTimeStamp
      BY <3>1, IssuedType DEF GenInv, LastInv
    <3>3. gen[p].lastTimeStamp \in Int
      BY <1>2 DEF Generator
    <3> QED
      BY <1>2, <2>1, <3>1, <3>2, <3>3 DEF TimestampsNeverDecrease
  <2>2. \A q \in Proc \ {p} : issued'[q] = issued[q]
    BY <1>2, IssueAppends DEF GenInv
  <2> QED
    BY <2>1, <2>2 DEF TimestampsNeverDecrease
<1>3. ASSUME NEW g \in Generator PROVE g.lastTimeStamp \in Int
  BY DEF Generator
<1> QED
  BY <1>1, <1>2, <1>3, IssueCases

\* Whatever the clock does, the timestamps of the ids of a process never go
\* back: the check of snowflake.go:127 under the mutex.
THEOREM TimestampsOrdered == Spec => []TimestampsNeverDecrease
<1>1. Init => TimestampsNeverDecrease
  BY DEF Init, TimestampsNeverDecrease
<1> QED
  BY <1>1, GenInvariant, TimestampsStep, PTL DEF Spec

(***************************************************************************)
(* A clock that never steps back.                                          *)
(***************************************************************************)

\* The clock is not behind the generator, nor behind a time read under the
\* mutex, and no call was refused.
ClockInv ==
    \A p \in Proc :
       /\ gen[p].lastTimeStamp <= clock[p]
       /\ \A c \in Caller :
             /\ pc[p][c] = "sequence" =>
                   gen[p].lastTimeStamp <= ts[p][c] /\ ts[p][c] <= clock[p]
             /\ result[p][c] # "backwards"

\* The ids of the generator's last millisecond have sequences up to its own,
\* unless they were exhausted and the holder spins.
SeqInv ==
    \A p \in Proc :
       (\A c \in Caller : pc[p][c] # "timeReGen") =>
          \A i \in DOMAIN issued[p] :
             issued[p][i].ts = gen[p].lastTimeStamp =>
                issued[p][i].sequence <= gen[p].sequence

\* The times and the sequence of a process are numbers.
LEMMA TimesAreIntegers ==
  ASSUME TypeOK, NEW p \in Proc
  PROVE  /\ gen[p].lastTimeStamp \in Int /\ gen[p].lastTimeStamp >= -1
         /\ gen[p].sequence \in Int /\ clock[p] \in Nat
         /\ \A c \in Caller : ts[p][c] \in Nat
BY DEF TypeOK, Generator, NoGen

\* Without steps back every step keeps ClockInv.
LEMMA ClockStep == GenInv /\ ClockInv /\ ~ClockMayStepBack /\ [Next]_vars => ClockInv'
<1> SUFFICES ASSUME GenInv, ClockInv, ~ClockMayStepBack, [Next]_vars PROVE ClockInv'
  OBVIOUS
<1> USE DEF GenInv, MutexInv, ClockInv, ReGenInv, TypeOK, Critical
<1>1. CASE UNCHANGED vars
  BY <1>1 DEF vars
<1>2. ASSUME NEW p \in Proc, NEW w \in ManualWorkerIDs, InitIDGenerator(p, w)
      PROVE  ClockInv'
  BY <1>2 DEF InitIDGenerator, newIDGenerator, NoGen
<1>3. ASSUME NEW p \in Proc, NEW c \in Caller, NextSnowflakeID(p, c) PROVE ClockInv'
  BY <1>3 DEF NextSnowflakeID, Goto
<1>4. ASSUME NEW p \in Proc, NEW c \in Caller, IncrResent(p, c) PROVE ClockInv'
  BY <1>4 DEF IncrResent
<1>5. ASSUME NEW p \in Proc, NEW c \in Caller, Lock(p, c) PROVE ClockInv'
  BY <1>5 DEF Lock, Goto
<1>6. ASSUME NEW p \in Proc, NEW c \in Caller, OnceDo(p, c) PROVE ClockInv'
  BY <1>6 DEF OnceDo, Goto
<1>7. ASSUME NEW p \in Proc, NEW c \in Caller, OnceDone(p, c) PROVE ClockInv'
  BY <1>7 DEF OnceDone, Goto
<1>8. ASSUME NEW p \in Proc, NEW c \in Caller, initIDGeneratorByRedis(p, c)
      PROVE  ClockInv'
  BY <1>8 DEF initIDGeneratorByRedis, newIDGenerator, NoGen, Goto
<1>9. ASSUME NEW p \in Proc, NEW c \in Caller, initPanics(p, c) PROVE ClockInv'
  BY <1>9 DEF initPanics, Return, Goto
<1>10. ASSUME NEW p \in Proc, NEW c \in Caller, NotInitialized(p, c) PROVE ClockInv'
  BY <1>10 DEF NotInitialized, Return, Goto
<1>11. ASSUME NEW p \in Proc, NEW c \in Caller, timeGen(p, c) PROVE ClockInv'
  BY <1>11 DEF timeGen, Goto
<1>12. ASSUME NEW p \in Proc, NEW c \in Caller, SequenceExhausted(p, c)
      PROVE  ClockInv'
  <2>1. gen'[p].lastTimeStamp = gen[p].lastTimeStamp
    BY <1>12, HolderHasGenerator DEF SequenceExhausted, Generator
  <2> QED
    BY <1>12, <2>1 DEF SequenceExhausted, Goto
<1>13. ASSUME NEW p \in Proc, NEW c \in Caller, RefuseBackwards(p, c)
      PROVE  ClockInv'
  BY <1>13, TimesAreIntegers DEF RefuseBackwards
<1>14. ASSUME NEW p \in Proc, NEW c \in Caller, IssueID(p, c) PROVE ClockInv'
  <2>1. /\ gen[p] \in Generator /\ pc[p][c] \in Critical /\ ts[p][c] <= clock[p]
        /\ gen[p].lastTimeStamp \in Int /\ ts[p][c] \in Int /\ clock[p] \in Int
    BY <1>14, HolderHasGenerator, TimesAreIntegers DEF IssueID, Generator
  <2>2. \A d \in Caller : pc[p][d] \in Critical => d = c
    BY <1>14, <2>1, HolderAlone
  <2>3. gen'[p].lastTimeStamp = ts[p][c]
    BY <1>14, <2>1 DEF IssueID, Issue, Generator
  <2> QED
    BY <1>14, <2>1, <2>2, <2>3 DEF IssueID, Issue, Unlock, Return, Goto
<1>15. ASSUME NEW p \in Proc, NEW c \in Caller, timeReGen(p, c) PROVE ClockInv'
  <2>1. /\ gen[p] \in Generator /\ pc[p][c] \in Critical /\ ts[p][c] <= clock[p]
        /\ gen[p].lastTimeStamp \in Int /\ ts[p][c] \in Int /\ clock[p] \in Int
    BY <1>15, HolderHasGenerator, TimesAreIntegers DEF timeReGen, Generator
  <2>2. \A d \in Caller : pc[p][d] \in Critical => d = c
    BY <1>15, <2>1, HolderAlone
  <2>3. gen'[p].lastTimeStamp = clock[p]
    BY <1>15, <2>1 DEF timeReGen, Issue, Generator
  <2>4. \A d \in Caller : pc'[p][d] # "sequence" /\ result'[p][d] # "backwards"
    BY <1>15, <2>2 DEF timeReGen, Issue, Return, Goto
  <2>5. /\ UNCHANGED clock
        /\ \A q \in Proc \ {p} : /\ gen'[q] = gen[q] /\ pc'[q] = pc[q]
                               /\ ts'[q] = ts[q] /\ result'[q] = result[q]
    BY <1>15 DEF timeReGen, Issue, Return, Goto
  <2> HIDE DEF GenInv, MutexInv, ReGenInv, TypeOK, Critical
  <2> QED
    BY <2>1, <2>3, <2>4, <2>5
<1>16. ASSUME NEW p \in Proc, Tick(p) PROVE ClockInv'
  BY <1>16, TimesAreIntegers DEF Tick
<1>17. ASSUME NEW p \in Proc, StepBack(p) PROVE ClockInv'
  BY <1>17 DEF StepBack
<1> QED
  BY StepCases, <1>1, <1>2, <1>3, <1>4, <1>5, <1>6, <1>7, <1>8, <1>9, <1>10,
     <1>11, <1>12, <1>13, <1>14, <1>15, <1>16, <1>17

\* Which steps touch the ids or the generator.
LEMMA QuietCases ==
  ASSUME TypeOK, [Next]_vars
  PROVE  \/ /\ UNCHANGED <<gen, issued>>
            /\ \A p \in Proc, c \in Caller :
                  pc[p][c] = "timeReGen" => pc'[p][c] = "timeReGen"
         \/ \E p \in Proc : \E w \in ManualWorkerIDs : InitIDGenerator(p, w)
         \/ \E p \in Proc, c \in Caller :
               \/ initIDGeneratorByRedis(p, c) \/ SequenceExhausted(p, c)
               \/ RefuseBackwards(p, c) \/ IssueID(p, c) \/ timeReGen(p, c)
<1> DEFINE Quiet ==
       /\ UNCHANGED <<gen, issued>>
       /\ \A p \in Proc, c \in Caller :
             pc[p][c] = "timeReGen" => pc'[p][c] = "timeReGen"
<1>1. ASSUME NEW p \in Proc, NEW c \in Caller, NEW l, Goto(p, c, l),
             pc[p][c] # "timeReGen", UNCHANGED <<gen, issued>>
      PROVE  Quiet
  BY <1>1 DEF Goto, TypeOK
<1> HIDE DEF Quiet
<1>2. ASSUME NEW p \in Proc, NEW c \in Caller,
             \/ NextSnowflakeID(p, c) \/ Lock(p, c) \/ OnceDo(p, c)
             \/ OnceDone(p, c) \/ initPanics(p, c) \/ NotInitialized(p, c)
             \/ timeGen(p, c)
      PROVE  Quiet
  BY <1>1, <1>2 DEF NextSnowflakeID, Lock, OnceDo, OnceDone, initPanics,
                    NotInitialized, timeGen, Return
<1>3. ASSUME UNCHANGED <<gen, issued, pc>> PROVE Quiet
  BY <1>3 DEF Quiet
<1>4. ASSUME NEW p \in Proc, Tick(p) \/ StepBack(p) PROVE Quiet
  BY <1>3, <1>4 DEF Tick, StepBack
<1>5. ASSUME NEW p \in Proc, NEW c \in Caller, IncrResent(p, c) PROVE Quiet
  BY <1>3, <1>5 DEF IncrResent
<1>6. UNCHANGED vars => Quiet
  BY <1>3 DEF vars
<1> QED
  BY StepCases, <1>2, <1>4, <1>5, <1>6 DEF Quiet

\* An id issued after the last one of its generator keeps SeqInv.
LEMMA IssueSeq ==
  ASSUME GenInv, SeqInv, NEW p \in Proc, NEW c \in Caller, gen[p] \in Generator,
         NEW t \in Int, NEW s \in Int, Issue(p, c, t, s),
         pc[p][c] \in {"sequence", "timeReGen"},
         \/ t > gen[p].lastTimeStamp
         \/ /\ t = gen[p].lastTimeStamp /\ pc[p][c] = "sequence"
            /\ s > gen[p].sequence
  PROVE  SeqInv'
<1>1. /\ gen'[p].lastTimeStamp = t /\ gen'[p].sequence = s
      /\ \A q \in Proc \ {p} : gen'[q] = gen[q]
  BY DEF GenInv, TypeOK, Issue, Generator
<1>2. ASSUME NEW i \in DOMAIN issued'[p], issued'[p][i].ts = t
      PROVE  issued'[p][i].sequence <= s
  <2>1. /\ DOMAIN issued[p] = 1 .. Len(issued[p]) /\ Len(issued[p]) \in Nat
        /\ DOMAIN issued'[p] = 1 .. Len(issued[p]) + 1
    BY IssueAppends DEF GenInv
  <2>2. CASE i = Len(issued[p]) + 1
    <3>1. issued'[p][i] = [ts |-> t, workerID |-> gen[p].workerID, sequence |-> s]
      BY <2>2, IssueAppends DEF GenInv
    <3> QED
      BY <3>1
  <2>3. CASE i \in DOMAIN issued[p]
    <3>1. /\ issued'[p][i] = issued[p][i] /\ issued[p][i].ts \in Nat
          /\ issued[p][i].sequence \in Int /\ issued[p][i].ts <= gen[p].lastTimeStamp
      <4>1. issued'[p][i] = issued[p][i]
        BY <2>3, IssueAppends DEF GenInv
      <4>2. issued[p][i].ts \in Nat /\ issued[p][i].sequence \in 0 .. SequenceMask
        BY <2>3, IssuedType DEF GenInv
      <4> QED
        BY <2>3, <4>1, <4>2 DEF GenInv, LastInv
    <3>2. gen[p].lastTimeStamp \in Int /\ gen[p].sequence \in Int
      BY DEF Generator
    <3>3. t = gen[p].lastTimeStamp /\ pc[p][c] = "sequence" /\ s > gen[p].sequence
      BY <1>2, <3>1, <3>2
    <3>4. \A d \in Caller : pc[p][d] # "timeReGen"
      BY <3>3, HolderAlone DEF GenInv, Critical
    <3>5. issued[p][i].sequence <= gen[p].sequence
      BY <1>2, <2>3, <3>1, <3>3, <3>4 DEF SeqInv
    <3> QED
      BY <3>1, <3>2, <3>3, <3>5
  <2> QED
    <3>1. i \in DOMAIN issued[p] \/ i = Len(issued[p]) + 1
      BY <2>1
    <3> QED
      BY <2>2, <2>3, <3>1
<1>3. \A q \in Proc \ {p} : issued'[q] = issued[q] /\ pc'[q] = pc[q]
  BY IssueAppends DEF GenInv, TypeOK, Issue, Return, Goto
<1> QED
  BY <1>1, <1>2, <1>3 DEF SeqInv

\* Without steps back every step keeps SeqInv.
LEMMA SeqStep == GenInv /\ ClockInv /\ SeqInv /\ [Next]_vars => SeqInv'
<1> SUFFICES ASSUME GenInv, ClockInv, SeqInv, [Next]_vars PROVE SeqInv'
  OBVIOUS
<1>1. CASE /\ UNCHANGED <<gen, issued>>
           /\ \A p \in Proc, c \in Caller :
                 pc[p][c] = "timeReGen" => pc'[p][c] = "timeReGen"
  BY <1>1 DEF SeqInv
<1>2. ASSUME NEW p \in Proc, gen[p] = NoGen, UNCHANGED issued,
             \A q \in Proc \ {p} : gen'[q] = gen[q],
             \A q \in Proc, c \in Caller :
                 pc[q][c] = "timeReGen" => pc'[q][c] = "timeReGen"
      PROVE  SeqInv'
  BY <1>2, NoGeneratorNoIDs DEF SeqInv, GenInv
<1>3. ASSUME NEW p \in Proc, NEW w \in ManualWorkerIDs, InitIDGenerator(p, w)
      PROVE  SeqInv'
  BY <1>2, <1>3 DEF InitIDGenerator, GenInv, OnceInv, TypeOK
<1>4. ASSUME NEW p \in Proc, NEW c \in Caller, initIDGeneratorByRedis(p, c)
      PROVE  SeqInv'
  <2>1. gen[p] = NoGen
    BY <1>4 DEF initIDGeneratorByRedis, GenInv, OnceInv, TypeOK
  <2> QED
    BY <1>2, <1>4, <2>1 DEF initIDGeneratorByRedis, Goto, GenInv, TypeOK
<1>5. ASSUME NEW p \in Proc, NEW c \in Caller, SequenceExhausted(p, c)
      PROVE  SeqInv'
  <2>1. UNCHANGED issued /\ \A q \in Proc \ {p} : gen'[q] = gen[q] /\ pc'[q] = pc[q]
    BY <1>5 DEF SequenceExhausted, Goto, GenInv, TypeOK
  <2>2. pc'[p][c] = "timeReGen"
    BY <1>5 DEF SequenceExhausted, Goto, GenInv, TypeOK
  <2> QED
    BY <2>1, <2>2 DEF SeqInv
<1>6. ASSUME NEW p \in Proc, NEW c \in Caller, RefuseBackwards(p, c)
      PROVE  SeqInv'
  BY <1>6, TimesAreIntegers DEF RefuseBackwards, ClockInv, GenInv
<1>7. CASE \E p \in Proc, c \in Caller : IssueID(p, c) \/ timeReGen(p, c)
  <2>1. ~ UNCHANGED issued
    <3>1. ASSUME NEW p \in Proc, NEW c \in Caller, NEW t, NEW s, Issue(p, c, t, s)
          PROVE  issued' # issued
      <4>1. /\ DOMAIN issued[p] = 1 .. Len(issued[p]) /\ Len(issued[p]) \in Nat
            /\ DOMAIN issued'[p] = 1 .. Len(issued[p]) + 1
        BY <3>1, IssueAppends DEF GenInv
      <4>2. Len(issued[p]) + 1 \in DOMAIN issued'[p] \ DOMAIN issued[p]
        BY <4>1
      <4> QED
        BY <4>2
    <3> QED
      BY <1>7, <3>1 DEF IssueID, timeReGen
  <2> QED
    BY <2>1, IssueCases, IssueSeq
<1> QED
  BY <1>1, <1>3, <1>4, <1>5, <1>6, <1>7, QuietCases DEF GenInv

\* Without steps back the ids of a process grow.
LEMMA IncreasingStep ==
  GenInv /\ SeqInv /\ IncreasingIDs /\ [Next]_vars => IncreasingIDs'
<1> SUFFICES ASSUME GenInv, SeqInv, IncreasingIDs, [Next]_vars
             PROVE  IncreasingIDs'
  OBVIOUS
<1>1. CASE UNCHANGED issued
  BY <1>1 DEF IncreasingIDs, Below
<1>2. ASSUME NEW p \in Proc, NEW c \in Caller, NEW t \in Int, NEW s \in Int,
             Issue(p, c, t, s), gen[p] \in Generator,
             pc[p][c] \in {"sequence", "timeReGen"},
             \/ t > gen[p].lastTimeStamp
             \/ /\ t = gen[p].lastTimeStamp /\ pc[p][c] = "sequence"
                /\ s > gen[p].sequence
      PROVE  IncreasingIDs'
  <2>1. gen[p].lastTimeStamp \in Int /\ gen[p].sequence \in Int
    BY <1>2 DEF Generator
  <2>2. ASSUME NEW i \in DOMAIN issued[p]
        PROVE  \/ issued[p][i].ts < t
               \/ issued[p][i].ts = t /\ issued[p][i].sequence < s
    <3>1. /\ issued[p][i].ts \in Nat /\ issued[p][i].ts <= gen[p].lastTimeStamp
          /\ issued[p][i].sequence \in Int
      BY <2>2, IssuedType DEF GenInv, LastInv
    <3>2. CASE issued[p][i].ts = t
      <4>1. t = gen[p].lastTimeStamp /\ pc[p][c] = "sequence" /\ s > gen[p].sequence
        BY <1>2, <2>1, <3>1, <3>2
      <4>2. \A d \in Caller : pc[p][d] # "timeReGen"
        BY <4>1, HolderAlone DEF GenInv, Critical
      <4>3. issued[p][i].sequence <= gen[p].sequence
        BY <2>2, <3>2, <4>1, <4>2 DEF SeqInv
      <4> QED
        BY <2>1, <3>1, <3>2, <4>1, <4>3
    <3> QED
      BY <1>2, <2>1, <3>1, <3>2
  <2>3. ASSUME NEW i \in DOMAIN issued'[p], NEW j \in DOMAIN issued'[p], i < j
        PROVE  Below(issued'[p][i], issued'[p][j])
    <3>1. /\ i \in DOMAIN issued[p] /\ issued'[p][i] = issued[p][i]
          /\ \/ j \in DOMAIN issued[p] /\ issued'[p][j] = issued[p][j]
             \/ issued'[p][j] = [ts |-> t, workerID |-> gen[p].workerID,
                                  sequence |-> s]
      BY <1>2, <2>3, AppendKeepsOrder DEF GenInv
    <3>2. CASE j \in DOMAIN issued[p] /\ issued'[p][j] = issued[p][j]
      BY <2>3, <3>1, <3>2 DEF IncreasingIDs
    <3>3. CASE issued'[p][j] = [ts |-> t, workerID |-> gen[p].workerID,
                                sequence |-> s]
      BY <2>2, <3>1, <3>3 DEF Below
    <3> QED
      BY <3>1, <3>2, <3>3
  <2>4. \A q \in Proc \ {p} : issued'[q] = issued[q]
    BY <1>2, IssueAppends DEF GenInv
  <2> QED
    BY <2>3, <2>4 DEF IncreasingIDs, Below
<1> QED
  BY <1>1, <1>2, IssueCases

\* The inductive invariant under a clock that does not step back.
ClockwiseInv == GenInv /\ ClockInv /\ SeqInv /\ IncreasingIDs

\* It is one.
LEMMA ClockwiseInvariant ==
  ASSUME ~ClockMayStepBack PROVE Spec => []ClockwiseInv
<1>1. Init => ClockwiseInv
  <2>1. Init => ClockInv
    <3> SUFFICES ASSUME Init PROVE ClockInv
      OBVIOUS
    <3>1. \A p \in Proc : gen[p].lastTimeStamp = -1 /\ clock[p] = 0
      BY DEF Init, NoGen
    <3>2. \A p \in Proc, c \in Caller : pc[p][c] = "idle" /\ result[p][c] = "none"
      BY DEF Init
    <3>3. ASSUME NEW p \in Proc PROVE gen[p].lastTimeStamp <= clock[p]
      <4>1. -1 <= 0
        OBVIOUS
      <4> QED
        BY <3>1, <4>1
    <3>4. \A p \in Proc, c \in Caller :
             pc[p][c] # "sequence" /\ result[p][c] # "backwards"
      BY <3>2
    <3> QED
      BY <3>3, <3>4 DEF ClockInv
  <2>2. Init => SeqInv /\ IncreasingIDs
    BY DEF Init, SeqInv, IncreasingIDs
  <2> QED
    BY <2>1, <2>2, GenInit DEF ClockwiseInv
<1>2. ClockwiseInv /\ [Next]_vars => ClockwiseInv'
  BY GenStep, ClockStep, SeqStep, IncreasingStep DEF ClockwiseInv
<1> QED
  BY <1>1, <1>2, PTL DEF Spec

\* While the clock does not step back, the ids of a process grow, whichever
\* of its goroutines take the mutex first (nextSnowflakeID).
THEOREM IDsIncrease ==
  ASSUME ~ClockMayStepBack PROVE Spec => []IncreasingIDs
BY ClockwiseInvariant, PTL DEF ClockwiseInv

\* While the clock does not step back, no call is refused because it "moved
\* backwards" (snowflake.go:127-130).
THEOREM ClockNeverBlamed ==
  ASSUME ~ClockMayStepBack PROVE Spec => []NeverRefused
<1>1. ClockwiseInv => NeverRefused
  BY DEF ClockwiseInv, ClockInv, NeverRefused
<1> QED
  BY <1>1, ClockwiseInvariant, PTL

(***************************************************************************)
(* Worker ids from the Redis counter.                                      *)
(***************************************************************************)

\* Until the counter has gone through the worker ids once, every generator
\* has one of those handed out, and no two have the same.
WorkerInv ==
    nextWorkerID <= MaxWorkerID =>
       /\ \A p \in Proc : gen[p] # NoGen =>
             \E n \in 1 .. nextWorkerID : gen[p].workerID = n % MaxWorkerID
       /\ \A p, q \in Proc : p # q /\ gen[p] # NoGen /\ gen[q] # NoGen =>
             gen[p].workerID # gen[q].workerID

\* The next number of the counter gives a worker id of its own.
LEMMA FreshWorker ==
  ASSUME NEW n \in Nat, n + 1 <= MaxWorkerID, NEW m \in 1 .. n
  PROVE  (n + 1) % MaxWorkerID # m % MaxWorkerID
<1>1. MaxWorkerID \in Nat \ {0} /\ n + 1 \in Nat \ {0} /\ m < MaxWorkerID
  BY SnowflakeAssumption DEF SnowflakeAssumption
<1>2. m % MaxWorkerID = m
  BY <1>1, ModSmall
<1>3. CASE n + 1 = MaxWorkerID
  BY <1>1, <1>2, <1>3, ModSelf
<1>4. CASE n + 1 < MaxWorkerID
  BY <1>1, <1>2, <1>4, ModSmall
<1> QED
  BY <1>1, <1>3, <1>4

\* Issuing ids and exhausting a sequence leave the worker id alone.
LEMMA WorkerKept ==
  ASSUME GenInv, ManualWorkerIDs = {}, [Next]_vars
  PROVE  \/ \E p \in Proc, c \in Caller : initIDGeneratorByRedis(p, c)
         \/ /\ nextWorkerID' = nextWorkerID \/ nextWorkerID' = nextWorkerID + 1
            /\ \A p \in Proc : /\ gen'[p].workerID = gen[p].workerID
                               /\ gen'[p] # NoGen => gen[p] # NoGen
<1> DEFINE Kept == /\ nextWorkerID' = nextWorkerID \/ nextWorkerID' = nextWorkerID + 1
                   /\ \A p \in Proc : /\ gen'[p].workerID = gen[p].workerID
                                      /\ gen'[p] # NoGen => gen[p] # NoGen
<1>1. ASSUME UNCHANGED gen, nextWorkerID' = nextWorkerID \/ nextWorkerID' = nextWorkerID + 1
      PROVE  Kept
  BY <1>1
<1>2. ASSUME NEW p \in Proc, NEW c \in Caller, pc[p][c] \in Critical,
             UNCHANGED nextWorkerID, \A q \in Proc \ {p} : gen'[q] = gen[q],
             gen'[p].workerID = gen[p].workerID
      PROVE  Kept
  <2>1. gen[p] # NoGen
    BY <1>2, HolderHasGenerator DEF GenInv
  <2> QED
    BY <1>2, <2>1
<1> HIDE DEF Kept
<1>3. ASSUME NEW p \in Proc, NEW c \in Caller, SequenceExhausted(p, c)
      PROVE  Kept
  <2>1. pc[p][c] \in Critical /\ gen[p] \in Generator
    BY <1>3, HolderHasGenerator DEF SequenceExhausted, GenInv, Critical
  <2> QED
    BY <1>2, <1>3, <2>1 DEF SequenceExhausted, Generator, GenInv, TypeOK
<1>4. ASSUME NEW p \in Proc, NEW c \in Caller, RefuseBackwards(p, c)
      PROVE  Kept
  <2>1. pc[p][c] \in Critical /\ gen[p] \in Generator
    BY <1>4, HolderHasGenerator DEF RefuseBackwards, GenInv, Critical
  <2> QED
    BY <1>2, <1>4, <2>1 DEF RefuseBackwards, Generator, GenInv, TypeOK
<1>5. ASSUME NEW p \in Proc, NEW c \in Caller, IssueID(p, c)
      PROVE  Kept
  <2>1. pc[p][c] \in Critical /\ gen[p] \in Generator
    BY <1>5, HolderHasGenerator DEF IssueID, GenInv, Critical
  <2> QED
    BY <1>2, <1>5, <2>1 DEF IssueID, Issue, Generator, GenInv, TypeOK
<1>6. ASSUME NEW p \in Proc, NEW c \in Caller, timeReGen(p, c)
      PROVE  Kept
  <2>1. pc[p][c] \in Critical /\ gen[p] \in Generator
    BY <1>6, HolderHasGenerator DEF timeReGen, GenInv, Critical
  <2> QED
    BY <1>2, <1>6, <2>1 DEF timeReGen, Issue, Generator, GenInv, TypeOK
<1>7. CASE UNCHANGED <<gen, nextWorkerID>>
  BY <1>1, <1>7
<1>8. ASSUME NEW p \in Proc, NEW c \in Caller, IncrResent(p, c)
      PROVE  Kept
  BY <1>1, <1>8 DEF IncrResent
<1>9. \/ \E p \in Proc, c \in Caller :
            \/ initIDGeneratorByRedis(p, c) \/ SequenceExhausted(p, c)
            \/ RefuseBackwards(p, c) \/ IssueID(p, c) \/ timeReGen(p, c)
            \/ IncrResent(p, c)
      \/ UNCHANGED <<gen, nextWorkerID>>
  BY StepCases
     DEF vars, InitIDGenerator, NextSnowflakeID, Lock, OnceDo, OnceDone,
         initPanics, NotInitialized, timeGen, Tick, StepBack
<1> QED
  BY <1>3, <1>4, <1>5, <1>6, <1>7, <1>8, <1>9 DEF Kept

\* Every step keeps WorkerInv.
LEMMA WorkerStep ==
  ASSUME ManualWorkerIDs = {}
  PROVE  GenInv /\ WorkerInv /\ [Next]_vars => WorkerInv'
<1> SUFFICES ASSUME GenInv, WorkerInv, [Next]_vars, (nextWorkerID <= MaxWorkerID)'
             PROVE  WorkerInv'
  BY DEF WorkerInv
<1>1. MaxWorkerID \in Nat /\ nextWorkerID \in Nat
  BY SnowflakeAssumption DEF SnowflakeAssumption, GenInv, TypeOK
<1>2. CASE /\ nextWorkerID' = nextWorkerID \/ nextWorkerID' = nextWorkerID + 1
           /\ \A p \in Proc : /\ gen'[p].workerID = gen[p].workerID
                              /\ gen'[p] # NoGen => gen[p] # NoGen
  BY <1>1, <1>2 DEF WorkerInv
<1>3. ASSUME NEW p \in Proc, NEW c \in Caller, initIDGeneratorByRedis(p, c)
      PROVE  WorkerInv'
  <2>1. /\ nextWorkerID' = nextWorkerID + 1 /\ nextWorkerID < MaxWorkerID
        /\ \A q \in Proc \ {p} : gen'[q] = gen[q]
        /\ gen'[p].workerID = (nextWorkerID + 1) % MaxWorkerID
    BY <1>1, <1>3 DEF initIDGeneratorByRedis, newIDGenerator, GenInv, TypeOK
  <2>2. ASSUME NEW q \in Proc \ {p}, gen[q] # NoGen
        PROVE  /\ gen'[q].workerID # gen'[p].workerID
               /\ \E n \in 1 .. nextWorkerID' : gen'[q].workerID = n % MaxWorkerID
    <3>1. PICK n \in 1 .. nextWorkerID : gen[q].workerID = n % MaxWorkerID
      BY <1>1, <2>1, <2>2 DEF WorkerInv
    <3>2. (nextWorkerID + 1) % MaxWorkerID # n % MaxWorkerID
      BY <1>1, <2>1, FreshWorker
    <3> QED
      BY <1>1, <2>1, <3>1, <3>2
  <2>3. \E n \in 1 .. nextWorkerID' : gen'[p].workerID = n % MaxWorkerID
    BY <1>1, <2>1
  <2>4. ASSUME NEW q \in Proc \ {p}, NEW r \in Proc \ {p}, q # r,
               gen[q] # NoGen, gen[r] # NoGen
        PROVE  gen'[q].workerID # gen'[r].workerID
    BY <1>1, <2>1, <2>4 DEF WorkerInv
  <2> QED
    BY <2>1, <2>2, <2>3, <2>4 DEF WorkerInv
<1> QED
  BY <1>2, <1>3, WorkerKept

\* Two processes whose generators have different workers share no id, and the
\* ids of one process are distinct because they grow.
LEMMA UniqueFromInv == ClockwiseInv /\ WorkerInv => UniqueIDs
<1> SUFFICES ASSUME ClockwiseInv, WorkerInv, nextWorkerID <= MaxWorkerID,
                    NEW p \in Proc, NEW q \in Proc,
                    NEW i \in DOMAIN issued[p], NEW j \in DOMAIN issued[q],
                    issued[p][i] = issued[q][j]
             PROVE  p = q /\ i = j
  BY DEF UniqueIDs
<1>1. gen[p] # NoGen /\ gen[q] # NoGen
  BY NoGeneratorNoIDs DEF ClockwiseInv, GenInv
<1>2. gen[p].workerID = gen[q].workerID
  BY DEF ClockwiseInv, GenInv, LastInv
<1>3. p = q
  BY <1>1, <1>2 DEF WorkerInv
<1>4. /\ i \in Int /\ j \in Int /\ issued[p][i].ts \in Int
      /\ issued[p][i].sequence \in Int
  <2>1. issued[p] \in Seq(ID) /\ issued[q] \in Seq(ID)
    BY DEF ClockwiseInv, GenInv, TypeOK
  <2> QED
    BY <2>1, IssuedType DEF ClockwiseInv, GenInv
<1>5. ~(i < j) /\ ~(j < i)
  BY <1>3, <1>4 DEF ClockwiseInv, IncreasingIDs, Below
<1> QED
  BY <1>3, <1>4, <1>5

\* The promise of snowflake.go:1, with the two conditions it needs: the clock
\* does not step back and the counter has not gone past the worker ids.  Then
\* no id is returned twice, by any goroutines of any processes.
THEOREM IDsUnique ==
  ASSUME ~ClockMayStepBack, ManualWorkerIDs = {} PROVE Spec => []UniqueIDs
<1>1. Init => WorkerInv
  BY DEF Init, WorkerInv
<1>2. Spec => []WorkerInv
  BY <1>1, WorkerStep, GenInvariant, PTL DEF Spec
<1> QED
  BY <1>2, ClockwiseInvariant, UniqueFromInv, PTL
=============================================================================
