----------------------------- MODULE KafkaProofs -----------------------------
(***************************************************************************)
(* Proofs about KafkaConsumer, for any number of processes, messages and   *)
(* faults: nothing is committed that was not handled, Setup never closes a *)
(* channel twice, and a closed consumer is quiet.                          *)
(***************************************************************************)
EXTENDS KafkaConsumer, TLAPS

\* Initially every variable has its type.
LEMMA TypeInit == Init => TypeOK
<1> SUFFICES ASSUME Init PROVE TypeOK
  OBVIOUS
<1> USE KafkaAssumption DEF KafkaAssumption, Init, None, Offset
<1>1. log \in Offset /\ committed \in -1..log /\ base \in Offset /\ -1 \in -1..log /\ -1 \in -1..(log - 1)
  OBVIOUS
<1>2. position \in [Process -> -1..log] /\ marked \in [Process -> -1..log]
      /\ handling \in [Process -> -1..(log - 1)]
  BY <1>1
<1>3. faults \in 0..MaxFaults /\ starts \in 0..MaxStarts
  OBVIOUS
<1> QED
  BY <1>1, <1>2, <1>3 DEF TypeOK

\* Every step keeps the types.
LEMMA TypeStep == TypeOK /\ [Next]_vars => TypeOK'
<1> SUFFICES ASSUME TypeOK, [Next]_vars PROVE TypeOK'
  OBVIOUS
<1> USE KafkaAssumption DEF KafkaAssumption, None, Offset, MainGoes, LoopGoes, consumerVars, claimVars, groupVars, history, Alive, Uncommitted, TypeOK
<1>1. CASE SendKafkaMessage
  BY <1>1 DEF SendKafkaMessage
<1>2. CASE Rebalance
  <2>1. faults' \in 0..MaxFaults
    BY <1>2 DEF Rebalance, Fault
  <2>2. loop' \in [Process -> {"none", "joins", "setup", "session", "release",
                             "consumed", "ended", "dead"}]
    BY <1>2 DEF Rebalance
  <2> QED
    BY <1>2, <2>1, <2>2 DEF Rebalance
<1>3. ASSUME NEW p \in Process, StartKafkaConsumer(p) PROVE TypeOK'
  BY <1>3 DEF StartKafkaConsumer, Consume
<1>4. ASSUME NEW p \in Process, AwaitSetup(p) PROVE TypeOK'
  BY <1>4 DEF AwaitSetup
<1>5. ASSUME NEW p \in Process, ConsumeReturned(p) PROVE TypeOK'
  <2>1. CASE cancelled[p]
    BY <1>5, <2>1 DEF ConsumeReturned
  <2>2. CASE ~cancelled[p]
    <3>1. main' \in [Process -> {"none", "reads", "waits", "stuck", "added",
                               "closing", "closed", "panicked", "dead"}]
      BY <1>5, <2>2 DEF ConsumeReturned
    <3>2. loop' \in [Process -> {"none", "joins", "setup", "session", "release",
                               "consumed", "ended", "dead"}]
      BY <1>5, <2>2 DEF ConsumeReturned, Consume
    <3>3. /\ setupReady' = [setupReady EXCEPT ![p] = FALSE]
          /\ joining' = joining \cup {p} /\ rebalancing' = TRUE
      BY <1>5, <2>2 DEF ConsumeReturned, Consume
    <3>4. setupReady' \in [Process -> BOOLEAN] /\ joining' \subseteq Process
          /\ rebalancing' \in BOOLEAN
      BY <3>3
    <3>5. UNCHANGED <<cancelled, claimVars, log, committed, members, current, owner,
                      faults, starts, history>>
      BY <1>5 DEF ConsumeReturned
    <3> QED
      BY <3>1, <3>2, <3>4, <3>5
  <2> QED
    BY <2>1, <2>2
<1>6. ASSUME NEW p \in Process, Setup(p) PROVE TypeOK'
  <2>1. position' \in [Process -> -1..log] /\ base' \in Offset
    <3>1. log \in -1..log /\ committed \in -1..log /\ (committed = -1 \/ committed \in Offset)
      OBVIOUS
    <3> QED
      BY <1>6, <3>1 DEF Setup
  <2>2. main' \in [Process -> {"none", "reads", "waits", "stuck", "added",
                             "closing", "closed", "panicked", "dead"}]
    BY <1>6 DEF Setup
  <2>3. loop' \in [Process -> {"none", "joins", "setup", "session", "release",
                             "consumed", "ended", "dead"}]
    BY <1>6 DEF Setup
  <2> QED
    BY <1>6, <2>1, <2>2, <2>3 DEF Setup
<1>7. ASSUME NEW p \in Process, SessionEnds(p) PROVE TypeOK'
  BY <1>7 DEF SessionEnds
<1>8. ASSUME NEW p \in Process, Release(p) PROVE TypeOK'
  BY <1>8 DEF Release, Fault
<1>9. ASSUME NEW p \in Process, ConsumeFails(p) PROVE TypeOK'
  BY <1>9 DEF ConsumeFails, Fault
<1>10. ASSUME NEW p \in Process, Receive(p) PROVE TypeOK'
  BY <1>10 DEF Receive
<1>11. ASSUME NEW p \in Process, consumeWithRecover(p) PROVE TypeOK'
  <2>1. handling[p] \in 0..(log - 1)
    BY <1>11 DEF consumeWithRecover
  <2> QED
    BY <1>11, <2>1 DEF consumeWithRecover
<1>12. ASSUME NEW p \in Process, MarkMessage(p) PROVE TypeOK'
  <2>1. handling[p] + 1 \in -1..log /\ -1 \in -1..(log - 1)
    <3>1. handling[p] \in -1..(log - 1)
      BY <1>12
    <3> QED
      BY <3>1
  <2>2. marked' \in [Process -> -1..log]
    BY <1>12, <2>1 DEF MarkMessage, MarkOffset
  <2>3. handling' \in [Process -> -1..(log - 1)]
    BY <1>12, <2>1 DEF MarkMessage
  <2> QED
    BY <1>12, <2>2, <2>3 DEF MarkMessage
<1>13. ASSUME NEW p \in Process, AutoCommit(p) PROVE TypeOK'
  BY <1>13 DEF AutoCommit
<1>14. ASSUME NEW p \in Process, MemberLost(p) PROVE TypeOK'
  BY <1>14 DEF MemberLost, Fault
<1>15. ASSUME NEW p \in Process, Crash(p) PROVE TypeOK'
  BY <1>15 DEF Crash, Dies, Fault
<1>16. ASSUME NEW p \in Process, Exit(p) PROVE TypeOK'
  BY <1>16 DEF Exit, Dies
<1>17. ASSUME NEW p \in Process, Close(p) PROVE TypeOK'
  BY <1>17 DEF Close
<1>18. ASSUME NEW p \in Process, Closed(p) PROVE TypeOK'
  BY <1>18 DEF Closed, Waited
<1>19. CASE UNCHANGED vars
  BY <1>19 DEF vars, history
<1> QED
  BY <1>1, <1>2, <1>3, <1>4, <1>5, <1>6, <1>7, <1>8, <1>9, <1>10,
     <1>11, <1>12, <1>13, <1>14, <1>15, <1>16, <1>17, <1>18, <1>19 DEF Next, Loop, Claim

\* Every variable has its type, in every reachable state.
THEOREM TypeCorrect == Spec => []TypeOK
BY TypeInit, TypeStep, PTL DEF Spec

\* Where a goroutine is tells what it has: outside of a session it has no claim and no
\* message, and before one the channel that Setup closes is open.
LoopInv ==
    /\ \A p \in Process :
        /\ loop[p] \notin {"session", "release"} =>
             position[p] = None /\ handling[p] = None /\ marked[p] = None
        /\ marked[p] # None => position[p] # None
        /\ handling[p] # None => position[p] # None
        /\ loop[p] \in {"none", "dead", "joins", "setup"} => ~setupReady[p]
        /\ main[p] \in {"none", "dead"} => loop[p] \in {"none", "dead"}
        /\ main[p] = "closed" => loop[p] = "ended"
        /\ main[p] # "panicked"
    /\ \A p \in joining : loop[p] \in {"joins", "dead"}

\* Only the owner of the partition has a claim in the present generation.  What lies
\* before its position was handled, but for the message it handles now, and what
\* lies before its mark was.
ClaimInv ==
    /\ \A m \in base..(committed - 1) : m \in handled
    /\ \A p \in Process : handling[p] # None =>
         position[p] = handling[p] + 1 /\ (done[p] => handling[p] \in handled)
    /\ \A p \in current : position[p] # None =>
         /\ owner = p
         /\ \A m \in base..(position[p] - 1) : m \in handled \/ m = handling[p]
         /\ \A m \in base..(marked[p] - 1) : m \in handled

\* Initially there is no consumer.
LEMMA LoopInit == Init => LoopInv
BY DEF Init, LoopInv

\* Every step keeps LoopInv.
LEMMA LoopStep == TypeOK /\ LoopInv /\ [Next]_vars => LoopInv'
<1> SUFFICES ASSUME TypeOK, LoopInv, [Next]_vars PROVE LoopInv'
  OBVIOUS
<1> USE KafkaAssumption DEF KafkaAssumption, None, Offset, MainGoes, LoopGoes, consumerVars, claimVars, groupVars, history, Alive, Uncommitted, TypeOK, LoopInv
<1>1. CASE SendKafkaMessage
  BY <1>1 DEF SendKafkaMessage
<1>2. CASE Rebalance
  BY <1>2 DEF Rebalance, Fault
<1>3. ASSUME NEW p \in Process, StartKafkaConsumer(p) PROVE LoopInv'
  BY <1>3 DEF StartKafkaConsumer, Consume
<1>4. ASSUME NEW p \in Process, AwaitSetup(p) PROVE LoopInv'
  BY <1>4 DEF AwaitSetup
<1>5. ASSUME NEW p \in Process, ConsumeReturned(p) PROVE LoopInv'
  BY <1>5 DEF ConsumeReturned, Consume
<1>6. ASSUME NEW p \in Process, Setup(p) PROVE LoopInv'
  BY <1>6 DEF Setup
<1>7. ASSUME NEW p \in Process, SessionEnds(p) PROVE LoopInv'
  BY <1>7 DEF SessionEnds
<1>8. ASSUME NEW p \in Process, Release(p) PROVE LoopInv'
  BY <1>8 DEF Release, Fault
<1>9. ASSUME NEW p \in Process, ConsumeFails(p) PROVE LoopInv'
  BY <1>9 DEF ConsumeFails, Fault
<1>10. ASSUME NEW p \in Process, Receive(p) PROVE LoopInv'
  BY <1>10 DEF Receive
<1>11. ASSUME NEW p \in Process, consumeWithRecover(p) PROVE LoopInv'
  BY <1>11 DEF consumeWithRecover
<1>12. ASSUME NEW p \in Process, MarkMessage(p) PROVE LoopInv'
  BY <1>12 DEF MarkMessage, MayMark, MarkOffset
<1>13. ASSUME NEW p \in Process, AutoCommit(p) PROVE LoopInv'
  BY <1>13 DEF AutoCommit
<1>14. ASSUME NEW p \in Process, MemberLost(p) PROVE LoopInv'
  BY <1>14 DEF MemberLost, Fault
<1>15. ASSUME NEW p \in Process, Crash(p) PROVE LoopInv'
  BY <1>15 DEF Crash, Dies, Fault
<1>16. ASSUME NEW p \in Process, Exit(p) PROVE LoopInv'
  BY <1>16 DEF Exit, Dies
<1>17. ASSUME NEW p \in Process, Close(p) PROVE LoopInv'
  BY <1>17 DEF Close
<1>18. ASSUME NEW p \in Process, Closed(p) PROVE LoopInv'
  BY <1>18 DEF Closed, Waited
<1>19. CASE UNCHANGED vars
  BY <1>19 DEF vars, history
<1> QED
  BY <1>1, <1>2, <1>3, <1>4, <1>5, <1>6, <1>7, <1>8, <1>9, <1>10,
     <1>11, <1>12, <1>13, <1>14, <1>15, <1>16, <1>17, <1>18, <1>19 DEF Next, Loop, Claim

\* Initially nothing is committed.
LEMMA ClaimInit == Init => ClaimInv
BY DEF Init, ClaimInv, None

\* Every step keeps ClaimInv.
LEMMA ClaimStep == TypeOK /\ LoopInv /\ ClaimInv /\ [Next]_vars => ClaimInv'
<1> SUFFICES ASSUME TypeOK, LoopInv, ClaimInv, [Next]_vars PROVE ClaimInv'
  OBVIOUS
<1> USE KafkaAssumption DEF KafkaAssumption, None, Offset, MainGoes, LoopGoes, consumerVars, claimVars, groupVars, history, Alive, Uncommitted, TypeOK, LoopInv, ClaimInv, Accepts, Waited, MayMark, MarkOffset
<1>1. CASE SendKafkaMessage
  BY <1>1 DEF SendKafkaMessage
<1>2. CASE Rebalance
  BY <1>2 DEF Rebalance, Fault
<1>3. ASSUME NEW p \in Process, StartKafkaConsumer(p) PROVE ClaimInv'
  BY <1>3 DEF StartKafkaConsumer, Consume
<1>4. ASSUME NEW p \in Process, AwaitSetup(p) PROVE ClaimInv'
  BY <1>4 DEF AwaitSetup
<1>5. ASSUME NEW p \in Process, ConsumeReturned(p) PROVE ClaimInv'
  BY <1>5 DEF ConsumeReturned, Consume
<1>6. ASSUME NEW p \in Process, Setup(p) PROVE ClaimInv'
  BY <1>6 DEF Setup
<1>7. ASSUME NEW p \in Process, SessionEnds(p) PROVE ClaimInv'
  BY <1>7 DEF SessionEnds
<1>8. ASSUME NEW p \in Process, Release(p) PROVE ClaimInv'
  BY <1>8 DEF Release, Fault
<1>9. ASSUME NEW p \in Process, ConsumeFails(p) PROVE ClaimInv'
  BY <1>9 DEF ConsumeFails, Fault
<1>10. ASSUME NEW p \in Process, Receive(p) PROVE ClaimInv'
  BY <1>10 DEF Receive
<1>11. ASSUME NEW p \in Process, consumeWithRecover(p) PROVE ClaimInv'
  BY <1>11 DEF consumeWithRecover
<1>12. ASSUME NEW p \in Process, MarkMessage(p) PROVE ClaimInv'
  BY <1>12 DEF MarkMessage, MayMark, MarkOffset
<1>13. ASSUME NEW p \in Process, AutoCommit(p) PROVE ClaimInv'
  BY <1>13 DEF AutoCommit
<1>14. ASSUME NEW p \in Process, MemberLost(p) PROVE ClaimInv'
  BY <1>14 DEF MemberLost, Fault
<1>15. ASSUME NEW p \in Process, Crash(p) PROVE ClaimInv'
  BY <1>15 DEF Crash, Dies, Fault
<1>16. ASSUME NEW p \in Process, Exit(p) PROVE ClaimInv'
  BY <1>16 DEF Exit, Dies
<1>17. ASSUME NEW p \in Process, Close(p) PROVE ClaimInv'
  BY <1>17 DEF Close
<1>18. ASSUME NEW p \in Process, Closed(p) PROVE ClaimInv'
  BY <1>18 DEF Closed, Waited
<1>19. CASE UNCHANGED vars
  BY <1>19 DEF vars, history
<1> QED
  BY <1>1, <1>2, <1>3, <1>4, <1>5, <1>6, <1>7, <1>8, <1>9, <1>10,
     <1>11, <1>12, <1>13, <1>14, <1>15, <1>16, <1>17, <1>18, <1>19 DEF Next, Loop, Claim

\* The inductive invariant.
LEMMA KafkaInvariant == Spec => [](TypeOK /\ LoopInv /\ ClaimInv)
BY TypeInit, TypeStep, LoopInit, LoopStep, ClaimInit, ClaimStep, PTL DEF Spec

\* Whoever crashes, loses the partition or comes late with a commit: what the group has
\* committed since its last start at the end of the log was handled.
THEOREM OnlyHandledIsCommitted == Spec => []CommittedIsHandled
<1>1. ClaimInv => CommittedIsHandled
  BY DEF ClaimInv, CommittedIsHandled
<1> QED
  BY <1>1, KafkaInvariant, PTL

\* No Setup finds the channel closed.
THEOREM SetupNeverPanics == Spec => []NeverPanics
<1>1. LoopInv => NeverPanics
  BY DEF LoopInv, NeverPanics
<1> QED
  BY <1>1, KafkaInvariant, PTL

\* A consumer that was closed has no message in hand and no claim to receive one from.
Quiet == \A p \in Process : main[p] = "closed" => handling[p] = None /\ position[p] = None

\* That holds in every reachable state: closing a consumer leaves no handler behind.
THEOREM ClosedIsQuiet == Spec => []Quiet
<1>1. LoopInv => Quiet
  BY DEF LoopInv, Quiet
<1> QED
  BY <1>1, KafkaInvariant, PTL
=============================================================================
