------------------------------ MODULE CacheProofs ------------------------------
(***************************************************************************)
(* Proofs about the two cache proxies, for any records, lists, ranges,     *)
(* versions and numbers of goroutines and any size of the channel and the  *)
(* batches: no change is forgotten, a page that Redis answers is that of   *)
(* the data source, and every key gets its expiration.                     *)
(*                                                                         *)
(* And each of the two, seen from outside, is an InvalidatedCache.         *)
(*                                                                         *)
(* The first part is about the pipeline of StaleKeyCleaner, which both     *)
(* have, the second about ObjectCacheProxy, the third about                *)
(* SliceCacheProxy.                                                        *)
(***************************************************************************)
EXTENDS ObjectCacheProxy, SliceCacheProxy, FiniteSetTheorems, FunctionTheorems, TLAPS

\* Appending an element adds it to the elements of a sequence.
LEMMA ToSetAppend ==
  ASSUME NEW S, NEW q \in Seq(S), NEW e \in S
  PROVE  ToSet(Append(q, e)) = ToSet(q) \cup {e}
<1>1. /\ DOMAIN q = 1 .. Len(q) /\ Len(q) \in Nat
      /\ DOMAIN Append(q, e) = 1 .. Len(q) + 1
      /\ \A k \in 1 .. Len(q) : Append(q, e)[k] = q[k]
      /\ Append(q, e)[Len(q) + 1] = e
  OBVIOUS
<1>2. ToSet(Append(q, e)) \subseteq ToSet(q) \cup {e}
  <2>1. ASSUME NEW k \in 1 .. Len(q) + 1
        PROVE  Append(q, e)[k] = e \/ (k \in DOMAIN q /\ Append(q, e)[k] = q[k])
    <3>1. k = Len(q) + 1 \/ k \in 1 .. Len(q)
      BY <1>1, <2>1
    <3> QED
      BY <1>1, <3>1
  <2> QED
    BY <1>1, <2>1 DEF ToSet
<1>3. ToSet(q) \cup {e} \subseteq ToSet(Append(q, e))
  <2>1. e \in ToSet(Append(q, e))
    <3>1. Len(q) + 1 \in DOMAIN Append(q, e)
      BY <1>1
    <3> QED
      BY <1>1, <3>1 DEF ToSet
  <2>2. ASSUME NEW k \in DOMAIN q PROVE q[k] \in ToSet(Append(q, e))
    <3>1. k \in DOMAIN Append(q, e) /\ Append(q, e)[k] = q[k]
      BY <1>1, <2>2
    <3> QED
      BY <3>1 DEF ToSet
  <2> QED
    BY <2>1, <2>2 DEF ToSet
<1> QED
  BY <1>2, <1>3

\* A non-empty sequence has the elements of its head and its tail.
LEMMA ToSetTail ==
  ASSUME NEW S, NEW q \in Seq(S), q # <<>>
  PROVE  ToSet(q) = {Head(q)} \cup ToSet(Tail(q))
<1>1. ASSUME NEW k \in DOMAIN q PROVE q[k] = Head(q) \/ q[k] \in ToSet(Tail(q))
  <2>1. CASE k = 1
    BY <2>1
  <2>2. CASE k # 1
    <3>1. k - 1 \in DOMAIN Tail(q) /\ Tail(q)[k - 1] = q[k]
      BY <1>1, <2>2
    <3> QED
      BY <3>1 DEF ToSet
  <2> QED
    BY <2>1, <2>2
<1>2. ASSUME NEW k \in DOMAIN Tail(q) PROVE Tail(q)[k] \in ToSet(q)
  <2>1. k + 1 \in DOMAIN q /\ Tail(q)[k] = q[k + 1]
    BY <1>2
  <2> QED
    BY <2>1 DEF ToSet
<1>3. Head(q) \in ToSet(q)
  BY DEF ToSet
<1> QED
  BY <1>1, <1>2, <1>3 DEF ToSet

\* The elements of a sequence are of the set it is over.
LEMMA ToSetType ==
  ASSUME NEW S, NEW q \in Seq(S) PROVE ToSet(q) \in SUBSET S
BY DEF ToSet

\* The empty sequence has none.
LEMMA ToSetEmpty == ToSet(<<>>) = {}
BY DEF ToSet

(***************************************************************************)
(* Types.                                                                  *)
(***************************************************************************)

\* Initially every variable of the pipeline has its type.
LEMMA PipelineTypeInit == PipelineInit => PipelineTypeOK
<1> SUFFICES ASSUME PipelineInit PROVE PipelineTypeOK
  OBVIOUS
<1>1. 0 \in 0 .. MaxVersion /\ 0 <= ChanCap /\ 0 < BatchSize
  BY CleanerAssumption DEF CleanerAssumption
<1>2. <<>> \in Seq(Id) /\ Len(<<>>) = 0
  OBVIOUS
<1>3. db \in [Id -> Version] /\ pubId \in [Publisher -> Id]
  BY <1>1 DEF PipelineInit, Version
<1>4. daoEventChan \in Seq(Id) /\ Len(daoEventChan) <= ChanCap
  BY <1>1, <1>2 DEF PipelineInit
<1>5. ids \in Seq(Id) /\ Len(ids) < BatchSize
  BY <1>1, <1>2 DEF PipelineInit
<1> QED
  BY <1>3, <1>4, <1>5 DEF PipelineInit, PipelineTypeOK

\* A step that leaves the pipeline alone keeps its types, too.
LEMMA PipelineTypeSame ==
  PipelineTypeOK /\ UNCHANGED <<db, pubVars, chanVars, cleanerVars, shutdown, failed, dropped>>
    => PipelineTypeOK'
BY DEF PipelineTypeOK, pubVars, chanVars, cleanerVars

\* Every step of the pipeline keeps the types.
LEMMA PipelineTypeStep == PipelineTypeOK /\ PipelineNext => PipelineTypeOK'
<1> SUFFICES ASSUME PipelineTypeOK, PipelineNext PROVE PipelineTypeOK'
  OBVIOUS
<1> USE DEF PipelineTypeOK, pubVars, chanVars, cleanerVars
<1>1. ASSUME NEW p \in Publisher, ListenWarns(p) PROVE PipelineTypeOK'
  BY <1>1, CleanerAssumption, ToSetType DEF ListenWarns
<1>2. ASSUME NEW p \in Publisher, ListenOpen(p) PROVE PipelineTypeOK'
  BY <1>2, CleanerAssumption, ToSetType DEF ListenOpen
<1>3. ASSUME NEW p \in Publisher, ListenSends(p) PROVE PipelineTypeOK'
  BY <1>3, CleanerAssumption, ToSetType DEF ListenSends
<1>4. ASSUME NEW p \in Publisher, ListenPanics(p) PROVE PipelineTypeOK'
  BY <1>4, CleanerAssumption, ToSetType DEF ListenPanics
<1>5. ASSUME NEW p \in Publisher, NEW k \in Id, Mutate(p, k) PROVE PipelineTypeOK'
  BY <1>5, CleanerAssumption, ToSetType DEF Mutate, Version
<1>6. CASE TickerFlush
  BY <1>6, CleanerAssumption, ToSetType DEF TickerFlush, GoDelKeys
<1>7. CASE ReceiveEvent
  <2> DEFINE collected == Append(ids, Head(daoEventChan))
  <2>1. /\ Head(daoEventChan) \in Id /\ daoEventChan' = Tail(daoEventChan)
        /\ daoEventChan' \in Seq(Id) /\ Len(daoEventChan') <= ChanCap
    BY <1>7, CleanerAssumption DEF ReceiveEvent, CleanerAssumption
  <2>2. /\ collected \in Seq(Id) /\ ToSet(collected) \in SUBSET Id
        /\ Len(<<>>) = 0 /\ <<>> \in Seq(Id) /\ 0 < BatchSize
    <3>1. collected \in Seq(Id)
      BY <2>1
    <3>2. ToSet(collected) \in SUBSET Id
      <4> HIDE DEF collected
      <4> QED
        BY <3>1, ToSetType
    <3>3. Len(<<>>) = 0 /\ <<>> \in Seq(Id) /\ 0 < BatchSize
      BY CleanerAssumption DEF CleanerAssumption
    <3> QED
      BY <3>1, <3>2, <3>3
  <2>3. CASE Len(collected) >= BatchSize
    <3>1. jobs' \in [Job -> SUBSET Id] /\ ids' = <<>>
      BY <1>7, <2>2, <2>3 DEF ReceiveEvent, GoDelKeys
    <3> QED
      BY <1>7, <2>1, <2>2, <3>1 DEF ReceiveEvent
  <2>4. CASE ~(Len(collected) >= BatchSize)
    <3>1. /\ ids' = collected /\ UNCHANGED jobs
          /\ Len(collected) < BatchSize
      BY <1>7, <2>2, <2>4, CleanerAssumption DEF ReceiveEvent, CleanerAssumption
    <3> QED
      BY <1>7, <2>1, <2>2, <3>1 DEF ReceiveEvent
  <2> QED
    BY <2>3, <2>4
<1>8. CASE ChannelDrained
  BY <1>8, CleanerAssumption, ToSetType DEF ChannelDrained, Deferred
<1>9. CASE LastDel
  BY <1>9, CleanerAssumption, ToSetType DEF LastDel
<1>10. CASE LastDelFails
  BY <1>10, CleanerAssumption, ToSetType DEF LastDelFails
<1>11. CASE DeferDone
  BY <1>11, CleanerAssumption, ToSetType DEF DeferDone
<1>12. ASSUME NEW j \in Job, Del(j) PROVE PipelineTypeOK'
  BY <1>12, CleanerAssumption, ToSetType DEF Del
<1>13. ASSUME NEW j \in Job, DelFails(j) PROVE PipelineTypeOK'
  BY <1>13, CleanerAssumption, ToSetType DEF DelFails
<1>14. CASE SetClosedFlag
  BY <1>14, CleanerAssumption, ToSetType DEF SetClosedFlag
<1>15. CASE CloseChan
  BY <1>15, CleanerAssumption, ToSetType DEF CloseChan
<1>16. CASE CleanerClosed
  BY <1>16, CleanerAssumption, ToSetType DEF CleanerClosed
<1>17. CASE CloseRedis
  BY <1>17, CleanerAssumption, ToSetType DEF CloseRedis
<1>18. CASE MappingPanics
  <2>1. /\ daoEventChan' = Tail(daoEventChan) /\ daoEventChan' \in Seq(Id)
        /\ Len(daoEventChan') <= ChanCap
    BY <1>18, CleanerAssumption DEF MappingPanics, CleanerAssumption
  <2>2. /\ ToSet(ids) \in SUBSET Id /\ ToSet(daoEventChan) \in SUBSET Id
        /\ <<>> \in Seq(Id) /\ Len(<<>>) < BatchSize
    BY ToSetType, CleanerAssumption DEF CleanerAssumption
  <2> QED
    BY <1>18, <2>1, <2>2 DEF MappingPanics, Deferred
<1> QED
  BY <1>1, <1>2, <1>3, <1>4, <1>5, <1>6, <1>7, <1>8, <1>9, <1>10,
     <1>11, <1>12, <1>13, <1>14, <1>15, <1>16, <1>17, <1>18
     DEF PipelineNext, PublisherStep, JobStep, DeferStep, ShutdownStep

(***************************************************************************)
(* The shutdown waits for the cleaner to drain the channel.                *)
(***************************************************************************)

\* Once the cleaner has left its loop nothing is in its hands, nor in the channel but what
\* is there for a panic of the mapping.
DrainInv ==
    /\ cleaner # "select" => ids = <<>> /\ ToSet(daoEventChan) \subseteq dropped
    /\ cleaner # "defer" => lastJob = {}
    /\ shutdown \in {"proxyClosed", "redisClosed"} => cleaner = "stopped"

\* Every step of the pipeline keeps DrainInv.
LEMMA DrainStep == PipelineTypeOK /\ DrainInv /\ PipelineNext => DrainInv'
<1> SUFFICES ASSUME PipelineTypeOK, DrainInv, PipelineNext PROVE DrainInv'
  OBVIOUS
<1> USE DEF PipelineTypeOK, DrainInv, pubVars, chanVars, cleanerVars
<1>1. ASSUME NEW p \in Publisher, ListenWarns(p) PROVE DrainInv'
  BY <1>1 DEF ListenWarns
<1>2. ASSUME NEW p \in Publisher, ListenOpen(p) PROVE DrainInv'
  BY <1>2 DEF ListenOpen
<1>3. ASSUME NEW p \in Publisher, ListenSends(p) PROVE DrainInv'
  <2>1. ToSet(daoEventChan') = ToSet(daoEventChan) \cup {pubId[p]}
    BY <1>3, ToSetAppend DEF ListenSends
  <2> QED
    BY <1>3, <2>1 DEF ListenSends
<1>4. ASSUME NEW p \in Publisher, ListenPanics(p) PROVE DrainInv'
  BY <1>4 DEF ListenPanics
<1>5. ASSUME NEW p \in Publisher, NEW k \in Id, Mutate(p, k) PROVE DrainInv'
  BY <1>5 DEF Mutate
<1>6. CASE TickerFlush
  BY <1>6 DEF TickerFlush, GoDelKeys
<1>7. CASE ReceiveEvent
  BY <1>7 DEF ReceiveEvent, GoDelKeys
<1>8. CASE ChannelDrained
  BY <1>8, ToSetEmpty DEF ChannelDrained, Deferred
<1>9. CASE LastDel
  BY <1>9 DEF LastDel
<1>10. CASE LastDelFails
  BY <1>10 DEF LastDelFails
<1>11. CASE DeferDone
  BY <1>11 DEF DeferDone
<1>12. ASSUME NEW j \in Job, Del(j) PROVE DrainInv'
  BY <1>12 DEF Del
<1>13. ASSUME NEW j \in Job, DelFails(j) PROVE DrainInv'
  BY <1>13 DEF DelFails
<1>14. CASE SetClosedFlag
  BY <1>14 DEF SetClosedFlag
<1>15. CASE CloseChan
  BY <1>15 DEF CloseChan
<1>16. CASE CleanerClosed
  BY <1>16 DEF CleanerClosed
<1>17. CASE CloseRedis
  BY <1>17 DEF CloseRedis
<1>18. CASE MappingPanics
  <2>1. ToSet(daoEventChan') \subseteq ToSet(daoEventChan)
    BY <1>18, ToSetTail DEF MappingPanics
  <2> QED
    BY <1>18, <2>1 DEF MappingPanics, Deferred
<1> QED
  BY <1>1, <1>2, <1>3, <1>4, <1>5, <1>6, <1>7, <1>8, <1>9, <1>10,
     <1>11, <1>12, <1>13, <1>14, <1>15, <1>16, <1>17, <1>18
     DEF PipelineNext, PublisherStep, JobStep, DeferStep, ShutdownStep

\* What DrainInv says when the shutdown function of the proxy has returned.
LEMMA DrainInvDrained == DrainInv => DrainedWhenClosed
BY DEF DrainInv, DrainedWhenClosed

\* A step of the pipeline deletes keys and changes no other.
LEMMA PipelineFrame ==
  ASSUME PipelineTypeOK, PipelineNext, NEW V, Absent \in V, cache \in [Id -> V]
  PROVE  /\ cache' \in [Id -> V]
         /\ \A i \in Id : cache'[i] = cache[i] \/ cache'[i] = Absent
<1> DEFINE Goal ==
         /\ cache' \in [Id -> V]
         /\ \A i \in Id : cache'[i] = cache[i] \/ cache'[i] = Absent
<1> SUFFICES Goal
  OBVIOUS
<1> USE DEF PipelineTypeOK
<1>1. ASSUME NEW p \in Publisher, ListenWarns(p) PROVE Goal
  BY <1>1 DEF ListenWarns
<1>2. ASSUME NEW p \in Publisher, ListenOpen(p) PROVE Goal
  BY <1>2 DEF ListenOpen
<1>3. ASSUME NEW p \in Publisher, ListenSends(p) PROVE Goal
  BY <1>3 DEF ListenSends
<1>4. ASSUME NEW p \in Publisher, ListenPanics(p) PROVE Goal
  BY <1>4 DEF ListenPanics
<1>5. ASSUME NEW p \in Publisher, NEW k \in Id, Mutate(p, k) PROVE Goal
  BY <1>5 DEF Mutate
<1>6. CASE TickerFlush
  BY <1>6 DEF TickerFlush, GoDelKeys
<1>7. CASE ReceiveEvent
  BY <1>7 DEF ReceiveEvent, GoDelKeys
<1>8. CASE ChannelDrained
  BY <1>8 DEF ChannelDrained
<1>9. CASE LastDel
  BY <1>9 DEF LastDel
<1>10. CASE LastDelFails
  BY <1>10 DEF LastDelFails
<1>11. CASE DeferDone
  BY <1>11 DEF DeferDone
<1>12. ASSUME NEW j \in Job, Del(j) PROVE Goal
  BY <1>12 DEF Del
<1>13. ASSUME NEW j \in Job, DelFails(j) PROVE Goal
  BY <1>13 DEF DelFails
<1>14. CASE SetClosedFlag
  BY <1>14 DEF SetClosedFlag
<1>15. CASE CloseChan
  BY <1>15 DEF CloseChan
<1>16. CASE CleanerClosed
  BY <1>16 DEF CleanerClosed
<1>17. CASE CloseRedis
  BY <1>17 DEF CloseRedis
<1>18. CASE MappingPanics
  BY <1>18 DEF MappingPanics
<1> QED
  BY <1>1, <1>2, <1>3, <1>4, <1>5, <1>6, <1>7, <1>8, <1>9, <1>10,
     <1>11, <1>12, <1>13, <1>14, <1>15, <1>16, <1>17, <1>18
     DEF PipelineNext, PublisherStep, JobStep, DeferStep, ShutdownStep

\* A step that moves no event and changes no record keeps an invalidation under way.
LEMMA UnderWaySame ==
  ASSUME UNCHANGED <<db, pubVars, chanVars, cleanerVars, shutdown, failed, dropped>>,
         NEW i \in Id
  PROVE  InvalidationUnderWay(i)' <=> InvalidationUnderWay(i)
BY DEF InvalidationUnderWay, pubVars, chanVars, cleanerVars

(***************************************************************************)
(* What a step of the pipeline is to an InvalidatedCache.                  *)
(***************************************************************************)

Lost == failed \cup dropped

\* A record changes, and its deletion is sent for.
AsChange(i) ==
    /\ db' = [db EXCEPT ![i] = @ + 1] /\ db[i] + 1 \in Version
    /\ UnderWay' = UnderWay \cup {i}
    /\ cache' = cache /\ Lost' = Lost

\* A key is deleted.
AsDelete(i) ==
    /\ i \in UnderWay
    /\ cache' = [cache EXCEPT ![i] = Absent]
    /\ UnderWay' \in {UnderWay, UnderWay \ {i}}
    /\ db' = db /\ Lost' = Lost

\* Some of the deletions under way are given up, and may be gone.
AsLose ==
    \E given \in SUBSET UnderWay :
       /\ Lost' = Lost \cup given
       /\ \E gone \in SUBSET given : UnderWay' = UnderWay \ gone
       /\ db' = db /\ cache' = cache

\* What is enough for AsLose.
LEMMA LoseEnough ==
  ASSUME NEW given \in SUBSET UnderWay, Lost' = Lost \cup given,
         UnderWay' \subseteq UnderWay, UnderWay \ UnderWay' \subseteq given,
         db' = db, cache' = cache
  PROVE  AsLose
<1>1. UnderWay' = UnderWay \ (UnderWay \ UnderWay')
  OBVIOUS
<1>2. UnderWay \ UnderWay' \in SUBSET given
  OBVIOUS
<1> QED
  BY <1>1, <1>2 DEF AsLose

\* Events and ids that only move from one stage to another are nothing to it.
LEMMA MoveIsStutter ==
  ASSUME UnderWay' = UnderWay, db' = db, cache' = cache, UNCHANGED <<failed, dropped>>
  PROVE  AsLose
<1>1. {} \in SUBSET UnderWay /\ Lost' = Lost \cup {}
  BY DEF Lost
<1> QED
  BY <1>1, LoseEnough

\* What the deletion of one id of a set does to the ids under way.
LEMMA DeleteOne ==
  ASSUME NEW i \in Id, InvalidationUnderWay(i),
         \A k \in Id : k # i => (InvalidationUnderWay(k)' <=> InvalidationUnderWay(k))
  PROVE  i \in UnderWay /\ UnderWay' \in {UnderWay, UnderWay \ {i}}
BY DEF UnderWay

\* Only a change begins an invalidation, and every step of the pipeline is one of the three.
LEMMA PipelineAbstract ==
  ASSUME PipelineTypeOK, DrainInv, PipelineNext
  PROVE  (\E i \in Id : AsChange(i) \/ AsDelete(i)) \/ AsLose
<1> DEFINE Goal == (\E i \in Id : AsChange(i) \/ AsDelete(i)) \/ AsLose
<1> SUFFICES Goal
  OBVIOUS
<1> USE DEF PipelineTypeOK, pubVars, chanVars, cleanerVars
<1>1. ASSUME NEW p \in Publisher, ListenWarns(p) \/ ListenPanics(p) PROVE Goal
  <2>1. /\ pub[p] \in {"listen", "send"} /\ pubId[p] \in Id
        /\ pub' \in {[pub EXCEPT ![p] = "idle"], [pub EXCEPT ![p] = "panicked"]}
        /\ UNCHANGED <<db, cache, pubId, daoEventChan, ids, jobs, lastJob, failed>>
        /\ dropped' = dropped \cup {pubId[p]}
    BY <1>1 DEF ListenWarns, ListenPanics
  <2>2. \A q \in Publisher : pub'[q] = pub[q] \/ (q = p /\ pub'[q] \in {"idle", "panicked"})
    BY <2>1
  <2>3. ASSUME NEW k \in Id
        PROVE  /\ InvalidationUnderWay(k)' => InvalidationUnderWay(k)
               /\ InvalidationUnderWay(k) => InvalidationUnderWay(k)' \/ k = pubId[p]
    BY <2>1, <2>2 DEF InvalidationUnderWay
  <2>4. {pubId[p]} \in SUBSET UnderWay /\ Lost' = Lost \cup {pubId[p]}
    BY <2>1 DEF UnderWay, InvalidationUnderWay, Lost
  <2>5. UnderWay' \subseteq UnderWay /\ UnderWay \ UnderWay' \subseteq {pubId[p]}
    BY <2>3 DEF UnderWay
  <2> QED
    BY <2>1, <2>4, <2>5, LoseEnough
<1>2. ASSUME NEW p \in Publisher, ListenOpen(p) PROVE Goal
  <2>1. /\ \A q \in Publisher :
              pub'[q] \in {"listen", "send"} <=> pub[q] \in {"listen", "send"}
        /\ UNCHANGED <<db, cache, pubId, daoEventChan, ids, jobs, lastJob, failed, dropped>>
    BY <1>2 DEF ListenOpen
  <2>2. UnderWay' = UnderWay
    BY <2>1 DEF UnderWay, InvalidationUnderWay
  <2> QED
    BY <2>1, <2>2, MoveIsStutter
<1>3. ASSUME NEW p \in Publisher, ListenSends(p) PROVE Goal
  <2>1. /\ pub[p] = "send" /\ pubId[p] \in Id /\ pub' = [pub EXCEPT ![p] = "idle"]
        /\ ToSet(daoEventChan') = ToSet(daoEventChan) \cup {pubId[p]}
        /\ UNCHANGED <<db, cache, pubId, ids, jobs, lastJob, failed>>
        /\ dropped' \in {dropped, dropped \cup {pubId[p]}}
    BY <1>3, ToSetAppend DEF ListenSends
  <2>2. \A q \in Publisher : pub'[q] = pub[q] \/ (q = p /\ pub'[q] = "idle")
    BY <2>1
  <2>3. ASSUME NEW k \in Id PROVE InvalidationUnderWay(k)' <=> InvalidationUnderWay(k)
    BY <2>1, <2>2 DEF InvalidationUnderWay
  <2>4. UnderWay' = UnderWay /\ pubId[p] \in UnderWay
    BY <2>1, <2>3 DEF UnderWay, InvalidationUnderWay
  <2>5. PICK given \in {{}, {pubId[p]}} : Lost' = Lost \cup given
    BY <2>1 DEF Lost
  <2> QED
    BY <2>1, <2>4, <2>5, LoseEnough
<1>4. ASSUME NEW p \in Publisher, NEW i \in Id, Mutate(p, i) PROVE Goal
  <2>1. /\ pub[p] = "idle" /\ db' = [db EXCEPT ![i] = @ + 1] /\ db[i] + 1 \in Version
        /\ pub' = [pub EXCEPT ![p] = "listen"] /\ pubId' = [pubId EXCEPT ![p] = i]
        /\ UNCHANGED <<cache, daoEventChan, ids, jobs, lastJob, failed, dropped>>
    BY <1>4, CleanerAssumption DEF Mutate, Version, CleanerAssumption
  <2>2. /\ pub'[p] = "listen" /\ pubId'[p] = i
        /\ \A q \in Publisher : q # p => pub'[q] = pub[q] /\ pubId'[q] = pubId[q]
    BY <2>1
  <2>3. ASSUME NEW k \in Id
        PROVE  InvalidationUnderWay(k)' <=> InvalidationUnderWay(k) \/ k = i
    BY <2>1, <2>2 DEF InvalidationUnderWay
  <2>4. UnderWay' = UnderWay \cup {i}
    BY <2>3 DEF UnderWay
  <2>5. AsChange(i)
    BY <2>1, <2>4 DEF AsChange, Lost
  <2> QED
    BY <2>5
<1>5. CASE TickerFlush
  <2>1. /\ \E j \in Job : jobs[j] = {} /\ jobs' = [jobs EXCEPT ![j] = ToSet(ids)]
        /\ ids' = <<>>
        /\ UNCHANGED <<db, cache, pub, pubId, daoEventChan, lastJob, failed, dropped>>
    BY <1>5 DEF TickerFlush, GoDelKeys
  <2>2. ASSUME NEW k \in Id
        PROVE  k \in ToSet(ids) \/ (\E j \in Job : k \in jobs[j]) <=>
                  \E j \in Job : k \in jobs'[j]
    BY <2>1
  <2>3. ToSet(ids') = {}
    BY <2>1, ToSetEmpty
  <2>4. UnderWay' = UnderWay
    BY <2>1, <2>2, <2>3 DEF UnderWay, InvalidationUnderWay
  <2> QED
    BY <2>1, <2>4, MoveIsStutter
<1>6. CASE ReceiveEvent
  <2> DEFINE collected == Append(ids, Head(daoEventChan))
  <2>1. /\ daoEventChan \in Seq(Id) /\ daoEventChan # <<>> /\ ids \in Seq(Id)
        /\ Head(daoEventChan) \in Id /\ daoEventChan' = Tail(daoEventChan)
        /\ UNCHANGED <<db, cache, pub, pubId, lastJob, failed, dropped>>
    BY <1>6 DEF ReceiveEvent
  <2>2. /\ ToSet(daoEventChan) = {Head(daoEventChan)} \cup ToSet(daoEventChan')
        /\ ToSet(collected) = ToSet(ids) \cup {Head(daoEventChan)}
    BY <2>1, ToSetTail, ToSetAppend
  <2>3. CASE ids' = collected /\ UNCHANGED jobs
    <3>1. ASSUME NEW k \in Id PROVE InvalidationUnderWay(k)' <=> InvalidationUnderWay(k)
      BY <2>1, <2>2, <2>3 DEF InvalidationUnderWay
    <3>2. UnderWay' = UnderWay
      BY <3>1 DEF UnderWay
    <3> QED
      BY <2>1, <3>2, MoveIsStutter
  <2>4. CASE GoDelKeys(collected) /\ ids' = <<>>
    <3>1. PICK j \in Job : jobs[j] = {} /\ jobs' = [jobs EXCEPT ![j] = ToSet(collected)]
      BY <2>4 DEF GoDelKeys
    <3>2. /\ \A n \in Job : n # j => jobs'[n] = jobs[n]
          /\ jobs[j] = {} /\ jobs'[j] = ToSet(collected)
      BY <3>1
    <3>3. ToSet(ids') = {}
      BY <2>4, ToSetEmpty
    <3>4. ASSUME NEW k \in Id
          PROVE  (\E n \in Job : k \in jobs'[n]) <=>
                    k \in ToSet(collected) \/ \E n \in Job : k \in jobs[n]
      BY <3>2
    <3>5. ASSUME NEW k \in Id PROVE InvalidationUnderWay(k)' <=> InvalidationUnderWay(k)
      BY <2>1, <2>2, <3>3, <3>4 DEF InvalidationUnderWay
    <3>6. UnderWay' = UnderWay
      BY <3>5 DEF UnderWay
    <3> QED
      BY <2>1, <3>6, MoveIsStutter
  <2> QED
    BY <1>6, <2>3, <2>4 DEF ReceiveEvent
<1>7. CASE ChannelDrained
  <2>1. /\ lastJob = {} /\ lastJob' = ToSet(ids) /\ ids' = <<>>
        /\ UNCHANGED <<db, cache, pub, pubId, daoEventChan, jobs, failed, dropped>>
    BY <1>7 DEF ChannelDrained, Deferred, DrainInv
  <2>2. UnderWay' = UnderWay
    BY <2>1, ToSetEmpty DEF UnderWay, InvalidationUnderWay
  <2> QED
    BY <2>1, <2>2, MoveIsStutter
<1>8. CASE MappingPanics
  <2>1. /\ lastJob = {} /\ lastJob' = ToSet(ids) /\ ids' = <<>>
        /\ daoEventChan # <<>> /\ daoEventChan \in Seq(Id)
        /\ daoEventChan' = Tail(daoEventChan)
        /\ dropped' = dropped \cup ToSet(daoEventChan)
        /\ UNCHANGED <<db, cache, pub, pubId, jobs, failed>>
    BY <1>8 DEF MappingPanics, Deferred, DrainInv
  <2>2. /\ ToSet(daoEventChan') \subseteq ToSet(daoEventChan) /\ ToSet(ids') = {}
        /\ ToSet(daoEventChan) \in SUBSET Id
    BY <2>1, ToSetTail, ToSetType, ToSetEmpty
  <2>3. ASSUME NEW k \in Id
        PROVE  /\ InvalidationUnderWay(k)' => InvalidationUnderWay(k)
               /\ InvalidationUnderWay(k) =>
                     InvalidationUnderWay(k)' \/ k \in ToSet(daoEventChan)
    BY <2>1, <2>2 DEF InvalidationUnderWay
  <2>4. ToSet(daoEventChan) \in SUBSET UnderWay /\ Lost' = Lost \cup ToSet(daoEventChan)
    BY <2>1, <2>2 DEF UnderWay, InvalidationUnderWay, Lost
  <2>5. UnderWay' \subseteq UnderWay /\ UnderWay \ UnderWay' \subseteq ToSet(daoEventChan)
    BY <2>3 DEF UnderWay
  <2> QED
    BY <2>1, <2>4, <2>5, LoseEnough
<1>9. CASE LastDel
  <2>1. PICK i \in lastJob : /\ cache' = [cache EXCEPT ![i] = Absent]
                             /\ lastJob' = lastJob \ {i}
    BY <1>9 DEF LastDel
  <2>2. UNCHANGED <<db, pub, pubId, daoEventChan, ids, jobs, failed, dropped>>
    BY <1>9 DEF LastDel
  <2>3. ASSUME NEW k \in Id, k # i PROVE InvalidationUnderWay(k)' <=> InvalidationUnderWay(k)
    BY <2>1, <2>2, <2>3 DEF InvalidationUnderWay
  <2>4. i \in Id /\ InvalidationUnderWay(i)
    BY DEF InvalidationUnderWay
  <2>5. AsDelete(i)
    BY <2>1, <2>2, <2>3, <2>4, DeleteOne DEF AsDelete, Lost
  <2> QED
    BY <2>4, <2>5
<1>10. CASE LastDelFails
  <2>1. /\ failed' = failed \cup lastJob /\ lastJob' = {} /\ lastJob \in SUBSET Id
        /\ UNCHANGED <<db, cache, pub, pubId, daoEventChan, ids, jobs, dropped>>
    BY <1>10 DEF LastDelFails
  <2>2. ASSUME NEW k \in Id
        PROVE  /\ InvalidationUnderWay(k)' => InvalidationUnderWay(k)
               /\ InvalidationUnderWay(k) => InvalidationUnderWay(k)' \/ k \in lastJob
    BY <2>1 DEF InvalidationUnderWay
  <2>3. lastJob \in SUBSET UnderWay /\ Lost' = Lost \cup lastJob
    BY <2>1 DEF UnderWay, InvalidationUnderWay, Lost
  <2>4. UnderWay' \subseteq UnderWay /\ UnderWay \ UnderWay' \subseteq lastJob
    BY <2>2 DEF UnderWay
  <2> QED
    BY <2>1, <2>3, <2>4, LoseEnough
<1>11. ASSUME NEW j \in Job, Del(j) PROVE Goal
  <2>1. PICK i \in jobs[j] : /\ cache' = [cache EXCEPT ![i] = Absent]
                             /\ jobs'  = [jobs EXCEPT ![j] = @ \ {i}]
    BY <1>11 DEF Del
  <2>2. UNCHANGED <<db, pub, pubId, daoEventChan, ids, lastJob, failed, dropped>>
    BY <1>11 DEF Del
  <2>3. ASSUME NEW k \in Id, k # i PROVE InvalidationUnderWay(k)' <=> InvalidationUnderWay(k)
    <3>1. \A n \in Job : k \in jobs'[n] <=> k \in jobs[n]
      BY <2>1, <2>3
    <3> QED
      BY <2>2, <3>1 DEF InvalidationUnderWay
  <2>4. i \in Id /\ InvalidationUnderWay(i)
    BY DEF InvalidationUnderWay
  <2>5. AsDelete(i)
    BY <2>1, <2>2, <2>3, <2>4, DeleteOne DEF AsDelete, Lost
  <2> QED
    BY <2>4, <2>5
<1>12. ASSUME NEW j \in Job, DelFails(j) PROVE Goal
  <2>1. /\ failed' = failed \cup jobs[j] /\ jobs' = [jobs EXCEPT ![j] = {}]
        /\ jobs[j] \in SUBSET Id
        /\ UNCHANGED <<db, cache, pub, pubId, daoEventChan, ids, lastJob, dropped>>
    BY <1>12 DEF DelFails
  <2>2. jobs'[j] = {} /\ \A n \in Job : n # j => jobs'[n] = jobs[n]
    BY <2>1
  <2>3. ASSUME NEW k \in Id
        PROVE  /\ InvalidationUnderWay(k)' => InvalidationUnderWay(k)
               /\ InvalidationUnderWay(k) => InvalidationUnderWay(k)' \/ k \in jobs[j]
    BY <2>1, <2>2 DEF InvalidationUnderWay
  <2>4. jobs[j] \in SUBSET UnderWay /\ Lost' = Lost \cup jobs[j]
    BY <2>1 DEF UnderWay, InvalidationUnderWay, Lost
  <2>5. UnderWay' \subseteq UnderWay /\ UnderWay \ UnderWay' \subseteq jobs[j]
    BY <2>3 DEF UnderWay
  <2> QED
    BY <2>1, <2>4, <2>5, LoseEnough
<1>13. CASE DeferDone \/ SetClosedFlag \/ CloseChan \/ CleanerClosed \/ CloseRedis
  <2>1. UNCHANGED <<db, cache, pub, pubId, daoEventChan, ids, jobs, lastJob, failed, dropped>>
    BY <1>13 DEF DeferDone, SetClosedFlag, CloseChan, CleanerClosed, CloseRedis
  <2>2. UnderWay' = UnderWay
    BY <2>1 DEF UnderWay, InvalidationUnderWay
  <2> QED
    BY <2>1, <2>2, MoveIsStutter
<1> QED
  BY <1>1, <1>2, <1>3, <1>4, <1>5, <1>6, <1>7, <1>8, <1>9, <1>10, <1>11, <1>12, <1>13
     DEF PipelineNext, PublisherStep, JobStep, DeferStep, ShutdownStep

(***************************************************************************)
(* The object cache.                                                       *)
(***************************************************************************)

\* Initially every variable has its type.
LEMMA ObjectTypeInit == ObjectInit => ObjectTypeOK
<1> SUFFICES ASSUME ObjectInit PROVE ObjectTypeOK
  OBVIOUS
<1>1. PipelineTypeOK
  BY PipelineTypeInit DEF ObjectInit
<1> QED
  BY <1>1 DEF ObjectInit, PipelineInit, ObjectTypeOK

\* The types as the lemmas of the pipeline need them.
LEMMA ObjectCacheType ==
  ObjectTypeOK => PipelineTypeOK /\ cache \in [Id -> Version \cup {Absent}]
BY DEF ObjectTypeOK

\* The steps of the readers leave the pipeline alone, but for the cache itself.
LEMMA ObjectReaderFrame ==
  ObjectReaderStep \/ UNCHANGED objectVars =>
    UNCHANGED <<db, pubVars, chanVars, cleanerVars, shutdown, failed, dropped>>
BY DEF ObjectReaderStep, ObjectHit, ObjectMiss, GetFromDataSource, GetFails, saveToRedis,
       saveFails, ObjectExpires, objectVars, pipelineVars, pubVars, chanVars, cleanerVars

\* Every step of the readers keeps the types.
LEMMA ObjectReaderTypeStep == ObjectTypeOK /\ ObjectReaderStep => ObjectTypeOK'
<1> SUFFICES ASSUME ObjectTypeOK, ObjectReaderStep PROVE ObjectTypeOK'
  OBVIOUS
<1> USE DEF ObjectTypeOK, Entry, objectReaderVars, pipelineVars
<1>1. PipelineTypeOK'
  <2> HIDE DEF ObjectTypeOK
  <2> QED
    BY ObjectCacheType, ObjectReaderFrame, PipelineTypeSame
<1>2. db \in [Id -> Version]
  BY DEF PipelineTypeOK, Version
<1>3. ASSUME NEW r \in Reader, GetFromDataSource(r) PROVE ObjectTypeOK'
  BY <1>1, <1>2, <1>3 DEF GetFromDataSource
<1>4. ASSUME NEW r \in Reader, GetFails(r) PROVE ObjectTypeOK'
  BY <1>1, <1>4 DEF GetFails
<1>5. ASSUME NEW r \in Reader, NEW i \in Id, ObjectHit(r, i) PROVE ObjectTypeOK'
  BY <1>1, <1>5 DEF ObjectHit, objectVars
<1>6. ASSUME NEW r \in Reader, NEW i \in Id, ObjectMiss(r, i) PROVE ObjectTypeOK'
  BY <1>1, <1>6 DEF ObjectMiss
<1>7. ASSUME NEW s \in Saver, saveToRedis(s) PROVE ObjectTypeOK'
  BY <1>1, <1>7 DEF saveToRedis
<1>8. ASSUME NEW s \in Saver, saveFails(s) PROVE ObjectTypeOK'
  BY <1>1, <1>8 DEF saveFails
<1>9. ASSUME NEW i \in Id, ObjectExpires(i) PROVE ObjectTypeOK'
  BY <1>1, <1>9 DEF ObjectExpires
<1> QED
  BY <1>3, <1>4, <1>5, <1>6, <1>7, <1>8, <1>9 DEF ObjectReaderStep

\* Every step keeps the types.
LEMMA ObjectTypeStep == ObjectTypeOK /\ [ObjectNext]_objectVars => ObjectTypeOK'
<1> SUFFICES ASSUME ObjectTypeOK, [ObjectNext]_objectVars PROVE ObjectTypeOK'
  OBVIOUS
<1>1. CASE PipelineNext /\ UNCHANGED objectReaderVars
  <2>1. PipelineTypeOK'
    BY <1>1, ObjectCacheType, PipelineTypeStep
  <2>2. cache' \in [Id -> Version \cup {Absent}]
    <3>1. /\ PipelineTypeOK /\ cache \in [Id -> Version \cup {Absent}]
          /\ Absent \in Version \cup {Absent}
      BY ObjectCacheType
    <3> QED
      BY <1>1, <3>1, PipelineFrame
  <2> QED
    BY <1>1, <2>1, <2>2 DEF ObjectTypeOK, objectReaderVars
<1>2. CASE ObjectReaderStep
  BY <1>2, ObjectReaderTypeStep
<1>3. CASE UNCHANGED objectVars
  <2>1. PipelineTypeOK'
    BY <1>3, ObjectCacheType, ObjectReaderFrame, PipelineTypeSame
  <2> QED
    BY <1>3, <2>1 DEF ObjectTypeOK, objectVars, pipelineVars, objectReaderVars
<1> QED
  BY <1>1, <1>2, <1>3 DEF ObjectNext

\* Type correctness of the cache and of its pipeline.
THEOREM ObjectTypeCorrect == ObjectSpec => []ObjectTypeOK
BY ObjectTypeInit, ObjectTypeStep, PTL DEF ObjectSpec

(***************************************************************************)
(* The shutdown waits for the cleaner to drain the channel.                *)
(***************************************************************************)

\* DrainInv is an invariant.
LEMMA ObjectDrainInvariant == ObjectSpec => []DrainInv
<1>1. ObjectInit => DrainInv
  BY DEF ObjectInit, PipelineInit, DrainInv
<1>2. ObjectTypeOK /\ DrainInv /\ [ObjectNext]_objectVars => DrainInv'
  <2>1. CASE PipelineNext
    BY <2>1, ObjectCacheType, DrainStep
  <2>2. CASE ObjectReaderStep \/ UNCHANGED objectVars
    BY <2>2, ObjectReaderFrame DEF DrainInv, chanVars, cleanerVars
  <2> QED
    BY <2>1, <2>2 DEF ObjectNext
<1> QED
  BY <1>1, <1>2, ObjectTypeCorrect, PTL DEF ObjectSpec

\* When the shutdown function of a cache proxy returns, every event its
\* channel accepted has been handed to delKeys, but for those after a panic of the mapping.
THEOREM ObjectShutdownDrains == ObjectSpec => []DrainedWhenClosed
BY DrainInvDrained, ObjectDrainInvariant, PTL

(***************************************************************************)
(* The object cache is an InvalidatedCache.                                *)
(***************************************************************************)

\* Redis and the savers are never ahead of the data source.
ObjectNotAhead ==
    /\ \A i \in Id : cache[i] # Absent => cache[i] <= db[i]
    /\ \A s \in Saver : \A e \in saves[s] : e.value <= db[e.id]

\* Every step keeps ObjectNotAhead, as versions only grow.
LEMMA ObjectNotAheadStep ==
  ObjectTypeOK /\ DrainInv /\ ObjectNotAhead /\ [ObjectNext]_objectVars => ObjectNotAhead'
<1> SUFFICES ASSUME ObjectTypeOK, DrainInv, ObjectNotAhead, [ObjectNext]_objectVars
             PROVE  ObjectNotAhead'
  OBVIOUS
<1>1. /\ PipelineTypeOK /\ cache \in [Id -> Version \cup {Absent}]
      /\ saves \in [Saver -> SUBSET Entry]
      /\ \A n \in Version : n \in Int
      /\ db \in [Id -> Version]
  BY ObjectCacheType, CleanerAssumption
     DEF ObjectTypeOK, PipelineTypeOK, Version, CleanerAssumption
<1>2. /\ \A i \in Id : cache[i] # Absent => cache[i] \in Int
      /\ \A s \in Saver : \A e \in saves[s] : e.id \in Id /\ e.value \in Int
  BY <1>1 DEF Entry
<1>3. CASE PipelineNext /\ UNCHANGED objectReaderVars
  <2>1. /\ \A i \in Id : cache'[i] = cache[i] \/ cache'[i] = Absent
        /\ \A i \in Id : db[i] \in Int /\ db'[i] \in Int /\ db[i] <= db'[i]
    <3>1. ASSUME NEW k \in Id, AsChange(k)
          PROVE  cache' = cache /\ \A i \in Id : db'[i] \in Int /\ db[i] <= db'[i]
      BY <1>1, <3>1 DEF AsChange
    <3>2. ASSUME NEW k \in Id, AsDelete(k)
          PROVE  db' = db /\ \A i \in Id : cache'[i] = cache[i] \/ cache'[i] = Absent
      BY <1>1, <3>2 DEF AsDelete
    <3>3. AsLose => db' = db /\ cache' = cache
      BY DEF AsLose
    <3>4. \A i \in Id : db[i] \in Int
      BY <1>1
    <3> QED
      BY <1>1, <1>3, <3>1, <3>2, <3>3, <3>4, PipelineAbstract
  <2>2. \A i \in Id : cache'[i] # Absent => cache'[i] <= db'[i]
    BY <1>2, <2>1 DEF ObjectNotAhead
  <2>3. \A s \in Saver : \A e \in saves'[s] : e.value <= db'[e.id]
    BY <1>2, <1>3, <2>1 DEF ObjectNotAhead, objectReaderVars
  <2> QED
    BY <2>2, <2>3 DEF ObjectNotAhead
<1>4. CASE ObjectReaderStep \/ UNCHANGED objectVars
  <2>1. db' = db
    BY <1>4, ObjectReaderFrame
  <2>2. ASSUME NEW r \in Reader, GetFromDataSource(r) PROVE ObjectNotAhead'
    <3>1. PICK i \in reading[r], s \in Saver :
             /\ saves' = [saves EXCEPT ![s] = {[id |-> i, value |-> db[i]]}]
             /\ cache' = cache
      BY <2>2 DEF GetFromDataSource, pipelineVars
    <3>2. db[i] <= db[i]
      BY <1>1 DEF ObjectTypeOK
    <3> QED
      BY <1>1, <2>1, <3>1, <3>2 DEF ObjectNotAhead
  <2>3. ASSUME NEW s \in Saver, saveToRedis(s) PROVE ObjectNotAhead'
    <3>1. PICK e \in saves[s] : /\ cache' = [cache EXCEPT ![e.id] = e.value]
                                /\ saves' = [saves EXCEPT ![s] = {}]
      BY <2>3 DEF saveToRedis
    <3> QED
      BY <1>1, <2>1, <3>1 DEF ObjectNotAhead
  <2>4. ASSUME NEW s \in Saver, saveFails(s) PROVE ObjectNotAhead'
    BY <1>1, <2>1, <2>4 DEF saveFails, ObjectNotAhead, pipelineVars
  <2>5. ASSUME NEW i \in Id, ObjectExpires(i) PROVE ObjectNotAhead'
    BY <1>1, <2>1, <2>5 DEF ObjectExpires, ObjectNotAhead, objectReaderVars
  <2>6. CASE UNCHANGED <<cache, saves>>
    BY <2>1, <2>6 DEF ObjectNotAhead
  <2>7. UNCHANGED objectVars => UNCHANGED <<cache, saves>>
    BY DEF objectVars, pipelineVars, objectReaderVars
  <2> QED
    BY <1>4, <2>2, <2>3, <2>4, <2>5, <2>6, <2>7
       DEF ObjectReaderStep, ObjectHit, ObjectMiss, GetFails, pipelineVars
<1> QED
  BY <1>3, <1>4 DEF ObjectNext

\* ObjectNotAhead is an invariant.
LEMMA ObjectNeverAhead == ObjectSpec => []ObjectNotAhead
<1>1. ObjectInit => ObjectNotAhead
  BY DEF ObjectInit, PipelineInit, ObjectNotAhead
<1> QED
  BY <1>1, ObjectTypeCorrect, ObjectDrainInvariant, ObjectNotAheadStep, PTL DEF ObjectSpec

\* Every step of the pipeline is one of InvalidatedCache, or a stutter of it.
LEMMA ObjectsPipelineStep ==
  ASSUME ObjectTypeOK, DrainInv, ObjectNotAhead, PipelineNext, bornStale' = bornStale
  PROVE  Objects!Next
<1>1. /\ PipelineTypeOK /\ cache \in [Id -> Version \cup {Absent}] /\ db \in [Id -> Version]
      /\ \A n \in Version : n \in Int
  BY ObjectCacheType, CleanerAssumption DEF PipelineTypeOK, Version, CleanerAssumption
<1>2. ASSUME NEW i \in Id, AsChange(i) PROVE Objects!Change(i)
  <2>1. /\ \A k \in Id : k # i => db'[k] = db[k]
        /\ db'[i] = db[i] + 1 /\ db[i] \in Int /\ cache' = cache
        /\ UnderWay' = UnderWay \cup {i} /\ (failed \cup dropped)' = failed \cup dropped
    BY <1>1, <1>2 DEF AsChange, Lost
  <2>2. cache[i] # Absent => cache[i] \in Int /\ cache[i] < db'[i]
    BY <1>1, <2>1 DEF ObjectNotAhead
  <2>3. \A k \in Id : Stale(k)' <=> Stale(k) \/ (k = i /\ cache[i] # Absent)
    BY <2>1, <2>2 DEF Stale
  <2>4. {k \in Id : Stale(k)}' =
           {k \in Id : Stale(k)} \cup ({k \in Id : cache[k] # Absent} \cap {i})
    BY <2>3
  <2> QED
    BY <2>1, <2>4 DEF Objects!Change
<1>3. ASSUME NEW i \in Id, AsDelete(i) PROVE Objects!Delete(i)
  <2>1. /\ cache'[i] = Absent /\ \A k \in Id : k # i => cache'[k] = cache[k]
        /\ db' = db /\ (failed \cup dropped)' = failed \cup dropped
        /\ i \in UnderWay /\ UnderWay' \in {UnderWay, UnderWay \ {i}}
    BY <1>1, <1>3 DEF AsDelete, Lost
  <2>2. /\ {k \in Id : cache[k] # Absent}' = {k \in Id : cache[k] # Absent} \ {i}
        /\ {k \in Id : Stale(k)}' = {k \in Id : Stale(k)} \ {i}
    BY <2>1 DEF Stale
  <2> QED
    BY <2>1, <2>2 DEF Objects!Delete
<1>4. AsLose => Objects!Lose
  BY DEF AsLose, Objects!Lose, Lost, Stale
<1> QED
  BY <1>1, <1>2, <1>3, <1>4, PipelineAbstract DEF Objects!Next

\* Every step of the readers is one of InvalidatedCache, or a stutter of it.
LEMMA ObjectsReaderStep ==
  ASSUME ObjectTypeOK, ObjectReaderStep \/ UNCHANGED objectVars
  PROVE  [Objects!Next]_(Objects!vars)
<1>1. /\ db' = db /\ UNCHANGED <<failed, dropped>> /\ UnderWay' = UnderWay
  <2>1. UNCHANGED <<db, pubVars, chanVars, cleanerVars, shutdown, failed, dropped>>
    BY ObjectReaderFrame
  <2> QED
    BY <2>1, UnderWaySame DEF UnderWay
<1>2. CASE UNCHANGED <<cache, bornStale>>
  BY <1>1, <1>2 DEF Objects!vars, Stale
<1>3. UNCHANGED objectVars => UNCHANGED <<cache, bornStale>>
  BY DEF objectVars, pipelineVars, objectReaderVars
<1>4. ASSUME NEW s \in Saver, saveToRedis(s) PROVE Objects!Next
  <2>1. PICK e \in saves[s] :
           /\ cache' = [cache EXCEPT ![e.id] = e.value]
           /\ bornStale' = IF e.value < db[e.id] THEN bornStale \cup {e.id}
                                                 ELSE bornStale \ {e.id}
    BY <1>4 DEF saveToRedis
  <2>2. e.id \in Id /\ e.value # Absent
    BY CleanerAssumption DEF ObjectTypeOK, Entry, CleanerAssumption, Version
  <2>3. cache'[e.id] = e.value /\ \A k \in Id : k # e.id => cache'[k] = cache[k]
    BY <2>1, <2>2 DEF ObjectTypeOK
  <2>4. {k \in Id : cache[k] # Absent}' = {k \in Id : cache[k] # Absent} \cup {e.id}
    BY <2>2, <2>3
  <2>5. CASE e.value < db[e.id]
    <3>1. {k \in Id : Stale(k)}' = {k \in Id : Stale(k)} \cup {e.id}
      BY <1>1, <2>2, <2>3, <2>5 DEF Stale
    <3>2. Objects!FillOld(e.id)
      BY <1>1, <2>1, <2>4, <2>5, <3>1 DEF Objects!FillOld
    <3> QED
      BY <2>2, <3>2 DEF Objects!Next
  <2>6. CASE ~(e.value < db[e.id])
    <3>1. {k \in Id : Stale(k)}' = {k \in Id : Stale(k)} \ {e.id}
      BY <1>1, <2>2, <2>3, <2>6 DEF Stale
    <3>2. Objects!FillFresh(e.id)
      BY <1>1, <2>1, <2>4, <2>6, <3>1 DEF Objects!FillFresh
    <3> QED
      BY <2>2, <3>2 DEF Objects!Next
  <2> QED
    BY <2>5, <2>6
<1>5. ASSUME NEW i \in Id, ObjectExpires(i) PROVE Objects!Next
  <2>1. /\ cache'[i] = Absent /\ (\A k \in Id : k # i => cache'[k] = cache[k])
        /\ bornStale' = bornStale
    BY <1>5 DEF ObjectExpires, ObjectTypeOK, objectReaderVars
  <2>2. /\ {k \in Id : cache[k] # Absent}' = {k \in Id : cache[k] # Absent} \ {i}
        /\ {k \in Id : Stale(k)}' = {k \in Id : Stale(k)} \ {i}
    BY <1>1, <2>1 DEF Stale
  <2>3. Objects!Expires(i)
    BY <1>1, <2>1, <2>2 DEF Objects!Expires
  <2> QED
    BY <2>3 DEF Objects!Next
<1> QED
  BY <1>2, <1>3, <1>4, <1>5
     DEF ObjectReaderStep, ObjectHit, ObjectMiss, GetFromDataSource, GetFails, saveFails,
         pipelineVars, objectReaderVars

\* The object cache implements InvalidatedCache: from outside, channel, batches, goroutines
\* and shutdown can only send for, do, or lose a deletion, and saves only fill.
THEOREM ObjectCacheImplements == ObjectSpec => ObjectsSpec
<1>1. ObjectInit => Objects!Init
  <2> SUFFICES ASSUME ObjectInit PROVE Objects!Init
    OBVIOUS
  <2>1. UnderWay = {}
    BY ToSetEmpty DEF ObjectInit, PipelineInit, UnderWay, InvalidationUnderWay
  <2> QED
    BY <2>1 DEF ObjectInit, PipelineInit, Objects!Init, Stale
<1>2. ObjectTypeOK /\ DrainInv /\ ObjectNotAhead /\ [ObjectNext]_objectVars
        => [Objects!Next]_(Objects!vars)
  <2> SUFFICES ASSUME ObjectTypeOK, DrainInv, ObjectNotAhead, [ObjectNext]_objectVars
               PROVE  [Objects!Next]_(Objects!vars)
    OBVIOUS
  <2>1. CASE PipelineNext /\ UNCHANGED objectReaderVars
    BY <2>1, ObjectsPipelineStep DEF objectReaderVars
  <2>2. CASE ObjectReaderStep \/ UNCHANGED objectVars
    BY <2>2, ObjectsReaderStep
  <2> QED
    BY <2>1, <2>2 DEF ObjectNext
<1> QED
  BY <1>1, <1>2, ObjectTypeCorrect, ObjectDrainInvariant, ObjectNeverAhead, PTL
     DEF ObjectSpec, ObjectsSpec, Objects!Spec

\* So every cached value that went out of date has its invalidation under way,
\* has been set late, or its deletion failed or the cleaner did not take its event:
\* from Publish to DEL no step of the pipeline forgets one.
THEOREM NoInvalidationForgotten == ObjectSpec => []StaleIsUnderWay
<1>1. Objects!NothingForgotten => StaleIsUnderWay
  BY DEF Objects!NothingForgotten, StaleIsUnderWay, UnderWay
<1> QED
  BY <1>1, ObjectCacheImplements, Objects!ForgetsNothing, PTL DEF ObjectsSpec

(***************************************************************************)
(* The slice cache.                                                        *)
(***************************************************************************)

(***************************************************************************)
(* Types.                                                                  *)
(***************************************************************************)

\* Initially every variable has its type.
LEMMA SliceTypeInit == SliceInit => SliceTypeOK
<1> SUFFICES ASSUME SliceInit PROVE SliceTypeOK
  OBVIOUS
<1>1. PipelineTypeOK
  BY PipelineTypeInit DEF SliceInit
<1>2. 0 \in Version
  BY CleanerAssumption DEF CleanerAssumption, Version
<1> QED
  BY <1>1, <1>2 DEF SliceInit, PipelineInit, SliceTypeOK

\* The types as the lemmas of the pipeline need them.
LEMMA SliceCacheType == SliceTypeOK => PipelineTypeOK /\ cache \in [Id -> Key \cup {Absent}]
BY DEF SliceTypeOK

\* The steps of the readers leave the pipeline alone, but for the cache itself.
LEMMA SliceReaderFrame ==
  SliceReaderStep \/ UNCHANGED sliceVars =>
    UNCHANGED <<db, pubVars, chanVars, cleanerVars, shutdown, failed, dropped>>
BY DEF SliceReaderStep, ReloadStep, SliceHit, SliceMiss, GetFromSource, reloadRedisIfNotExists,
       ReloadFails, ReadSource, ZAdd, ZAddFails, Expire, ExpireFails, KeyExpires,
       sliceVars, pipelineVars, pubVars, chanVars, cleanerVars

\* What ZADD leaves under a key is a key with the new version in it.
LEMMA AddedType ==
  ASSUME NEW c \in Key \cup {Absent}, NEW v \in Version
  PROVE  Added(c, v) \in Key
<1>1. CASE c = Absent
  <2>1. {v} \in (SUBSET Version) \ {{}}
    OBVIOUS
  <2> QED
    BY <1>1, <2>1 DEF Added, Key
<1>2. CASE c # Absent
  <2>1. c \in Key /\ c.versions \cup {v} \in (SUBSET Version) \ {{}}
    BY <1>2 DEF Key
  <2> QED
    BY <1>2, <2>1 DEF Added, Key
<1> QED
  BY <1>1, <1>2

\* Every step of the readers keeps the types.
LEMMA SliceReaderTypeStep == SliceTypeOK /\ SliceReaderStep => SliceTypeOK'
<1> SUFFICES ASSUME SliceTypeOK, SliceReaderStep PROVE SliceTypeOK'
  OBVIOUS
<1> USE DEF SliceTypeOK, Goto, sliceReaderVars, pipelineVars
<1>1. PipelineTypeOK'
  <2> HIDE DEF SliceTypeOK
  <2> QED
    BY SliceCacheType, SliceReaderFrame, PipelineTypeSame
<1>2. db \in [Id -> Version]
  BY DEF PipelineTypeOK, Version
<1>3. ASSUME NEW i \in Id, SliceHit(i) \/ GetFromSource(i) PROVE SliceTypeOK'
  BY <1>1, <1>3 DEF SliceHit, GetFromSource, sliceVars
<1>4. ASSUME NEW i \in Id, SliceMiss(i) PROVE SliceTypeOK'
  BY <1>1, <1>4 DEF SliceMiss
<1>5. ASSUME NEW i \in Id, KeyExpires(i) PROVE SliceTypeOK'
  BY <1>1, <1>5 DEF KeyExpires
<1>6. ASSUME NEW k \in Reloader, reloadRedisIfNotExists(k) PROVE SliceTypeOK'
  BY <1>1, <1>6 DEF reloadRedisIfNotExists
<1>7. ASSUME NEW k \in Reloader, ReloadFails(k) PROVE SliceTypeOK'
  BY <1>1, <1>7 DEF ReloadFails
<1>8. ASSUME NEW k \in Reloader, ReadSource(k) PROVE SliceTypeOK'
  BY <1>1, <1>2, <1>8 DEF ReadSource
<1>9. ASSUME NEW k \in Reloader, ZAdd(k) PROVE SliceTypeOK'
  <2>1. Added(cache[target[k]], loaded[k]) \in Key
    BY AddedType
  <2>2. cache' \in [Id -> Key \cup {Absent}]
    BY <1>9, <2>1 DEF ZAdd
  <2> QED
    BY <1>1, <1>9, <2>2 DEF ZAdd
<1>10. ASSUME NEW k \in Reloader, ZAddFails(k) PROVE SliceTypeOK'
  BY <1>1, <1>10 DEF ZAddFails
<1>11. ASSUME NEW k \in Reloader, Expire(k) PROVE SliceTypeOK'
  <2>1. cache[target[k]] # Absent => [cache[target[k]] EXCEPT !.expires = TRUE] \in Key
    BY DEF Key
  <2>2. cache' \in [Id -> Key \cup {Absent}]
    BY <1>11, <2>1 DEF Expire
  <2> QED
    BY <1>1, <1>11, <2>2 DEF Expire
<1>12. ASSUME NEW k \in Reloader, ExpireFails(k) PROVE SliceTypeOK'
  BY <1>1, <1>12 DEF ExpireFails
<1> QED
  BY <1>3, <1>4, <1>5, <1>6, <1>7, <1>8, <1>9, <1>10, <1>11, <1>12
     DEF SliceReaderStep, ReloadStep

\* Every step keeps the types.
LEMMA SliceTypeStep == SliceTypeOK /\ [SliceNext]_sliceVars => SliceTypeOK'
<1> SUFFICES ASSUME SliceTypeOK, [SliceNext]_sliceVars PROVE SliceTypeOK'
  OBVIOUS
<1>1. CASE PipelineNext /\ UNCHANGED sliceReaderVars
  <2>1. PipelineTypeOK'
    BY <1>1, SliceCacheType, PipelineTypeStep
  <2>2. cache' \in [Id -> Key \cup {Absent}]
    <3>1. /\ PipelineTypeOK /\ cache \in [Id -> Key \cup {Absent}]
          /\ Absent \in Key \cup {Absent}
      BY SliceCacheType
    <3> QED
      BY <1>1, <3>1, PipelineFrame
  <2> QED
    BY <1>1, <2>1, <2>2 DEF SliceTypeOK, sliceReaderVars
<1>2. CASE SliceReaderStep
  BY <1>2, SliceReaderTypeStep
<1>3. CASE UNCHANGED sliceVars
  <2>1. PipelineTypeOK'
    BY <1>3, SliceCacheType, SliceReaderFrame, PipelineTypeSame
  <2> QED
    BY <1>3, <2>1 DEF SliceTypeOK, sliceVars, pipelineVars, sliceReaderVars
<1> QED
  BY <1>1, <1>2, <1>3 DEF SliceNext

\* Every variable has its type, in every reachable state.
THEOREM SliceTypeCorrect == SliceSpec => []SliceTypeOK
BY SliceTypeInit, SliceTypeStep, PTL DEF SliceSpec

(***************************************************************************)
(* The shutdown waits for the cleaner to drain the channel.                *)
(***************************************************************************)

\* DrainInv is an invariant.
LEMMA SliceDrainInvariant == SliceSpec => []DrainInv
<1>1. SliceInit => DrainInv
  BY DEF SliceInit, PipelineInit, DrainInv
<1>2. SliceTypeOK /\ DrainInv /\ [SliceNext]_sliceVars => DrainInv'
  <2>1. CASE PipelineNext
    BY <2>1, SliceCacheType, DrainStep
  <2>2. CASE SliceReaderStep \/ UNCHANGED sliceVars
    BY <2>2, SliceReaderFrame DEF DrainInv, chanVars, cleanerVars
  <2> QED
    BY <2>1, <2>2 DEF SliceNext
<1> QED
  BY <1>1, <1>2, SliceTypeCorrect, PTL DEF SliceSpec

\* When the shutdown function of a slice cache proxy returns, every event its channel
\* accepted has been handed to delKeys, too (slice_cache_proxy.go:97-103, 185-193).
THEOREM SliceShutdownDrains == SliceSpec => []DrainedWhenClosed
BY DrainInvDrained, SliceDrainInvariant, PTL

(***************************************************************************)
(* The slice cache is an InvalidatedCache, too.                            *)
(***************************************************************************)

\* Redis and the reloads are never ahead of the data source.
SliceNotAhead ==
    /\ \A i \in Id : cache[i] # Absent => \A v \in cache[i].versions : v <= db[i]
    /\ \A k \in Reloader : at[k] = "zadd" => loaded[k] <= db[target[k]]

\* What ZADD leaves under a key has the versions that were there, and the new one.
LEMMA AddedVersions ==
  ASSUME NEW c \in Key \cup {Absent}, NEW v
  PROVE  Added(c, v).versions = (IF c = Absent THEN {} ELSE c.versions) \cup {v}
BY DEF Added, Key

\* Every step keeps SliceNotAhead, as versions only grow.
LEMMA SliceNotAheadStep ==
  SliceTypeOK /\ DrainInv /\ SliceNotAhead /\ [SliceNext]_sliceVars => SliceNotAhead'
<1> SUFFICES ASSUME SliceTypeOK, DrainInv, SliceNotAhead, [SliceNext]_sliceVars
             PROVE  SliceNotAhead'
  OBVIOUS
<1>1. /\ PipelineTypeOK /\ cache \in [Id -> Key \cup {Absent}]
      /\ db \in [Id -> Version] /\ loaded \in [Reloader -> Version]
      /\ target \in [Reloader -> Id] /\ \A n \in Version : n \in Int
      /\ at \in [Reloader -> {"idle", "exists", "source", "zadd", "expire"}]
  BY SliceCacheType, CleanerAssumption
     DEF SliceTypeOK, PipelineTypeOK, Version, CleanerAssumption
<1>2. /\ \A i \in Id : cache[i] # Absent => \A v \in cache[i].versions : v \in Int
      /\ \A k \in Reloader : loaded[k] \in Int /\ target[k] \in Id
      /\ \A i \in Id : db[i] \in Int
  BY <1>1 DEF Key
<1>3. CASE PipelineNext /\ UNCHANGED sliceReaderVars
  <2>1. /\ \A i \in Id : cache'[i] = cache[i] \/ cache'[i] = Absent
        /\ \A i \in Id : db'[i] \in Int /\ db[i] <= db'[i]
    <3>1. ASSUME NEW k \in Id, AsChange(k)
          PROVE  cache' = cache /\ \A i \in Id : db'[i] \in Int /\ db[i] <= db'[i]
      BY <1>1, <3>1 DEF AsChange
    <3>2. ASSUME NEW k \in Id, AsDelete(k)
          PROVE  db' = db /\ \A i \in Id : cache'[i] = cache[i] \/ cache'[i] = Absent
      BY <1>1, <3>2 DEF AsDelete
    <3>3. AsLose => db' = db /\ cache' = cache
      BY DEF AsLose
    <3> QED
      BY <1>1, <1>2, <1>3, <3>1, <3>2, <3>3, PipelineAbstract
  <2>2. \A i \in Id : cache'[i] # Absent => \A v \in cache'[i].versions : v <= db'[i]
    BY <1>2, <2>1 DEF SliceNotAhead
  <2>3. \A k \in Reloader : at'[k] = "zadd" => loaded'[k] <= db'[target'[k]]
    BY <1>2, <1>3, <2>1 DEF SliceNotAhead, sliceReaderVars
  <2> QED
    BY <2>2, <2>3 DEF SliceNotAhead
<1>4. CASE SliceReaderStep \/ UNCHANGED sliceVars
  <2>1. db' = db
    BY <1>4, SliceReaderFrame
  <2>2. ASSUME NEW k \in Reloader, ZAdd(k) PROVE SliceNotAhead'
    <3>1. /\ at[k] = "zadd" /\ loaded[k] <= db[target[k]]
          /\ cache' = [cache EXCEPT ![target[k]] = Added(cache[target[k]], loaded[k])]
          /\ at' = [at EXCEPT ![k] = "expire"] /\ UNCHANGED <<target, loaded>>
      BY <2>2 DEF ZAdd, Goto, SliceNotAhead
    <3>2. /\ cache'[target[k]].versions =
                (IF cache[target[k]] = Absent THEN {} ELSE cache[target[k]].versions)
                   \cup {loaded[k]}
          /\ \A i \in Id : i # target[k] => cache'[i] = cache[i]
      BY <1>1, <1>2, <3>1, AddedVersions
    <3>3. \A i \in Id : cache'[i] # Absent => \A v \in cache'[i].versions : v <= db[i]
      BY <1>2, <3>1, <3>2 DEF SliceNotAhead
    <3>4. \A n \in Reloader : at'[n] = "zadd" => at[n] = "zadd"
      BY <1>1, <3>1
    <3> QED
      BY <2>1, <3>1, <3>3, <3>4 DEF SliceNotAhead
  <2>3. ASSUME NEW k \in Reloader, ReadSource(k) PROVE SliceNotAhead'
    <3>1. /\ at' = [at EXCEPT ![k] = "zadd"] /\ UNCHANGED <<cache, target>>
          /\ loaded' = [loaded EXCEPT ![k] = db[target[k]]]
      BY <2>3 DEF ReadSource, Goto, pipelineVars
    <3>2. /\ loaded'[k] <= db[target[k]]
          /\ \A n \in Reloader : n # k => loaded'[n] = loaded[n] /\ at'[n] = at[n]
      BY <1>1, <1>2, <3>1
    <3> QED
      BY <2>1, <3>1, <3>2 DEF SliceNotAhead
  <2>4. ASSUME NEW i \in Id, SliceMiss(i) PROVE SliceNotAhead'
    <3>1. PICK k \in Reloader :
             /\ at' = [at EXCEPT ![k] = "exists"] /\ target' = [target EXCEPT ![k] = i]
             /\ UNCHANGED <<cache, loaded>>
      BY <2>4 DEF SliceMiss, pipelineVars
    <3>2. /\ at'[k] = "exists"
          /\ \A n \in Reloader : n # k => at'[n] = at[n] /\ target'[n] = target[n]
      BY <1>1, <3>1
    <3> QED
      BY <2>1, <3>1, <3>2 DEF SliceNotAhead
  <2>5. ASSUME NEW k \in Reloader,
               \/ at' = [at EXCEPT ![k] = "idle"] \/ at' = [at EXCEPT ![k] = "expire"]
               \/ at' = [at EXCEPT ![k] = "source"],
               UNCHANGED <<target, loaded>>,
               \A i \in Id : cache'[i] # Absent =>
                  cache[i] # Absent /\ cache'[i].versions = cache[i].versions
        PROVE  SliceNotAhead'
    <3>1. \A n \in Reloader : at'[n] = "zadd" => at[n] = "zadd"
      BY <1>1, <2>5
    <3> QED
      BY <2>1, <2>5, <3>1 DEF SliceNotAhead
  <2>6. ASSUME NEW k \in Reloader, reloadRedisIfNotExists(k) \/ ReloadFails(k)
                                     \/ ZAddFails(k) \/ ExpireFails(k)
        PROVE  SliceNotAhead'
    BY <2>5, <2>6 DEF reloadRedisIfNotExists, ReloadFails, ZAddFails, ExpireFails, Goto,
                      pipelineVars
  <2>7. ASSUME NEW k \in Reloader, Expire(k) PROVE SliceNotAhead'
    <3>1. \A i \in Id : cache'[i] # Absent =>
             cache[i] # Absent /\ cache'[i].versions = cache[i].versions
      BY <1>1, <2>7 DEF Expire, Key
    <3> QED
      BY <2>5, <2>7, <3>1 DEF Expire, Goto
  <2>8. ASSUME NEW i \in Id, KeyExpires(i) PROVE SliceNotAhead'
    BY <1>1, <2>1, <2>8 DEF KeyExpires, SliceNotAhead, sliceReaderVars
  <2>9. CASE UNCHANGED sliceVars
    BY <2>1, <2>9 DEF SliceNotAhead, sliceVars, pipelineVars, sliceReaderVars
  <2>10. ASSUME NEW i \in Id, SliceHit(i) \/ GetFromSource(i) PROVE UNCHANGED sliceVars
    BY <2>10 DEF SliceHit, GetFromSource
  <2> QED
    BY <1>4, <2>2, <2>3, <2>4, <2>6, <2>7, <2>8, <2>9, <2>10
       DEF SliceReaderStep, ReloadStep
<1> QED
  BY <1>3, <1>4 DEF SliceNext

\* SliceNotAhead is an invariant.
LEMMA SliceNeverAhead == SliceSpec => []SliceNotAhead
<1>1. SliceInit => SliceNotAhead
  BY DEF SliceInit, PipelineInit, SliceNotAhead
<1> QED
  BY <1>1, SliceTypeCorrect, SliceDrainInvariant, SliceNotAheadStep, PTL DEF SliceSpec

\* Every step of the pipeline is one of InvalidatedCache, or a stutter of it.
LEMMA ListsPipelineStep ==
  ASSUME SliceTypeOK, DrainInv, SliceNotAhead, PipelineNext, bornStale' = bornStale
  PROVE  Lists!Next
<1>1. /\ PipelineTypeOK /\ cache \in [Id -> Key \cup {Absent}] /\ db \in [Id -> Version]
      /\ \A n \in Version : n \in Int
  BY SliceCacheType, CleanerAssumption DEF PipelineTypeOK, Version, CleanerAssumption
<1>2. ASSUME NEW i \in Id, AsChange(i) PROVE Lists!Change(i)
  <2>1. /\ \A k \in Id : k # i => db'[k] = db[k]
        /\ db'[i] = db[i] + 1 /\ db[i] \in Int /\ cache' = cache
        /\ UnderWay' = UnderWay \cup {i} /\ (failed \cup dropped)' = failed \cup dropped
    BY <1>1, <1>2 DEF AsChange, Lost
  <2>2. cache[i] # Absent =>
           cache[i].versions # {} /\ \A v \in cache[i].versions : v \in Int /\ v < db'[i]
    BY <1>1, <2>1 DEF SliceNotAhead, Key
  <2>3. \A k \in Id : OldIn(k)' <=> OldIn(k) \/ (k = i /\ cache[i] # Absent)
    BY <2>1, <2>2 DEF OldIn
  <2>4. {k \in Id : OldIn(k)}' =
           {k \in Id : OldIn(k)} \cup ({k \in Id : cache[k] # Absent} \cap {i})
    BY <2>3
  <2> QED
    BY <2>1, <2>4 DEF Lists!Change
<1>3. ASSUME NEW i \in Id, AsDelete(i) PROVE Lists!Delete(i)
  <2>1. /\ cache'[i] = Absent /\ \A k \in Id : k # i => cache'[k] = cache[k]
        /\ db' = db /\ (failed \cup dropped)' = failed \cup dropped
        /\ i \in UnderWay /\ UnderWay' \in {UnderWay, UnderWay \ {i}}
    BY <1>1, <1>3 DEF AsDelete, Lost
  <2>2. /\ {k \in Id : cache[k] # Absent}' = {k \in Id : cache[k] # Absent} \ {i}
        /\ {k \in Id : OldIn(k)}' = {k \in Id : OldIn(k)} \ {i}
    BY <2>1 DEF OldIn
  <2> QED
    BY <2>1, <2>2 DEF Lists!Delete
<1>4. AsLose => Lists!Lose
  BY DEF AsLose, Lists!Lose, Lost, OldIn
<1> QED
  BY <1>1, <1>2, <1>3, <1>4, PipelineAbstract DEF Lists!Next

\* What a step that takes the key of i away, and no other, is to InvalidatedCache.
LEMMA ListsExpires ==
  ASSUME SliceTypeOK, NEW i \in Id, cache' = [cache EXCEPT ![i] = Absent],
         UNCHANGED <<db, bornStale, failed, dropped>>, UnderWay' = UnderWay
  PROVE  Lists!Next
<1>1. cache'[i] = Absent /\ \A k \in Id : k # i => cache'[k] = cache[k]
  BY DEF SliceTypeOK
<1>2. /\ {k \in Id : cache[k] # Absent}' = {k \in Id : cache[k] # Absent} \ {i}
      /\ {k \in Id : OldIn(k)}' = {k \in Id : OldIn(k)} \ {i}
  BY <1>1 DEF OldIn
<1>3. Lists!Expires(i)
  BY <1>2 DEF Lists!Expires
<1> QED
  BY <1>3 DEF Lists!Next

\* ZADD fills: with a version that is current, or with one that is out of date; or it adds
\* the current version to a key, which is as old then as it was.
LEMMA ListsZAdd ==
  ASSUME SliceTypeOK, SliceNotAhead, NEW r \in Reloader, ZAdd(r), UnderWay' = UnderWay
  PROVE  [Lists!Next]_(Lists!vars)
<1>0. PICK i \in Id, v \in Version : i = target[r] /\ v = loaded[r]
  BY DEF SliceTypeOK
<1>1. /\ i \in Id /\ v \in Version /\ db[i] \in Version /\ v <= db[i]
      /\ cache[i] \in Key \cup {Absent} /\ \A n \in Version : n \in Int
  BY <1>0, CleanerAssumption
     DEF SliceTypeOK, PipelineTypeOK, SliceNotAhead, ZAdd, Version, CleanerAssumption
<1>2. /\ cache' = [cache EXCEPT ![i] = Added(@, v)] /\ UNCHANGED <<db, failed, dropped>>
      /\ bornStale' = IF v < db[i] THEN bornStale \cup {i}
                      ELSE IF cache[i] = Absent THEN bornStale \ {i} ELSE bornStale
  BY <1>0 DEF ZAdd
<1>3. /\ cache'[i].versions = (IF cache[i] = Absent THEN {} ELSE cache[i].versions) \cup {v}
      /\ cache'[i] # Absent /\ \A k \in Id : k # i => cache'[k] = cache[k]
  <2>1. cache'[i] = Added(cache[i], v) /\ \A k \in Id : k # i => cache'[k] = cache[k]
    BY <1>1, <1>2 DEF SliceTypeOK
  <2>2. Added(cache[i], v) # Absent
    BY <1>1, AddedType, AbsentAssumption
  <2> QED
    BY <1>1, <2>1, <2>2, AddedVersions
<1>4. {k \in Id : cache[k] # Absent}' = {k \in Id : cache[k] # Absent} \cup {i}
  BY <1>1, <1>3
<1>5. CASE v < db[i]
  <2>1. {k \in Id : OldIn(k)}' = {k \in Id : OldIn(k)} \cup {i}
    BY <1>1, <1>2, <1>3, <1>5 DEF OldIn
  <2>2. Lists!FillOld(i)
    BY <1>2, <1>4, <1>5, <2>1 DEF Lists!FillOld
  <2>3. Lists!Next
    BY <1>1, <2>2 DEF Lists!Next
  <2> QED
    BY <2>3
<1>6. CASE ~(v < db[i]) /\ cache[i] = Absent
  <2>1. {k \in Id : OldIn(k)}' = {k \in Id : OldIn(k)} \ {i}
    BY <1>1, <1>2, <1>3, <1>6 DEF OldIn
  <2>2. Lists!FillFresh(i)
    BY <1>2, <1>4, <1>6, <2>1 DEF Lists!FillFresh
  <2>3. Lists!Next
    BY <1>1, <2>2 DEF Lists!Next
  <2> QED
    BY <2>3
<1>7. CASE ~(v < db[i]) /\ cache[i] # Absent
  <2>1. /\ {k \in Id : OldIn(k)}' = {k \in Id : OldIn(k)}
        /\ {k \in Id : cache[k] # Absent}' = {k \in Id : cache[k] # Absent}
    BY <1>1, <1>2, <1>3, <1>4, <1>7 DEF OldIn
  <2> QED
    BY <1>2, <1>7, <2>1 DEF Lists!vars
<1> QED
  BY <1>5, <1>6, <1>7

\* Every step of the readers is one of InvalidatedCache, or a stutter of it.
LEMMA ListsReaderStep ==
  ASSUME SliceTypeOK, SliceNotAhead, SliceReaderStep \/ UNCHANGED sliceVars
  PROVE  [Lists!Next]_(Lists!vars)
<1>1. /\ db' = db /\ UNCHANGED <<failed, dropped>> /\ UnderWay' = UnderWay
  <2>1. UNCHANGED <<db, pubVars, chanVars, cleanerVars, shutdown, failed, dropped>>
    BY SliceReaderFrame
  <2> QED
    BY <2>1, UnderWaySame DEF UnderWay
<1>2. CASE UNCHANGED <<cache, bornStale>>
  BY <1>1, <1>2 DEF Lists!vars, OldIn
<1>3. UNCHANGED sliceVars => UNCHANGED <<cache, bornStale>>
  BY DEF sliceVars, pipelineVars, sliceReaderVars
<1>4. ASSUME NEW k \in Reloader, ZAdd(k) PROVE [Lists!Next]_(Lists!vars)
  BY <1>1, <1>4, ListsZAdd
<1>5. ASSUME NEW k \in Reloader, Expire(k) PROVE [Lists!Next]_(Lists!vars)
  <2>1. target[k] \in Id /\ bornStale' = bornStale
    BY <1>5 DEF SliceTypeOK, Expire
  <2>2. CASE cache[target[k]] = Absent
    BY <1>2, <1>5, <2>1, <2>2 DEF Expire
  <2>3. CASE cache[target[k]] # Absent /\ ExpireTime = 0
    <3>1. cache' = [cache EXCEPT ![target[k]] = Absent]
      BY <1>5, <2>3 DEF Expire
    <3> QED
      BY <1>1, <2>1, <3>1, ListsExpires
  <2>4. CASE cache[target[k]] # Absent /\ ExpireTime # 0
    <3>1. cache' = [cache EXCEPT ![target[k]].expires = TRUE]
      BY <1>5, <2>4 DEF Expire
    <3>2. \A i \in Id : /\ cache'[i] # Absent <=> cache[i] # Absent
                        /\ cache[i] # Absent => cache'[i].versions = cache[i].versions
      <4>1. [cache[target[k]] EXCEPT !.expires = TRUE] \in Key
        BY <2>1, <2>4 DEF SliceTypeOK, Key
      <4> QED
        BY <2>1, <2>4, <3>1, <4>1, AbsentAssumption DEF SliceTypeOK, Key
    <3>3. /\ {i \in Id : OldIn(i)}' = {i \in Id : OldIn(i)}
          /\ {i \in Id : cache[i] # Absent}' = {i \in Id : cache[i] # Absent}
      BY <1>1, <3>2 DEF OldIn
    <3> QED
      BY <1>1, <2>1, <3>3 DEF Lists!vars
  <2> QED
    BY <2>2, <2>3, <2>4
<1>6. ASSUME NEW i \in Id, KeyExpires(i) PROVE Lists!Next
  <2>1. cache' = [cache EXCEPT ![i] = Absent] /\ bornStale' = bornStale
    BY <1>6 DEF KeyExpires, sliceReaderVars
  <2> QED
    BY <1>1, <2>1, ListsExpires
<1> QED
  BY <1>2, <1>3, <1>4, <1>5, <1>6
     DEF SliceReaderStep, ReloadStep, SliceHit, SliceMiss, GetFromSource,
         reloadRedisIfNotExists, ReloadFails, ReadSource, ZAddFails, ExpireFails,
         pipelineVars

\* The slice cache implements InvalidatedCache: reloads only fill, whatever else reloads
\* the key, and the pipeline can only send for, do, or lose a deletion.
THEOREM SliceCacheImplements == SliceSpec => ListsSpec
<1>1. SliceInit => Lists!Init
  <2> SUFFICES ASSUME SliceInit PROVE Lists!Init
    OBVIOUS
  <2>1. UnderWay = {}
    BY ToSetEmpty DEF SliceInit, PipelineInit, UnderWay, InvalidationUnderWay
  <2> QED
    BY <2>1 DEF SliceInit, PipelineInit, Lists!Init, OldIn
<1>2. SliceTypeOK /\ DrainInv /\ SliceNotAhead /\ [SliceNext]_sliceVars
        => [Lists!Next]_(Lists!vars)
  <2> SUFFICES ASSUME SliceTypeOK, DrainInv, SliceNotAhead, [SliceNext]_sliceVars
               PROVE  [Lists!Next]_(Lists!vars)
    OBVIOUS
  <2>1. CASE PipelineNext /\ UNCHANGED sliceReaderVars
    BY <2>1, ListsPipelineStep DEF sliceReaderVars
  <2>2. CASE SliceReaderStep \/ UNCHANGED sliceVars
    BY <2>2, ListsReaderStep
  <2> QED
    BY <2>1, <2>2 DEF SliceNext
<1> QED
  BY <1>1, <1>2, SliceTypeCorrect, SliceDrainInvariant, SliceNeverAhead, PTL
     DEF SliceSpec, ListsSpec, Lists!Spec

\* So a list that changed after it was cached has its invalidation under way, whatever was
\* reloaded meanwhile, unless the deletion failed or the cleaner did not take the event.
THEOREM NoChangeForgotten == SliceSpec => []StaleListIsUnderWay
<1>1. Lists!NothingForgotten => StaleListIsUnderWay
  BY DEF Lists!NothingForgotten, StaleListIsUnderWay, UnderWay
<1> QED
  BY <1>1, SliceCacheImplements, Lists!ForgetsNothing, PTL DEF ListsSpec

(***************************************************************************)
(* Every key gets an expiration.                                           *)
(***************************************************************************)

\* Every step keeps ExpirationUnderWay.
LEMMA ExpirationStep ==
  SliceTypeOK /\ ExpirationUnderWay /\ [SliceNext]_sliceVars => ExpirationUnderWay'
<1> SUFFICES ASSUME SliceTypeOK, ExpirationUnderWay, [SliceNext]_sliceVars, NEW i \in Id,
                    cache'[i] # Absent, ~cache'[i].expires, i \notin unexpiring'
             PROVE  \E k \in Reloader : at'[k] = "expire" /\ target'[k] = i
  BY DEF ExpirationUnderWay
<1>1. cache[i] # Absent /\ ~cache[i].expires /\ i \notin unexpiring =>
        \E k \in Reloader : at[k] = "expire" /\ target[k] = i
  BY DEF ExpirationUnderWay
<1>2. CASE PipelineNext /\ UNCHANGED sliceReaderVars
  <2>1. /\ PipelineTypeOK /\ cache \in [Id -> Key \cup {Absent}]
        /\ Absent \in Key \cup {Absent}
    BY SliceCacheType
  <2>2. cache'[i] = cache[i]
    BY <1>2, <2>1, PipelineFrame
  <2> QED
    BY <1>1, <1>2, <2>2 DEF sliceReaderVars
<1> USE DEF SliceTypeOK, Goto, sliceReaderVars, pipelineVars
<1>3. CASE UNCHANGED sliceVars
  BY <1>1, <1>3 DEF sliceVars
<1>4. ASSUME NEW n \in Id, SliceHit(n) \/ GetFromSource(n) PROVE UNCHANGED sliceVars
  BY <1>4 DEF SliceHit, GetFromSource
<1>5. ASSUME NEW n \in Id, SliceMiss(n)
      PROVE  \E k \in Reloader : at'[k] = "expire" /\ target'[k] = i
  BY <1>1, <1>5 DEF SliceMiss
<1>6. ASSUME NEW n \in Id, KeyExpires(n)
      PROVE  \E k \in Reloader : at'[k] = "expire" /\ target'[k] = i
  BY <1>1, <1>6 DEF KeyExpires
<1>7. ASSUME NEW k \in Reloader, reloadRedisIfNotExists(k) \/ ReloadFails(k) \/ ReadSource(k)
      PROVE  \E n \in Reloader : at'[n] = "expire" /\ target'[n] = i
  BY <1>1, <1>7 DEF reloadRedisIfNotExists, ReloadFails, ReadSource
<1>8. ASSUME NEW k \in Reloader, ZAdd(k)
      PROVE  \E n \in Reloader : at'[n] = "expire" /\ target'[n] = i
  <2>1. /\ cache' = [cache EXCEPT ![target[k]] = Added(cache[target[k]], loaded[k])]
        /\ at' = [at EXCEPT ![k] = "expire"] /\ target' = target
        /\ target[k] # i => (i \in unexpiring' <=> i \in unexpiring)
    BY <1>8 DEF ZAdd
  <2>2. CASE target[k] = i
    BY <2>1, <2>2
  <2>3. CASE target[k] # i
    BY <1>1, <2>1, <2>3
  <2> QED
    BY <2>2, <2>3
<1>9. ASSUME NEW k \in Reloader, ZAddFails(k)
      PROVE  \E n \in Reloader : at'[n] = "expire" /\ target'[n] = i
  BY <1>1, <1>9 DEF ZAddFails
<1>10. ASSUME NEW k \in Reloader, Expire(k)
       PROVE  \E n \in Reloader : at'[n] = "expire" /\ target'[n] = i
  <2>1. target[k] # i /\ cache'[i] = cache[i]
    BY <1>10 DEF Expire, Key
  <2> QED
    BY <1>1, <1>10, <2>1 DEF Expire
<1>11. ASSUME NEW k \in Reloader, ExpireFails(k)
       PROVE  \E n \in Reloader : at'[n] = "expire" /\ target'[n] = i
  BY <1>1, <1>11 DEF ExpireFails
<1> QED
  BY <1>2, <1>3, <1>4, <1>5, <1>6, <1>7, <1>8, <1>9, <1>10, <1>11
     DEF SliceNext, SliceReaderStep, ReloadStep

\* However reloads, deletions and expirations overlap, a key without an expiration has
\* an EXPIRE coming, or one failed.
THEOREM KeysGetExpirations == SliceSpec => []ExpirationUnderWay
<1>1. SliceInit => ExpirationUnderWay
  BY DEF SliceInit, PipelineInit, ExpirationUnderWay
<1> QED
  BY <1>1, SliceTypeCorrect, ExpirationStep, PTL DEF SliceSpec

(***************************************************************************)
(* A page that Redis answers is that of the data source.                   *)
(***************************************************************************)

\* How many elements of T come before m, with m itself.
Rank(T, m) == Cardinality({n \in T : n <= m})

\* A greater element has a greater rank.
LEMMA RankIncreases ==
  ASSUME NEW T \in SUBSET Nat, IsFiniteSet(T), NEW m \in T, NEW n \in T, m < n
  PROVE  Rank(T, m) < Rank(T, n)
<1> DEFINE A == {k \in T : k <= m}  B == {k \in T : k <= n}
<1>1. A \in SUBSET B /\ B \in SUBSET T /\ n \in B /\ n \notin A
  <2>1. m \in Nat /\ n \in Nat /\ \A k \in T : k \in Nat
    OBVIOUS
  <2>2. n <= n /\ ~(n <= m) /\ \A k \in T : k <= m => k <= n
    BY <2>1
  <2> QED
    BY <2>2
<1>2. IsFiniteSet(B)
  BY <1>1, FS_Subset
<1> HIDE DEF A, B
<1>3. IsFiniteSet(A) /\ Cardinality(A) <= Cardinality(B) /\ Cardinality(A) # Cardinality(B)
  BY <1>1, <1>2, FS_Subset
<1>4. Cardinality(A) \in Nat /\ Cardinality(B) \in Nat
  BY <1>2, <1>3, FS_CardinalityType
<1>5. Cardinality(A) < Cardinality(B)
  BY <1>3, <1>4
<1> QED
  BY <1>5 DEF Rank, A, B

\* Ranks go from 1 to the number of elements.
LEMMA RankType ==
  ASSUME NEW T \in SUBSET Nat, IsFiniteSet(T), NEW m \in T
  PROVE  Rank(T, m) \in 1 .. Cardinality(T)
<1> DEFINE A == {k \in T : k <= m}
<1>1. A \in SUBSET T /\ m \in A
  OBVIOUS
<1> HIDE DEF A
<1>2. IsFiniteSet(A) /\ Cardinality(A) <= Cardinality(T)
  BY <1>1, FS_Subset
<1>3. Cardinality(A) \in Nat /\ Cardinality(T) \in Nat /\ Cardinality(A) # 0
  BY <1>1, <1>2, FS_CardinalityType, FS_EmptySet
<1>4. Cardinality(A) \in 1 .. Cardinality(T)
  BY <1>2, <1>3
<1> QED
  BY <1>4 DEF Rank, A

\* Different elements have different ranks.
LEMMA RankInjective ==
  ASSUME NEW T \in SUBSET Nat, IsFiniteSet(T), NEW m \in T, NEW n \in T,
         Rank(T, m) = Rank(T, n)
  PROVE  m = n
<1>1. m \in Nat /\ n \in Nat /\ Rank(T, m) \in Int /\ Rank(T, n) \in Int
  BY RankType
<1>2. ~(m < n)
  BY <1>1, RankIncreases
<1>3. ~(n < m)
  BY <1>1, RankIncreases
<1> QED
  BY <1>1, <1>2, <1>3

\* So a set whose ranks are in an interval has at most as many elements as that.
LEMMA FewRanks ==
  ASSUME NEW T \in SUBSET Nat, IsFiniteSet(T), NEW P \in SUBSET T,
         NEW a \in Nat, NEW b \in Nat, \A m \in P : Rank(T, m) \in a + 1 .. a + b
  PROVE  IsFiniteSet(P) /\ Cardinality(P) <= b
<1>1. IsFiniteSet(P) /\ Cardinality(P) \in Nat
  BY FS_Subset, FS_CardinalityType
<1>2. IsFiniteSet(a + 1 .. a + b) /\ Cardinality(a + 1 .. a + b) = b
  <2>1. a + 1 \in Int /\ a + b \in Int /\ (a + 1 > a + b <=> b = 0) /\ (a + b) - (a + 1) + 1 = b
    OBVIOUS
  <2> QED
    BY <2>1, FS_Interval
<1>3. ~(b < Cardinality(P))
  <2> SUFFICES ASSUME b < Cardinality(P) PROVE FALSE
    OBVIOUS
  <2> DEFINE f == [m \in P |-> Rank(T, m)]
  <2>1. f \in [P -> a + 1 .. a + b]
    OBVIOUS
  <2> HIDE DEF f
  <2>2. PICK m \in P, n \in P : m # n /\ f[m] = f[n]
    BY <1>1, <1>2, <2>1, FS_PigeonHole
  <2>3. Rank(T, m) = Rank(T, n)
    BY <2>2 DEF f
  <2> QED
    BY <2>2, <2>3, RankInjective
<1> QED
  BY <1>1, <1>3

\* And every rank is taken.
LEMMA AllRanks ==
  ASSUME NEW T \in SUBSET Nat, IsFiniteSet(T), NEW r \in 1 .. Cardinality(T)
  PROVE  \E m \in T : Rank(T, m) = r
<1> DEFINE f == [m \in T |-> Rank(T, m)]
<1>1. f \in [T -> 1 .. Cardinality(T)]
  BY RankType
<1>2. \A m, n \in T : f[m] = f[n] => m = n
  BY RankInjective
<1>3. Cardinality(T) \in Nat
  BY FS_CardinalityType
<1>4. IsFiniteSet(1 .. Cardinality(T)) /\ Cardinality(1 .. Cardinality(T)) = Cardinality(T)
  <2>1. 1 \in Int /\ Cardinality(T) \in Int
    BY <1>3
  <2>2. Cardinality(1 .. Cardinality(T)) =
           IF 1 > Cardinality(T) THEN 0 ELSE Cardinality(T) - 1 + 1
    BY <2>1, FS_Interval
  <2> QED
    BY <1>3, <2>1, <2>2, FS_Interval
<1> HIDE DEF f
<1>5. f \in Injection(T, 1 .. Cardinality(T))
  BY <1>1, <1>2, Fun_IsInj
<1>6. f \in Surjection(T, 1 .. Cardinality(T))
  <2> DEFINE N == 1 .. Cardinality(T)
  <2>1. f \in Injection(T, N) /\ IsFiniteSet(N) /\ Cardinality(T) = Cardinality(N)
    BY <1>4, <1>5
  <2> HIDE DEF N
  <2>2. f \in Surjection(T, N)
    BY <2>1, FS_Injection
  <2> QED
    BY <2>2 DEF N
<1>7. \A k \in 1 .. Cardinality(T) : \E m \in T : f[m] = k
  BY <1>6 DEF Surjection
<1>8. \A m \in T : f[m] = Rank(T, m)
  BY DEF f
<1>9. PICK m \in T : f[m] = r
  BY <1>7, Zenon
<1> QED
  BY <1>8, <1>9

\* The first members of a list are all of it, if they are fewer than asked for.
LEMMA FewFirst ==
  ASSUME NEW S \in SUBSET Nat, IsFiniteSet(S), NEW c \in Nat, NEW F,
         F = {m \in S : Rank(S, m) \in 1 .. c}, Cardinality(F) < c
  PROVE  F = S
<1>1. F \in SUBSET S
  OBVIOUS
<1>2. IsFiniteSet(F) /\ Cardinality(F) \in Nat /\ Cardinality(S) \in Nat
  BY <1>1, FS_Subset, FS_CardinalityType
<1>3. Cardinality(S) < c
  <2> SUFFICES ASSUME c <= Cardinality(S) PROVE FALSE
    BY <1>2
  <2> DEFINE f == [m \in F |-> Rank(S, m)]
  <2>1. f \in [F -> 1 .. c]
    OBVIOUS
  <2>2. ASSUME NEW r \in 1 .. c PROVE \E m \in F : f[m] = r
    <3>1. r \in 1 .. Cardinality(S)
      BY <1>2
    <3>2. PICK m \in S : Rank(S, m) = r
      BY <3>1, AllRanks
    <3> QED
      BY <3>2
  <2> HIDE DEF f
  <2>3. f \in Surjection(F, 1 .. c)
    BY <2>1, <2>2, Fun_IsSurj
  <2>4. Cardinality(1 .. c) <= Cardinality(F)
    BY <1>2, <2>3, FS_Surjection
  <2>5. Cardinality(1 .. c) = c
    <3>1. Cardinality(1 .. c) = IF 1 > c THEN 0 ELSE c - 1 + 1
      BY FS_Interval
    <3> QED
      BY <3>1
  <2> QED
    BY <1>2, <2>4, <2>5
<1>4. ASSUME NEW m \in S PROVE Rank(S, m) \in 1 .. c
  BY <1>2, <1>3, RankType
<1> QED
  BY <1>4

\* What reloadRedis asks for, by rank.
LEMMA FirstMembersRank ==
  ASSUME NEW S \in SUBSET Member
  PROVE  FirstMembers(S) = {m \in S : Rank(S, m) \in 1 .. CacheCapacity}
<1>1. \A m \in S : m \in Nat /\ m > 0
  BY SliceCacheAssumption DEF SliceCacheAssumption
<1>2. S = {m \in S : m > 0}
  BY <1>1
<1>3. 0 + 1 = 1 /\ 0 + CacheCapacity = CacheCapacity
  BY SliceCacheAssumption DEF SliceCacheAssumption
<1> QED
  BY <1>2, <1>3 DEF FirstMembers, Page, Rank

\* Whatever the list, the capacity and the range: a page of what one reload puts into
\* Redis that is full or reaches the marker is the page of the list.
LEMMA PageIsExact ==
  ASSUME NEW S \in SUBSET Member, NEW info \in Info,
         \/ Cardinality(Page(ToRedis(S), info) \ {Marker}) = info.limit
         \/ Marker \in Page(ToRedis(S), info)
  PROVE  Page(ToRedis(S), info) \ {Marker} = Page(S, info)
<1> DEFINE F == FirstMembers(S)  R == ToRedis(S)  lo == info.offset
           restS == {m \in S : m > info.after}  restR == {m \in R : m > info.after}
<1>1. /\ S \in SUBSET Nat /\ IsFiniteSet(S) /\ Marker \in Nat /\ \A m \in S : m < Marker
      /\ lo \in Nat /\ info.limit \in Nat /\ CacheCapacity \in Nat /\ info.after \in Nat
  <2>1. Member \subseteq Nat /\ IsFiniteSet(Member)
    BY SliceCacheAssumption DEF SliceCacheAssumption
  <2>2. IsFiniteSet(S)
    BY <2>1, FS_Subset
  <2>3. /\ info.after \in {0} \cup Member /\ info.offset \in 0 .. MaxOffset
        /\ info.limit \in 1 .. MaxLimit
    BY DEF Info
  <2>4. /\ MaxOffset \in Nat /\ MaxLimit \in Nat /\ CacheCapacity \in Nat /\ Marker \in Nat
        /\ \A m \in S : m < Marker
    BY SliceCacheAssumption DEF SliceCacheAssumption
  <2>5. info.after \in Nat
    <3>1. 0 \in Nat
      OBVIOUS
    <3>2. \A m \in Member : m \in Nat
      BY <2>1
    <3> QED
      BY <2>3, <3>1, <3>2
  <2>6. lo \in Nat /\ info.limit \in Nat
    BY <2>3, <2>4
  <2> QED
    BY <2>1, <2>2, <2>4, <2>5, <2>6
<1>2. F = {m \in S : Rank(S, m) \in 1 .. CacheCapacity}
  BY FirstMembersRank
<1>3. ASSUME NEW m \in F, NEW n \in S, n <= m PROVE n \in F
  <2>1. m \in S /\ Rank(S, m) <= CacheCapacity /\ Rank(S, m) \in Int
    BY <1>2
  <2>2. Rank(S, n) <= Rank(S, m)
    <3>1. n < m => Rank(S, n) < Rank(S, m)
      BY <1>1, <2>1, RankIncreases
    <3>2. Rank(S, n) \in Int
      BY <1>1, RankType
    <3> QED
      BY <1>1, <1>3, <2>1, <3>1, <3>2
  <2>3. Rank(S, n) \in 1 .. Cardinality(S)
    BY <1>1, RankType
  <2> QED
    BY <1>1, <1>2, <2>1, <2>2, <2>3
<1>4. R \ {Marker} = F /\ (Marker \in R => Cardinality(F) < CacheCapacity)
  <2>1. Marker \notin F
    BY <1>1, <1>2
  <2> QED
    BY <2>1 DEF ToRedis
<1>5. ASSUME NEW m \in F PROVE {n \in restR : n <= m} = {n \in restS : n <= m}
  <2>1. m \in S /\ m < Marker /\ m \in Nat
    BY <1>1, <1>2
  <2>2. ASSUME NEW n, n \in restR, n <= m PROVE n \in restS
    <3>1. n # Marker
      BY <1>1, <2>1, <2>2
    <3> QED
      BY <1>2, <1>4, <2>2, <3>1
  <2>3. ASSUME NEW n \in restS, n <= m PROVE n \in restR
    BY <1>3, <1>4, <2>3
  <2> QED
    BY <2>2, <2>3
<1>6. Page(R, info) \ {Marker} = Page(S, info) \cap F
  <2>1. F \subseteq S /\ F \subseteq R /\ Marker \notin F
    BY <1>2, <1>4
  <2>2. Page(R, info) \subseteq R
    BY DEF Page
  <2>3. ASSUME NEW m \in F PROVE m \in Page(R, info) <=> m \in Page(S, info)
    <3>1. m \in Page(R, info) <=>
             m > info.after /\ Cardinality({n \in restR : n <= m}) \in lo + 1 .. lo + info.limit
      BY <2>1 DEF Page
    <3>2. m \in Page(S, info) <=>
             m > info.after /\ Cardinality({n \in restS : n <= m}) \in lo + 1 .. lo + info.limit
      BY <2>1 DEF Page
    <3> HIDE DEF F, R, lo, restR, restS
    <3> QED
      BY <1>5, <3>1, <3>2
  <2> HIDE DEF F, R
  <2> QED
    BY <1>4, <2>1, <2>2, <2>3
<1>7. CASE Marker \in Page(R, info)
  <2>1. Marker \in R
    BY <1>7 DEF Page
  <2>2. F = S
    <3> HIDE DEF F, R
    <3> QED
      BY <1>1, <1>2, <1>4, <2>1, FewFirst
  <2>3. Page(S, info) \subseteq S
    BY DEF Page
  <2> HIDE DEF F, R
  <2>4. Page(R, info) \ {Marker} = Page(S, info)
    BY <1>6, <2>2, <2>3
  <2> QED
    BY <2>4 DEF R
<1>8. CASE Cardinality(Page(R, info) \ {Marker}) = info.limit
  <2> DEFINE P == Page(S, info)  D == Page(R, info) \ {Marker}
  <2>1. restS \in SUBSET Nat /\ IsFiniteSet(restS) /\ P \in SUBSET restS
    <3>1. restS \in SUBSET S
      OBVIOUS
    <3>2. IsFiniteSet(restS)
      <4> HIDE DEF restS
      <4> QED
        BY <1>1, <3>1, FS_Subset
    <3> QED
      BY <1>1, <3>1, <3>2 DEF Page
  <2>2. \A m \in P : Rank(restS, m) \in lo + 1 .. lo + info.limit
    BY DEF Page, Rank
  <2>3. D \in SUBSET P /\ Cardinality(D) = info.limit
    BY <1>6, <1>8
  <2> HIDE DEF restS, P, D
  <2>4. IsFiniteSet(P) /\ Cardinality(P) <= info.limit
    <3> HIDE DEF lo
    <3> QED
      BY <1>1, <2>1, <2>2, FewRanks
  <2>5. Cardinality(D) <= Cardinality(P) /\ Cardinality(P) \in Nat
    BY <2>3, <2>4, FS_Subset, FS_CardinalityType
  <2>6. Cardinality(P) = Cardinality(D)
    BY <1>1, <2>3, <2>4, <2>5
  <2>7. P = D
    BY <2>3, <2>4, <2>6, FS_Subset
  <2> QED
    BY <2>7 DEF P, D
<1> QED
  BY <1>7, <1>8

\* So it is in every reachable state, for a key that one version of its list was read
\* into: an end of the cached part is never taken for an end of the list.
THEOREM HitsExact == SliceSpec => []HitsAreExact
<1>1. SliceTypeOK => HitsAreExact
  <2> SUFFICES ASSUME SliceTypeOK, NEW i \in Id, NEW info \in Info, cache[i] # Absent,
                      Hit(i, info), NEW v \in Version, cache[i].versions = {v}
               PROVE  Data(i, info) = Page(list[i][v], info)
    BY DEF HitsAreExact
  <2>1. list[i][v] \in SUBSET Member
    BY DEF SliceTypeOK
  <2>2. Sorted(i) = ToRedis(list[i][v])
    <3>1. {ToRedis(list[i][w]) : w \in cache[i].versions} = {ToRedis(list[i][v])}
      OBVIOUS
    <3> QED
      BY <3>1 DEF Sorted
  <2> QED
    BY <2>1, <2>2, PageIsExact DEF Hit, Data, Found
<1> QED
  BY <1>1, SliceTypeCorrect, PTL
=============================================================================
