--------------------------- MODULE StaleKeyCleaner ---------------------------
(***************************************************************************)
(* The invalidation pipeline of a cache proxy: goroutines that change a    *)
(* record publish the change (data/repository.go), Listen puts it on the   *)
(* bounded channel of the proxy, the cleaner goroutine collects ids and    *)
(* deletes their keys in batches on goroutines of their own, and the       *)
(* shutdown function of the proxy stops it all before the one of the Redis *)
(* client closes that client.                                              *)
(*                                                                         *)
(* ObjectCacheProxy and SliceCacheProxy extend this module with the        *)
(* readers that fill the cache: their pipelines are the same code.         *)
(***************************************************************************)
EXTENDS Integers, Sequences, SequencesExt

CONSTANTS
    Id,                 \* the ids of the cached records
    Publisher,          \* goroutines that change records
    Job,                \* bound: concurrent goroutines that run delKeys
    ChanCap,            \* capacity of daoEventChan
    BatchSize,          \* number of ids that makes the cleaner delete at once
    RedisMayFail,       \* may a command fail while the Redis client is open?
    MappingMayPanic,    \* may idMapping, which is the user's, panic or be nil?
    MayShutDown,        \* does the process shut its components down?
    MaxVersion,         \* bound: the last version of a record
    Absent              \* no key in Redis

ASSUME CleanerAssumption ==
    /\ ChanCap \in Nat \ {0} /\ BatchSize \in Nat \ {0} /\ MaxVersion \in Nat
    /\ RedisMayFail \in BOOLEAN /\ MappingMayPanic \in BOOLEAN /\ MayShutDown \in BOOLEAN
    /\ Absent \notin Nat

VARIABLES
    db,             \* version of each record; 0: there is none
    cache,          \* what Redis holds under the key of each id
    pub,            \* where each publisher is
    pubId,          \* the record it changed
    daoEventChan,   \* the channel, as the ids its events map to
    chanClosedFlag, \* daoEventChanClosed
    chanClosed,     \* close(daoEventChan) has run
    cleaner,        \* where the cleaner goroutine is
    ids,            \* its ids
    jobs,           \* what each goroutine of delKeys has still to delete
    lastJob,        \* the same for the final delKeys of the cleaner itself
    shutdown,       \* how far the shutdown of the components is
    failed,         \* history: ids whose deletion failed and was only logged
    dropped,        \* history: ids whose event the cleaner did not take out of the channel
    bornStale       \* history, of the readers: ids whose key got a version already old

Version == 0 .. MaxVersion

pubVars     == <<pub, pubId>>
chanVars    == <<daoEventChan, chanClosedFlag, chanClosed>>
cleanerVars == <<cleaner, ids, jobs, lastJob>>
pipelineVars == <<db, cache, pubVars, chanVars, cleanerVars, shutdown, failed, dropped>>

PipelineInit ==
    /\ db    = [i \in Id |-> 0]
    /\ cache = [i \in Id |-> Absent]
    /\ pub   = [p \in Publisher |-> "idle"]
    /\ pubId \in [Publisher -> Id] /\ \A p, q \in Publisher : pubId[p] = pubId[q]
    /\ daoEventChan = <<>> /\ chanClosedFlag = FALSE /\ chanClosed = FALSE
    /\ cleaner = "select" /\ ids = <<>>
    /\ jobs = [j \in Job |-> {}] /\ lastJob = {}
    /\ shutdown = "no"
    /\ failed = {} /\ dropped = {}

RedisOpen == shutdown # "redisClosed"

(***************************************************************************)
(* Publishers.                                                             *)
(***************************************************************************)

\* A record is inserted, updated or deleted, then the change is published.
Mutate(p, i) ==
    /\ pub[p] = "idle" /\ db[i] < MaxVersion
    /\ db'    = [db EXCEPT ![i] = @ + 1]
    /\ pub'   = [pub EXCEPT ![p] = "listen"]
    /\ pubId' = [pubId EXCEPT ![p] = i]
    /\ UNCHANGED <<cache, chanVars, cleanerVars, shutdown, failed, dropped>>

\* Listen reads the flag: closed, it only warns.
ListenWarns(p) ==
    /\ pub[p] = "listen" /\ chanClosedFlag
    /\ pub' = [pub EXCEPT ![p] = "idle"]
    /\ dropped' = dropped \cup {pubId[p]}
    /\ UNCHANGED <<db, cache, pubId, chanVars, cleanerVars, shutdown, failed>>

ListenOpen(p) ==
    /\ pub[p] = "listen" /\ ~chanClosedFlag
    /\ pub' = [pub EXCEPT ![p] = "send"]
    /\ UNCHANGED <<db, cache, pubId, chanVars, cleanerVars, shutdown, failed, dropped>>

\* The send, which waits while the channel is full; nobody receives any more once
\* the mapping panicked ...
ListenSends(p) ==
    /\ pub[p] = "send" /\ ~chanClosed /\ Len(daoEventChan) < ChanCap
    /\ daoEventChan' = Append(daoEventChan, pubId[p])
    /\ pub' = [pub EXCEPT ![p] = "idle"]
    /\ dropped' = IF cleaner = "select" THEN dropped ELSE dropped \cup {pubId[p]}
    /\ UNCHANGED <<db, cache, pubId, chanClosedFlag, chanClosed, cleanerVars,
                   shutdown, failed>>

\* ... and panics once the channel is closed, waiting or not.
ListenPanics(p) ==
    /\ pub[p] = "send" /\ chanClosed
    /\ pub' = [pub EXCEPT ![p] = "panicked"]
    /\ dropped' = dropped \cup {pubId[p]}
    /\ UNCHANGED <<db, cache, pubId, chanVars, cleanerVars, shutdown, failed>>

(***************************************************************************)
(* The cleaner goroutine, startStaleKeyCleaner.                            *)
(***************************************************************************)

\* go p.delKeys(s)
GoDelKeys(s) ==
    \E j \in Job : jobs[j] = {} /\ jobs' = [jobs EXCEPT ![j] = ToSet(s)]

\* Mutant: the ticker flushes full batches only.
TickerFlushFull ==
    /\ cleaner = "select" /\ Len(ids) >= BatchSize
    /\ GoDelKeys(ids)
    /\ ids' = <<>>
    /\ UNCHANGED <<db, cache, pubVars, chanVars, cleaner, lastJob, shutdown,
                   failed, dropped>>

\* case <-ticker.C
TickerFlush ==
    /\ cleaner = "select" /\ ids # <<>>
    /\ GoDelKeys(ids)
    /\ ids' = <<>>
    /\ UNCHANGED <<db, cache, pubVars, chanVars, cleaner, lastJob, shutdown,
                   failed, dropped>>

\* Mutant: len(ids) > BatchSize in place of >=.
ReceiveEventLate ==
    /\ cleaner = "select" /\ daoEventChan # <<>>
    /\ daoEventChan' = Tail(daoEventChan)
    /\ LET collected == Append(ids, Head(daoEventChan)) IN
          IF Len(collected) > BatchSize
          THEN GoDelKeys(collected) /\ ids' = <<>>
          ELSE ids' = collected /\ UNCHANGED jobs
    /\ UNCHANGED <<db, cache, pubVars, chanClosedFlag, chanClosed, cleaner,
                   lastJob, shutdown, failed, dropped>>

\* Mutant: a full batch is deleted before the new id is appended to it.
ReceiveEventFlushesFirst ==
    /\ cleaner = "select" /\ daoEventChan # <<>>
    /\ daoEventChan' = Tail(daoEventChan)
    /\ IF Len(ids) + 1 >= BatchSize
       THEN GoDelKeys(ids) /\ ids' = <<>>
       ELSE ids' = Append(ids, Head(daoEventChan)) /\ UNCHANGED jobs
    /\ UNCHANGED <<db, cache, pubVars, chanClosedFlag, chanClosed, cleaner,
                   lastJob, shutdown, failed, dropped>>

\* case daoEvent, ok := <-p.daoEventChan, with an event
ReceiveEvent ==
    /\ cleaner = "select" /\ daoEventChan # <<>>
    /\ daoEventChan' = Tail(daoEventChan)
    /\ LET collected == Append(ids, Head(daoEventChan)) IN
          IF Len(collected) >= BatchSize
          THEN GoDelKeys(collected) /\ ids' = <<>>
          ELSE ids' = collected /\ UNCHANGED jobs
    /\ UNCHANGED <<db, cache, pubVars, chanClosedFlag, chanClosed, cleaner,
                   lastJob, shutdown, failed, dropped>>

\* The deferred function deletes what is left itself.
Deferred ==
    /\ cleaner' = "defer"
    /\ lastJob' = ToSet(ids) /\ ids' = <<>>

\* ... and with the channel closed and drained.
ChannelDrained ==
    /\ cleaner = "select" /\ chanClosed /\ daoEventChan = <<>>
    /\ Deferred
    /\ UNCHANGED <<db, cache, pubVars, chanVars, jobs, shutdown, failed, dropped>>

\* The mapping of an event panics, or is not set yet, as SetStaleKeyCleaner adds the
\* listener before: the loop is over, and the deferred function runs all the same.
\* Events in the channel stay there.
MappingPanics ==
    /\ MappingMayPanic /\ cleaner = "select" /\ daoEventChan # <<>>
    /\ daoEventChan' = Tail(daoEventChan)
    /\ Deferred
    /\ dropped' = dropped \cup ToSet(daoEventChan)
    /\ UNCHANGED <<db, cache, pubVars, chanClosedFlag, chanClosed, jobs, shutdown, failed>>

\* The deferred function has run delKeys and sends to cleanerClosed.
DeferDone ==
    /\ cleaner = "defer" /\ lastJob = {}
    /\ cleaner' = "cleanerClosed"
    /\ UNCHANGED <<db, cache, pubVars, chanVars, ids, jobs, lastJob, shutdown,
                   failed, dropped>>

(***************************************************************************)
(* delKeys: one DEL of its pipeline reaches Redis, or the pipeline fails,  *)
(* with the DELs that did not.                                             *)
(***************************************************************************)

\* Mutant: only one of the ids gets a DEL.
DelOne(j) ==
    \E i \in jobs[j] :
       /\ RedisOpen
       /\ cache' = [cache EXCEPT ![i] = Absent]
       /\ jobs'  = [jobs EXCEPT ![j] = {}]
       /\ UNCHANGED <<db, pubVars, chanVars, cleaner, ids, lastJob, shutdown,
                      failed, dropped>>

Del(j) ==
    \E i \in jobs[j] :
       /\ RedisOpen
       /\ cache' = [cache EXCEPT ![i] = Absent]
       /\ jobs'  = [jobs EXCEPT ![j] = @ \ {i}]
       /\ UNCHANGED <<db, pubVars, chanVars, cleaner, ids, lastJob, shutdown,
                      failed, dropped>>

DelFails(j) ==
    /\ jobs[j] # {} /\ (RedisMayFail \/ ~RedisOpen)
    /\ failed' = failed \cup jobs[j]
    /\ jobs' = [jobs EXCEPT ![j] = {}]
    /\ UNCHANGED <<db, cache, pubVars, chanVars, cleaner, ids, lastJob, shutdown,
                   dropped>>

LastDel ==
    \E i \in lastJob :
       /\ cache'   = [cache EXCEPT ![i] = Absent]
       /\ lastJob' = lastJob \ {i}
       /\ UNCHANGED <<db, pubVars, chanVars, cleaner, ids, jobs, shutdown,
                      failed, dropped>>

LastDelFails ==
    /\ lastJob # {} /\ RedisMayFail
    /\ failed' = failed \cup lastJob
    /\ lastJob' = {}
    /\ UNCHANGED <<db, cache, pubVars, chanVars, cleaner, ids, jobs, shutdown,
                   dropped>>

(***************************************************************************)
(* CloseComponents runs the shutdown function of the proxy, and then that  *)
(* of the Redis client, which was registered before it.                    *)
(***************************************************************************)

\* The flag first ...
SetClosedFlag ==
    /\ MayShutDown /\ shutdown = "no"
    /\ chanClosedFlag' = TRUE /\ shutdown' = "flagged"
    /\ UNCHANGED <<db, cache, pubVars, daoEventChan, chanClosed, cleanerVars,
                   failed, dropped>>

\* Mutant: the channel is not closed.
CloseChanForgotten ==
    /\ shutdown = "flagged"
    /\ shutdown' = "waiting"
    /\ UNCHANGED <<db, cache, pubVars, daoEventChan, chanClosedFlag, chanClosed,
                   cleanerVars, failed, dropped>>

\* ... and then the channel.
CloseChan ==
    /\ shutdown = "flagged"
    /\ chanClosed' = TRUE /\ shutdown' = "waiting"
    /\ UNCHANGED <<db, cache, pubVars, daoEventChan, chanClosedFlag, cleanerVars,
                   failed, dropped>>

\* Mutant: the shutdown function does not wait for the cleaner.
CleanerNotAwaited ==
    /\ shutdown = "waiting"
    /\ shutdown' = "proxyClosed"
    /\ UNCHANGED <<db, cache, pubVars, chanVars, cleanerVars, failed, dropped>>

\* <-cache.cleanerClosed meets the send of the cleaner.  After that a panic of the mapping
\* ends the process, which is like CloseRedis to what is under way.
CleanerClosed ==
    /\ shutdown = "waiting" /\ cleaner = "cleanerClosed"
    /\ shutdown' = "proxyClosed" /\ cleaner' = "stopped"
    /\ UNCHANGED <<db, cache, pubVars, chanVars, ids, jobs, lastJob, failed, dropped>>

CloseRedis ==
    /\ shutdown = "proxyClosed"
    /\ shutdown' = "redisClosed"
    /\ UNCHANGED <<db, cache, pubVars, chanVars, cleanerVars, failed, dropped>>

PublisherStep(p) ==
    ListenWarns(p) \/ ListenOpen(p) \/ ListenSends(p) \/ ListenPanics(p)

JobStep(j) == Del(j) \/ DelFails(j)

DeferStep == ChannelDrained \/ LastDel \/ LastDelFails \/ DeferDone

ShutdownStep == CloseChan \/ CleanerClosed \/ CloseRedis

PipelineNext ==
    \/ \E p \in Publisher : PublisherStep(p) \/ \E i \in Id : Mutate(p, i)
    \/ TickerFlush \/ ReceiveEvent \/ MappingPanics \/ DeferStep
    \/ \E j \in Job : JobStep(j)
    \/ SetClosedFlag \/ ShutdownStep

-----------------------------------------------------------------------------
(* Properties of the pipeline                                              *)

\* The types of the variables of the pipeline, but for what a key holds.
PipelineTypeOK ==
    /\ db    \in [Id -> Version]
    /\ pub   \in [Publisher -> {"idle", "listen", "send", "panicked"}]
    /\ pubId \in [Publisher -> Id]
    /\ daoEventChan \in Seq(Id) /\ Len(daoEventChan) <= ChanCap
    /\ chanClosedFlag \in BOOLEAN /\ chanClosed \in BOOLEAN
    /\ cleaner \in {"select", "defer", "cleanerClosed", "stopped"}
    /\ ids \in Seq(Id) /\ Len(ids) < BatchSize
    /\ jobs \in [Job -> SUBSET Id] /\ lastJob \in SUBSET Id
    /\ shutdown \in {"no", "flagged", "waiting", "proxyClosed", "redisClosed"}
    /\ failed \in SUBSET Id /\ dropped \in SUBSET Id

\* The invalidation of i is on its way from a publisher to Redis.
InvalidationUnderWay(i) ==
    \/ \E p \in Publisher : pub[p] \in {"listen", "send"} /\ pubId[p] = i
    \/ i \in ToSet(daoEventChan) \/ i \in ToSet(ids)
    \/ \E j \in Job : i \in jobs[j]
    \/ i \in lastJob

UnderWay == {i \in Id : InvalidationUnderWay(i)}

\* When the shutdown function of the proxy returns, no id is left in the hands of the
\* cleaner, and no event in the channel but for those after a panic of the mapping:
\* it has waited for the cleaner's end (object_cache_proxy.go:69-70, 124-130).
DrainedWhenClosed ==
    shutdown \in {"proxyClosed", "redisClosed"} =>
       ids = <<>> /\ lastJob = {} /\ ToSet(daoEventChan) \subseteq dropped

\* The mapping has panicked, and nobody has closed the channel since.
CleanerGone == cleaner # "select" /\ ~chanClosed

\* Nobody waits for ever on the channel: a publisher gets through Listen, however
\* full it is and whatever shutdown comes in between, as long as the cleaner has not
\* panicked; and the shutdown function of the proxy returns in any case, as the
\* cleaner drains the channel, or panics, and signals its end.
PipelineReturns ==
    /\ \A p \in Publisher :
          pub[p] \in {"listen", "send"} ~> pub[p] \in {"idle", "panicked"} \/ CleanerGone
    /\ shutdown = "flagged" ~> shutdown = "redisClosed"

\* What Listen is written for: a change that is published after the shutdown
\* began is logged as a warning, and no publisher panics
\* (object_cache_proxy.go:42-43).
PublisherNeverPanics == \A p \in Publisher : pub[p] # "panicked"
=============================================================================
