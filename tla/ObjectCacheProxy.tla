--------------------------- MODULE ObjectCacheProxy ---------------------------
(***************************************************************************)
(* The object cache of data/object_cache_proxy.go: readers that look a     *)
(* record up in Redis, then in the data source, and put what they found    *)
(* into Redis on a goroutine of its own, next to the pipeline that deletes *)
(* the keys of changed records.                                            *)
(*                                                                         *)
(* A cached value is the version of the record it was read at; 0 is        *)
(* NotExistsString, kept for a record there is none of.                    *)
(***************************************************************************)
EXTENDS StaleKeyCleaner

CONSTANTS
    Reader,             \* goroutines that call Get
    Saver,              \* bound: concurrent goroutines that run saveToRedis
    KeysExpire          \* is the expiration of the keys not 0 (for ever)?

ASSUME ObjectCacheAssumption == KeysExpire \in BOOLEAN

VARIABLES
    reading,    \* the ids a reader asks the data source for: at most one
    saves       \* what each saveToRedis has to set: at most one id and value

objectReaderVars == <<reading, saves, bornStale>>
objectVars == <<pipelineVars, objectReaderVars>>

Entry == [id : Id, value : Version]

ObjectInit ==
    /\ PipelineInit
    /\ reading   = [r \in Reader |-> {}]
    /\ saves     = [s \in Saver |-> {}]
    /\ bornStale = {}

(***************************************************************************)
(* Get.                                                                    *)
(***************************************************************************)

\* A hit returns what Redis has and changes nothing.
ObjectHit(r, i) ==
    /\ reading[r] = {} /\ cache[i] # Absent /\ RedisOpen
    /\ UNCHANGED objectVars

\* Redis has no such key, or fails: the data source is asked.
ObjectMiss(r, i) ==
    /\ reading[r] = {}
    /\ cache[i] = Absent \/ RedisMayFail \/ ~RedisOpen
    /\ reading' = [reading EXCEPT ![r] = {i}]
    /\ UNCHANGED <<pipelineVars, saves, bornStale>>

\* The data source answers, with an object or without one: Get returns and
\* leaves the setting of the key to saveToRedis.
GetFromDataSource(r) ==
    \E i \in reading[r], s \in Saver :
       /\ saves[s] = {}
       /\ saves'   = [saves EXCEPT ![s] = {[id |-> i, value |-> db[i]]}]
       /\ reading' = [reading EXCEPT ![r] = {}]
       /\ UNCHANGED <<pipelineVars, bornStale>>

\* The data source or the encoding of the object fails: Get returns the error.
GetFails(r) ==
    /\ reading[r] # {}
    /\ reading' = [reading EXCEPT ![r] = {}]
    /\ UNCHANGED <<pipelineVars, saves, bornStale>>

saveToRedis(s) ==
    \E e \in saves[s] :
       /\ RedisOpen
       /\ cache' = [cache EXCEPT ![e.id] = e.value]
       /\ saves' = [saves EXCEPT ![s] = {}]
       /\ bornStale' = IF e.value < db[e.id] THEN bornStale \cup {e.id}
                                             ELSE bornStale \ {e.id}
       /\ UNCHANGED <<db, pubVars, chanVars, cleanerVars, shutdown, failed,
                      dropped, reading>>

saveFails(s) ==
    /\ saves[s] # {} /\ (RedisMayFail \/ ~RedisOpen)
    /\ saves' = [saves EXCEPT ![s] = {}]
    /\ UNCHANGED <<pipelineVars, reading, bornStale>>

\* Redis expires a key.
ObjectExpires(i) ==
    /\ KeysExpire /\ cache[i] # Absent
    /\ cache' = [cache EXCEPT ![i] = Absent]
    /\ UNCHANGED <<db, pubVars, chanVars, cleanerVars, shutdown, failed, dropped,
                   objectReaderVars>>

ObjectReaderStep ==
    \/ \E r \in Reader :
          \/ GetFromDataSource(r) \/ GetFails(r)
          \/ \E i \in Id : ObjectHit(r, i) \/ ObjectMiss(r, i)
    \/ \E s \in Saver : saveToRedis(s) \/ saveFails(s)
    \/ \E i \in Id : ObjectExpires(i)

ObjectNext == (PipelineNext /\ UNCHANGED objectReaderVars) \/ ObjectReaderStep

ObjectSpec == ObjectInit /\ [][ObjectNext]_objectVars

\* Goroutines run, Redis answers or fails; select takes a ready ticker case in
\* the end although the channel is ready too, and a goroutine that waits to
\* send gets its turn.  Nothing makes a change happen, a reader read, or the
\* process shut down.
ObjectFairSpec ==
    /\ ObjectSpec
    /\ \A p \in Publisher :
          /\ WF_objectVars(ListenWarns(p) /\ UNCHANGED objectReaderVars)
          /\ WF_objectVars(ListenOpen(p) /\ UNCHANGED objectReaderVars)
          /\ SF_objectVars(ListenSends(p) /\ UNCHANGED objectReaderVars)
          /\ WF_objectVars(ListenPanics(p) /\ UNCHANGED objectReaderVars)
    /\ \A j \in Job : WF_objectVars(JobStep(j) /\ UNCHANGED objectReaderVars)
    /\ SF_objectVars(TickerFlush /\ UNCHANGED objectReaderVars)
    /\ SF_objectVars(ReceiveEvent /\ UNCHANGED objectReaderVars)
    /\ WF_objectVars(DeferStep /\ UNCHANGED objectReaderVars)
    /\ WF_objectVars(ShutdownStep /\ UNCHANGED objectReaderVars)

-----------------------------------------------------------------------------
(* Properties                                                              *)

\* Every variable has its type: the one type invariant of the two modules.
ObjectTypeOK ==
    /\ PipelineTypeOK
    /\ cache   \in [Id -> Version \cup {Absent}]
    /\ reading \in [Reader -> SUBSET Id]
    /\ saves   \in [Saver -> SUBSET Entry]
    /\ bornStale \in SUBSET Id

Stale(i) == cache[i] # Absent /\ cache[i] < db[i]

\* A value that was the current one when it was cached and is not any more has
\* its invalidation under way, unless the deletion failed or the cleaner did not
\* take the event: none is forgotten between Publish and DEL
\* (object_cache_proxy.go:40-47, 96-154).
StaleIsUnderWay ==
    \A i \in Id :
       Stale(i) /\ i \notin bornStale \cup failed \cup dropped =>
          InvalidationUnderWay(i)

\* ... and it gets there: such a value does not stay in the cache, unless the mapping has
\* panicked and nobody reads the channel any more (object_cache_proxy.go:124-145): then the
\* publisher of any record may wait in its send for ever.
StaleGoes ==
    \A i \in Id :
       Stale(i) ~> ~Stale(i) \/ i \in bornStale \cup failed \cup dropped \/ CleanerGone

\* Seen from outside, the cache and its pipeline are an InvalidatedCache.
Objects == INSTANCE InvalidatedCache WITH
              cached  <- {i \in Id : cache[i] # Absent},
              stale   <- {i \in Id : Stale(i)},
              pending <- UnderWay,
              lost    <- failed \cup dropped

\* Every step is one that such a cache may take: no deletion is sent for without a change
\* of its record or ends before the key is gone but by a failure, a change makes what is
\* cached of its record stale at once, and nothing else does but the saving of a value
\* that was read before it (object_cache_proxy.go:96-154, 217-226).
ObjectsSpec == Objects!Spec
=============================================================================
