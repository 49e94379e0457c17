--------------------------- MODULE SliceCacheProxy ---------------------------
(***************************************************************************)
(* The list cache of data/slice_cache_proxy.go: a sorted set in Redis      *)
(* holds the first CacheCapacity members of a list of the data source, and *)
(* a marker after them when the list has no more.  A reader that does not  *)
(* find its whole page there starts a goroutine that loads the key, next   *)
(* to the pipeline that deletes the keys of changed lists.                 *)
(*                                                                         *)
(* A member stands for its place in scoreOrder, the same in every version  *)
(* of a list, and the marker for the last place.  ZADD adds to the members *)
(* that are there, so that what a key holds is determined by the versions  *)
(* of the list that were added to it.  A page is a set: its order is that  *)
(* of its members.  The data source is taken to honour the range it is     *)
(* asked for.                                                              *)
(***************************************************************************)
EXTENDS StaleKeyCleaner, FiniteSets

CONSTANTS
    Member,             \* places of list members: positive numbers
    Marker,             \* getFinalZMember, after every member
    CacheCapacity,      \* how many members are cached
    MaxOffset,          \* bound: the offsets of the pages that are read
    MaxLimit,           \* bound: their limits
    Reloader,           \* bound: concurrent goroutines that reload
    ExpireTime          \* expiration of the keys

ASSUME SliceCacheAssumption ==
    /\ Member \subseteq Nat \ {0} /\ IsFiniteSet(Member)
    /\ Marker \in Nat /\ \A m \in Member : m < Marker
    /\ CacheCapacity \in Nat \ {0} /\ ExpireTime \in Nat
    /\ MaxOffset \in Nat /\ MaxLimit \in Nat \ {0}

VARIABLES
    list,       \* what the list of each id is in each version
    at,         \* where each reload is
    target,     \* the id it is for
    loaded,     \* the version of the list it has read
    unexpiring  \* history: ids whose EXPIRE failed and was only logged

sliceReaderVars == <<list, at, target, loaded, bornStale, unexpiring>>
sliceVars == <<pipelineVars, sliceReaderVars>>

Key == [versions : (SUBSET Version) \ {{}}, expires : BOOLEAN]

ASSUME AbsentAssumption == Absent \notin Key

SliceInit ==
    /\ PipelineInit
    /\ list \in [Id -> [Version -> SUBSET Member]]
    /\ at     = [k \in Reloader |-> "idle"]
    /\ target \in [Reloader -> Id] /\ \A k, n \in Reloader : target[k] = target[n]
    /\ loaded = [k \in Reloader |-> 0]
    /\ bornStale = {} /\ unexpiring = {}

(***************************************************************************)
(* Pages.                                                                  *)
(***************************************************************************)

\* A RangeInfo: the place after which the page begins, 0 for FromBeginning;
\* a limit below 1 is taken for 1.
Info == [after : {0} \cup Member, offset : 0 .. MaxOffset, limit : 1 .. MaxLimit]

\* The elements of S that a range query with these arguments returns.
Page(S, info) ==
    LET rest == {m \in S : m > info.after} IN
       {m \in rest : Cardinality({n \in rest : n <= m})
                        \in info.offset + 1 .. info.offset + info.limit}

\* What reloadRedis asks the data source for.
FirstMembers(S) == Page(S, [after |-> 0, offset |-> 0, limit |-> CacheCapacity])

\* Mutant: the marker is set for a list that fills the capacity, too.
ToRedisAlways(S) ==
    FirstMembers(S) \cup
       (IF Cardinality(FirstMembers(S)) <= CacheCapacity THEN {Marker} ELSE {})

\* What reloadRedis adds for a list: the marker, if fewer came than asked for.
ToRedis(S) ==
    FirstMembers(S) \cup
       (IF Cardinality(FirstMembers(S)) < CacheCapacity THEN {Marker} ELSE {})

\* The sorted set under the key of i.
Sorted(i) ==
    IF cache[i] = Absent THEN {}
    ELSE UNION {ToRedis(list[i][v]) : v \in cache[i].versions}

\* What a Get finds in Redis and gives to its caller.
Found(i, info) == Page(Sorted(i), info)
Data(i, info)  == Found(i, info) \ {Marker}

\* Enough members, or the marker: the data source is not asked.
Hit(i, info) ==
    Cardinality(Data(i, info)) = info.limit \/ Marker \in Found(i, info)

(***************************************************************************)
(* Get.                                                                    *)
(***************************************************************************)

\* A hit, or a failing Redis: the caller gets the page, or that of the data
\* source, and nothing changes.
SliceHit(i) == RedisOpen /\ (\E info \in Info : Hit(i, info)) /\ UNCHANGED sliceVars

GetFromSource(i) == (RedisMayFail \/ ~RedisOpen) /\ UNCHANGED sliceVars

\* A miss: the caller gets the page of the data source, and a goroutine sees
\* to the key.
SliceMiss(i) ==
    \E k \in Reloader :
       /\ RedisOpen /\ at[k] = "idle" /\ \E info \in Info : ~Hit(i, info)
       /\ at'     = [at EXCEPT ![k] = "exists"]
       /\ target' = [target EXCEPT ![k] = i]
       /\ UNCHANGED <<pipelineVars, list, loaded, bornStale, unexpiring>>

(***************************************************************************)
(* reloadRedisIfNotExists and reloadRedis.                                 *)
(***************************************************************************)

Goto(k, s) == at' = [at EXCEPT ![k] = s]

reloadRedisIfNotExists(k) ==
    /\ at[k] = "exists" /\ RedisOpen
    /\ Goto(k, IF cache[target[k]] = Absent THEN "source" ELSE "idle")
    /\ UNCHANGED <<pipelineVars, list, target, loaded, bornStale, unexpiring>>

\* EXISTS or the data source fails: the reload ends.
ReloadFails(k) ==
    /\ \/ at[k] = "exists" /\ (RedisMayFail \/ ~RedisOpen)
       \/ at[k] = "source"
    /\ Goto(k, "idle")
    /\ UNCHANGED <<pipelineVars, list, target, loaded, bornStale, unexpiring>>

ReadSource(k) ==
    /\ at[k] = "source"
    /\ loaded' = [loaded EXCEPT ![k] = db[target[k]]]
    /\ Goto(k, "zadd")
    /\ UNCHANGED <<pipelineVars, list, target, bornStale, unexpiring>>

\* ZADD creates the key, without an expiration, or adds to it.
Added(c, v) ==
    IF c = Absent THEN [versions |-> {v}, expires |-> FALSE]
                  ELSE [c EXCEPT !.versions = @ \cup {v}]

ZAdd(k) ==
    LET i == target[k] IN
    /\ at[k] = "zadd" /\ RedisOpen
    /\ cache' = [cache EXCEPT ![i] = Added(@, loaded[k])]
    /\ bornStale'  = IF loaded[k] < db[i] THEN bornStale \cup {i}
                     ELSE IF cache[i] = Absent THEN bornStale \ {i} ELSE bornStale
    /\ unexpiring' = IF cache[i] = Absent THEN unexpiring \ {i} ELSE unexpiring
    /\ Goto(k, "expire")
    /\ UNCHANGED <<db, pubVars, chanVars, cleanerVars, shutdown, failed, dropped,
                   list, target, loaded>>

\* A failing ZADD is logged, and EXPIRE sent all the same.
ZAddFails(k) ==
    /\ at[k] = "zadd" /\ (RedisMayFail \/ ~RedisOpen)
    /\ Goto(k, "expire")
    /\ UNCHANGED <<pipelineVars, list, target, loaded, bornStale, unexpiring>>

\* Mutant: a key is given its expiration only by the reload that created it.
ExpireIfOwn(k) ==
    LET i == target[k] IN
    /\ at[k] = "expire" /\ RedisOpen
    /\ cache' = IF cache[i] = Absent \/ cache[i].versions # {loaded[k]} THEN cache
                ELSE [cache EXCEPT ![i].expires = TRUE]
    /\ Goto(k, "idle")
    /\ UNCHANGED <<db, pubVars, chanVars, cleanerVars, shutdown, failed, dropped,
                   list, target, loaded, bornStale, unexpiring>>

\* EXPIRE, for whatever the key holds by now; Redis takes an expiration of 0
\* for one that is over and deletes the key.
Expire(k) ==
    LET i == target[k] IN
    /\ at[k] = "expire" /\ RedisOpen
    /\ cache' = IF cache[i] = Absent THEN cache
                ELSE IF ExpireTime = 0 THEN [cache EXCEPT ![i] = Absent]
                ELSE [cache EXCEPT ![i].expires = TRUE]
    /\ Goto(k, "idle")
    /\ UNCHANGED <<db, pubVars, chanVars, cleanerVars, shutdown, failed, dropped,
                   list, target, loaded, bornStale, unexpiring>>

\* EXPIRE fails, as when the request, whose context the goroutine uses, ends.
ExpireFails(k) ==
    /\ at[k] = "expire" /\ (RedisMayFail \/ ~RedisOpen)
    /\ unexpiring' = unexpiring \cup {target[k]}
    /\ Goto(k, "idle")
    /\ UNCHANGED <<pipelineVars, list, target, loaded, bornStale>>

\* Redis drops a key whose time is over.
KeyExpires(i) ==
    /\ cache[i] # Absent /\ cache[i].expires
    /\ cache' = [cache EXCEPT ![i] = Absent]
    /\ UNCHANGED <<db, pubVars, chanVars, cleanerVars, shutdown, failed, dropped,
                   sliceReaderVars>>

ReloadStep(k) ==
    \/ reloadRedisIfNotExists(k) \/ ReloadFails(k) \/ ReadSource(k)
    \/ ZAdd(k) \/ ZAddFails(k) \/ Expire(k) \/ ExpireFails(k)

SliceReaderStep ==
    \/ \E i \in Id : SliceHit(i) \/ SliceMiss(i) \/ GetFromSource(i) \/ KeyExpires(i)
    \/ \E k \in Reloader : ReloadStep(k)

SliceNext == (PipelineNext /\ UNCHANGED sliceReaderVars) \/ SliceReaderStep

SliceSpec == SliceInit /\ [][SliceNext]_sliceVars

-----------------------------------------------------------------------------
(* Properties                                                              *)

\* Every variable has its type: the one type invariant of this module.
SliceTypeOK ==
    /\ PipelineTypeOK
    /\ cache  \in [Id -> Key \cup {Absent}]
    /\ list   \in [Id -> [Version -> SUBSET Member]]
    /\ at     \in [Reloader -> {"idle", "exists", "source", "zadd", "expire"}]
    /\ target \in [Reloader -> Id]
    /\ loaded \in [Reloader -> Version]
    /\ bornStale \in SUBSET Id /\ unexpiring \in SUBSET Id

\* A key that got one version of its list answers every range it answers at
\* all as the data source did in that version: the marker and the count of
\* members tell an end of the list from an end of the cached part, for every
\* start, offset and limit (slice_cache_proxy.go:283-292, 359-365).
HitsAreExact ==
    \A i \in Id, info \in Info :
       cache[i] # Absent /\ Hit(i, info) =>
          \A v \in Version : cache[i].versions = {v} =>
             Data(i, info) = Page(list[i][v], info)

\* The key of i holds members of an old version.
OldIn(i) == cache[i] # Absent /\ \E v \in cache[i].versions : v < db[i]

\* A key that holds members of an old version has its invalidation under way,
\* unless they were old when they were added, or the deletion failed, or the
\* cleaner did not take the event (slice_cache_proxy.go:75-82, 160-218).
StaleListIsUnderWay ==
    \A i \in Id :
       OldIn(i) /\ i \notin bornStale \cup failed \cup dropped =>
          InvalidationUnderWay(i)

\* A key without an expiration is about to get one, whichever of concurrent
\* reloads created it and whatever was deleted in between, unless an EXPIRE
\* failed (slice_cache_proxy.go:368-381).
ExpirationUnderWay ==
    \A i \in Id :
       cache[i] # Absent /\ ~cache[i].expires /\ i \notin unexpiring =>
          \E k \in Reloader : at[k] = "expire" /\ target[k] = i

\* Seen from outside, the cache and its pipeline are an InvalidatedCache.
Lists == INSTANCE InvalidatedCache WITH
            cached  <- {i \in Id : cache[i] # Absent},
            stale   <- {i \in Id : OldIn(i)},
            pending <- UnderWay,
            lost    <- failed \cup dropped

\* Every step is one that such a cache may take, however reloads, deletions and
\* expirations overlap: members of an old version get into a key only by a reload that
\* read them before the change, ZADD takes none of them out of it, and no deletion is
\* sent for without a change of its list or ends before the key is gone but by a failure
\* (slice_cache_proxy.go:160-218, 354-381).
ListsSpec == Lists!Spec
=============================================================================
