# TLA+ models of go-butler

go-butler is a library for Go services: it builds and shuts down the resources
a service declares in its configuration (package `common` and `internal/`) and
adds a caching layer, a distributed lock and an id generator (package `data`).
The modules here model the parts of it that run concurrently, across processes
or against an unreliable Redis; TLC checks them on small instances, and TLAPS
proves the main safety properties for every value of the constants.

## Inventory

| component | code | state | operations | interacts with | hard behaviour |
|---|---|---|---|---|---|
| id generator | `data/snowflake.go` | `idGenerator0`, `snowflakeOnce`, the Redis counter of worker ids | `NextSnowflakeID`, `InitIDGenerator` | Redis (`INCR`), the wall clock | many goroutines on one mutex, sequence overflow, a clock that is set back, worker ids that wrap, a failed first call |
| distributed lock | `data/cloud_clock.go` | `lockID`, the Redis key, timers | `TryLock`, `Lock`, `Unlock` | Redis (`SET NX PX`, a script) | expiration against unlock, lost replies and resends, crashes, a timer racing a ticker |
| object cache proxy | `data/object_cache_proxy.go` | `daoEventChan`, its closed flag, the cleaner's `ids`, keys in Redis | `Get`, `Listen`, cleaner loop, `delKeys`, shutdown function | repository, data source, Redis, shutdown registry | stale values, batches, a full channel, shutdown in the middle |
| slice cache proxy | `data/slice_cache_proxy.go` | the same, and sorted sets with a marker | `Get`, `reloadRedis`, `GetFromSource` | the same | concurrent reloads, `ZADD` and `EXPIRE` apart |
| repository | `data/repository.go` | listeners | `AddListener`, `Publish` | cache proxies | listeners added while events are published |
| shutdown registry | `internal/env/components.go`, `common.go` | `appShutdownFuncs`, the `sync.Once`s of shared clients | `AddShutdownFunc`, `CloseComponents`, `Close`, `WaitClose` | every component | order, panics, unsynchronised registration, requests under way |
| etcd registration | `etcd/register.go` | `leaseID`, `keepAliveChannel`, the key in etcd | `Start`, `doRegister`, `unregister`, `keepAlive` | etcd, resolvers | lost leases, registration anew, requests that fail and are applied |
| etcd resolver | `etcd/resolver.go` | `watchChan`, `key2Addr`, the `ClientConn` | `Build`, `ResolveNow`, `watch`, `Close` | etcd, grpc | events against reads, goroutines that outlive their watch |
| grpc | `grpc/*.go` | connections, servers | interceptors, dial, serve, stop | contexts, etcd | recover, timeouts, answers that come too late |
| kafka | `kafka/*.go` | `setupReady`, `ctx`, the consumer group session, producers | `StartKafkaConsumer`, `Setup`, `ConsumeClaim`, `close`, send | brokers | rebalances, redelivery, crash between handling and commit |
| rocketmq | `rocketmq/*.go` | client | start, subscribe, produce | brokers | start order |
| http, gin | `http/*.go`, `gin/*.go` | server | handlers | contexts, log | graceful stop, panics |
| contexts | `internal/contexts/context.go` | the store: id, tags, log fields, debug logs | `AddLogFields`, `Logger`, `CopyContext` | all handlers | slices that share a backing array, a store that goroutines share |
| logging | `internal/log/*.go` | loggers, `logOnce`, debug logs of a request | first use, output | config, registry | initialisation that registers a shutdown function |
| redis, mysql | `redis/redis.go`, `mysql/mysql.go` | clients | build, close | config, registry | retries, a half-built client |
| config, env, metrics, facade | `internal/env`, `config.go`, `facade.go` | settings | read | all | none |

What makes each of the modelled components correct:

- *id generator*: no id twice, ids of a process grow, no call is refused or
  stuck without a reason.
- *lock*: one holder at a time within the lease; nobody but the owner or the
  expiration ends a lock; no lock is orphaned; `Lock` returns.
- *object cache*: a change is never forgotten on its way to the `DEL`; publishers
  and the shutdown do not hang, the shutdown not even after a panic of the cleaner; it
  leaves nothing behind.
- *slice cache*: what Redis answers is what the data source would have answered
  (an end of the cached part is never taken for an end of the list); no key is
  left without an expiration; a change is never forgotten.
- *components*: what several goroutines need is made once; shutdown functions run
  once, in reverse order; the requests of a server or consumer that waits for them in
  its shutdown function find open what they use; what was opened is closed in the
  end, and the closing ends.
- *registration and resolver*: a server that runs is registered, one that is gone is
  not; the address list of a connection is that of etcd once all events are applied,
  and follows it as long as etcd does not end the watch.
- *kafka*: no message is committed before it was handled; every message is handled;
  `Setup` does not close a channel twice; `close` returns and leaves nothing behind.
- *requests*: a log line has its own fields, all of them and no others; the caller
  gets the logs of the server and the error that the handler returned.

`PROJECT.json` lists under `hazards` where the code is exposed, with the
properties that would catch each going wrong. Where the code does go wrong, or
nothing in it prevents that, a hazard, or the half of it that its note calls *not
covered*, has no property: the note names the condition under which the properties
exempt it, and the section on violations describes it.

## Modules

| module | what it is |
|---|---|
| `Snowflake` | id generator: processes, goroutines, clocks, the Redis counter |
| `SnowflakeProofs` | its theorems |
| `LeaseLock` | abstract: a lock with a lease |
| `CloudLock` | distributed lock, Redis key, Redis client, time; implements `LeaseLock` |
| `CloudLockProofs` | its theorems, the refinement among them |
| `InvalidatedCache` | abstract: a cache whose entries are deleted after their data changed, and its theorem |
| `StaleKeyCleaner` | publishers, channel, cleaner goroutine, `delKeys`, shutdown |
| `ObjectCacheProxy` | extends it with the readers and the expiration of keys; implements `InvalidatedCache` |
| `SliceCacheProxy` | extends `StaleKeyCleaner` with the readers and reloads of cached lists; implements `InvalidatedCache` |
| `CacheProofs` | theorems about the pipeline and the two caches, their refinement among them |
| `Components` | everything a process makes, the registry of shutdown functions, requests, the shutdown |
| `ComponentsProofs` | its theorems |
| `ServiceRegister` | servers that register in etcd, and etcd with its leases |
| `Resolver` | extends it with the address list of a client connection |
| `ResolverProofs` | theorems about the two |
| `KafkaConsumer` | the consumers of a group: sessions, rebalances, marks and commits |
| `KafkaProofs` | its theorems |
| `Requests` | one request across a grpc call: stores, interceptors, debug logs |
| `RequestsProofs` | its theorems |
| `MC*` | instances for TLC, one `.cfg` for each run |

An operator whose comment begins with *Mutant* is a deliberately wrong variant
of the definition after it. No specification uses it; put in the place of that
definition it shows that a property can fail. `CacheProofs` extends both cache models,
so the names they would have in common begin with `Object` or `Slice`.

### Snowflake

A member of `Proc` is one run of a process: nothing of the generator survives a
restart but the Redis counter, so a restarted process is one more member.
`once`, `gen` and `lock` are `snowflakeOnce`, `idGenerator0` and the mutex; `pc`
and `ts` are where a goroutine is and its local variable. A call goes through
`NextSnowflakeID` (arrival at `sync.Once`), `OnceDo` / `OnceDone`,
`initIDGeneratorByRedis` or `initPanics`, `NotInitialized` or `Lock`,
`timeGen`, and then one of `IssueID`, `RefuseBackwards` or `SequenceExhausted`
followed by `timeReGen`. The clock may advance between any two of these steps,
as it does in the code. `RefuseBackwards` resets the sequence because the code
does so before it compares. `IncrResent` is the Redis client sending the `INCR`
again after a lost reply. An id is the record of the three fields that line 132
packs into an `int64`. The width of the fields (42 bits of milliseconds since
2017) is not modelled.

### CloudLock

A member of `Client` is one `CloudLock` object. A command is sent (`net =
"sent"`), served by Redis (`ServeSetNX`, `ServeEval`), and its reply is taken by
the goroutine (`Acquired`, `NotAcquired`, `StartTimers`, `RetryFailed`,
`Unlocked`) or never comes (`Resend`, `Error`). A command the client library gave up on may be applied later (`ServeLate`; `LateCommands` are the objects this can
happen to, and `MayReuse` those that are locked again after their first use). `Tick` is a
unit of time: it counts down the key's expiration, the lease as its client counts
it from the sending of `SET NX`, the timer and the ticker. Every action of the
client may come at any time between two ticks, so replies are arbitrarily slow.
`Unlock` may be called by an object that never got the lock, as a deferred call
does.

### StaleKeyCleaner and ObjectCacheProxy

The version of a record in the data source is a counter, and a cached value is
the version it was read at. `Mutate` is the change of a record; its publisher then
goes through `Listen`: `ListenWarns` or `ListenOpen` at the flag, `ListenSends` or
`ListenPanics` at the channel. The cleaner collects ids (`ReceiveEvent`) and hands
batches to goroutines (`GoDelKeys`, from the ticker or a full batch), each of
which deletes one key after another (`Del`) or fails (`DelFails`). When the
channel is closed and empty, `ChannelDrained` begins the deferred function,
whose own deletions are `LastDel`; so does a panic of the user's mapping
(`MappingPanics`), after which nobody receives events until the shutdown, and the process
dies of the panic when the shutdown has taken the cleaner's signal. `SetClosedFlag`, `CloseChan`, `CleanerClosed`
and `CloseRedis` are the shutdown, in the order in which `CloseComponents` runs
the functions of a proxy and of its Redis client. Readers hit (`ObjectHit`), miss
(`ObjectMiss`), read the data source (`GetFromDataSource`, `GetFails`) and start
`saveToRedis`. `failed`, `dropped` and `bornStale` are history variables: ids
whose deletion failed, whose event the cleaner did not take, and whose value was out of
date when it was set. That a change is published after it is made is how the
repository is meant to be used; the code that does it is the user's.

`InvalidatedCache` is what this comes to for one who looks at Redis only: `Change`
makes what is cached of a record stale and sends for its deletion, which is then
`pending` until `Delete` or `Lose`; an entry is filled (`FillFresh`, `FillOld`) or
expires. `Objects` maps to it: `cached` and `stale` are the ids with a key, and with a
key of an old version; `pending` are those `UnderWay` anywhere between the publisher and
the `DEL`, whatever their number there; `lost` are `failed` and `dropped`.

### SliceCacheProxy

Each list is a set of members in each version, chosen freely in the initial state; a
member is a number for its place in the score order, the same in every version, and
the marker that `getFinalZMember` makes is the place after all others. What a key
holds is kept as the set of versions whose members were added to it (`ZADD` never
removes any) and whether it has an expiration; `Sorted` gives its members, with
the marker where `ToRedis` puts one. `Page` is the range query, of Redis and of the
data source alike: `after`, `offset` and `limit` are the start score, with
`IncludeStartScore` moving it by one place, and the other two fields of
`RangeInfo`. A `Get` whose page is complete or reaches the marker is `SliceHit`;
`GetFromSource` is its answer when Redis fails; `SliceMiss` starts a goroutine, which
goes through `reloadRedisIfNotExists`, `ReadSource`, `ZAdd` or `ZAddFails`, and
`Expire` or `ExpireFails`, or ends early in `ReloadFails`. Changes, deletions and
other reloads may come between any two of these steps. `unexpiring` is a history variable:
ids whose `EXPIRE` failed, as it does when the request is over whose context the
goroutine was given. An `ExpireTime` of 0 deletes the key, as `EXPIRE` with 0 does.
`Lists` maps all this to `InvalidatedCache` too, where a list is `stale` when its key
holds members of an old version, of whichever reload.

### Components

A member of `Thread` is a goroutine that makes one resource, and stands for that
resource too; `Programs` says who makes what. `Call` is the call of a function such as
`GetRedisClient` or `StartGrpcServer`; it goes through the `sync.Once`s on its way
(`Needs`: `OnceRuns`, then `loadLogConfig`, `initEtcdClient`, `initProducers` or
`initRocketMQProducers`, then `OnceDone`), and then through its own body, which
succeeds, fails, or fails and leaves something open (`FailsOpen`: a database whose
ping failed). `AddShutdownFunc` is a read of the list and a write of it
(`ReadShutdownFuncs`, `WriteShutdownFuncs`), because nothing locks it. Servers and
consumers handle requests (`RequestBegins`, `RequestEnds`) that use the clients made
before. `CloseComponents` takes the list once, and `StopAccepting` and
`RunShutdownFunc` are a shutdown function's two halves: nothing more is accepted, then
it waits as long as this kind of resource does (`MayStop`) and closes. A second call of
`Close` or `WaitClose`, which would run the list again, is not modelled: `facade.go`
and `common.go` are meant to be called once. `GetGorm` fails, fails and leaves
something open, or succeeds in one step: an attempt that leaks before one that
succeeds is not told apart. A panic in one
is recovered; a panic in a goroutine of the library, as by a nil etcd client or a
topic that is not configured, ends the process (`Crashes`). `lost`, `late` and
`leaked` are history variables that name what stays open for a reason.

### ServiceRegister and Resolver

`ServiceRegister` has a goroutine per host: `Grant` and `Put` are `doRegister`, and
`Revoke` is what `keepAlive` does when its channel closes (`KeepAliveStops`), after
which `doRegister` runs again. The three tries of `unregister` run beside it. etcd is
a set of leases, a key per host, and the list of events on the keys, whose length is the
revision. A request succeeds, fails, fails for its client and is applied, or is
applied later (`Errs`, `AppliedLate`). `Grant` may also be followed by an error of
`KeepAlive` itself: the lease is there, `leaseID` is set, and nobody keeps it alive. A lease whose client keeps it alive runs out only
as a fault. The client library keeps a lease alive until the process ends, that of a failed
first `doRegister` too. `Crash` and `Ends` end a process, and another one may start on the
same host. `Resolver` extends this with one client connection: `ResolveNow` cancels the
watch, `Get` reads at a revision that may be old (the read is serializable), and
`SetAddrs` sets the list and starts a goroutine `watch(w)` that evaluates the
`watchChan` field only when it gets to run, so that it may find nil or a later
channel. Each event is applied under the lock (`Receive`), and then a second
`notify()` reads (`NotifyReads`) and pushes (`UpdateState`) the list without it. The
channel is closed when the watch is cancelled, by the resolver or by etcd
(`WatchCanceled`: its revisions were compacted, or the error is not one that the client
recovers from); the goroutine then returns (`RangeEnds`), and `watchChan` stays as it is.
`overtaken` and `disturbed` are history variables: lists or events that came out of
order since the last read, and hosts whose key a late request changed.

### KafkaConsumer

A member of `Process` calls `StartKafkaConsumer` once (`main`) and runs `start()` in a
goroutine (`loop`): it joins the group, gets a session at a `Rebalance`, and when that
ends returns from `Consume` and makes a new channel (`ConsumeReturned`). `AwaitSetup`
is `<-kc.setupReady`, which reads the field once. `ConsumeClaim` is `Receive`,
`consumeWithRecover` and `MarkMessage`; a mark is committed each second (`AutoCommit`)
or when the session ends (`Release`), if the broker still takes this member for one of the
present generation. Without a committed offset a session begins at the end of the log
(`OffsetNewest`). Processes crash, are put out as they do not answer, and shut
down (`Close`, `Closed`, or `Exit` when the shutdown function was never added). The
coordinator and the sarama library are external: they are modelled from what the
code calls and configures.

### Requests

One request that makes one grpc call. `basicHandlerFunc` (gin) sets up the caller's
store, `Invoke` and `Returns` or `GivesUp` are the client interceptor; the server goes
through `basicUnaryServerInterceptor`, `timeoutBefore`, the handler, and back through the
recover, timeout and basic interceptors (`HandlerReturns`, `HandlerPanics`, `Answers`). The
handler and a goroutine it gave a copy of its context each add log fields and write
lines; an append is a write into the array behind the slice when there is room
(`AppendTo`), and the assignment of the slice a later step (`FieldsAdded`), so that
overlapping uses do to each other what they do in Go. How much room a new array has is
the runtime's choice: `Cap` may be any function that gives enough. Lines are numbers in the order
in which the handler and its interceptors wrote them; 0 is a line of another goroutine
or of the caller. `added`, `owed`, `line`, `logged`, `outcome` and `overlapped` are
history variables.

In all the models that use Redis it is one store that applies commands one at a time;
a fail-over that forgets writes is not modelled.

## Runs

| run | shows | bounds |
|---|---|---|
| `snowflake` | ids are unique, grow, and no call is refused | 2 processes of 2 goroutines, 3 milliseconds, 2 sequences each, one resent `INCR` |
| `snowflake_live` | timestamps never decrease, every call returns | 1 process of 2 goroutines, a clock that is set back, worker ids by hand and from Redis |
| `snowflake_clock_bug` | **violation**: a duplicate after the clock was set back | 1 goroutine |
| `lock` | the holder owns the key and is alone; refinement of `LeaseLock`; keys expire, `Lock` returns | 2 objects, one with late commands and one used again and again; 1 resend, expiration 2, timer 2, ticker 1 |
| `cache` | refinement of `InvalidatedCache` (so no invalidation is forgotten); the shutdown drains | 2 records, 2 publishers, channel of 1, batches of 2, a mapping that may panic |
| `cache_live` | stale values go, publishers get through and the shutdown returns, the first two unless the cleaner panicked | 2 records with 3 changes (`FewChanges`), 2 publishers, a mapping that may panic; a read or a save at a time (`FewReads`), and a Redis that fails when its client is closed |
| `cache_panic` | **violation**: a send on the closed channel | 1 publisher |
| `slice` | pages answered from Redis are exact, keys get their expiration; refinement of `InvalidatedCache` (so no change is forgotten) | 1 list of up to 3 members in 2 versions, capacity 2, offsets to 1, limits to 2, 2 reloads |
| `components` | functions run in reverse order; requests find what they use open, but for those of a server or consumer that nothing guards (`Unguarded`); what stays open has a reason; the closing ends | 3 goroutines, 4 programs with every kind of resource |
| `resolver` | a healthy server is registered, its key comes back and goes, the address list is current and follows | 1 host, 3 leases, 2 faults (lost requests or leases, watches that etcd ends, crashes), 2 reads of the resolver, 3 faults and reads together, 2 tries of `unregister`, late requests |
| `kafka` | only what was handled is committed, every message is handled, no panic, `close` returns and is quiet | 2 processes started 3 times, 1 partition, 2 messages, 1 fault |
| `requests` | lines are whole; who gets an answer gets the debug logs, and the error of the handler unless that panicked | 2 goroutines on one store, 2 operations each, arrays of 4, 8 or 16 (`Doubling`) |

Why these bounds are enough: two sequences per millisecond make exhaustion as
common as a plain increment; two goroutines are needed to meet at the mutex and at
`sync.Once`, two processes to take worker ids apart. An expiration of two ticks lets
a command fall before, at and after the expiration, and two objects give
an owner and a rival, each of whom can be the one whose command comes late. A channel of one
event and batches of two make "full", "half a batch" and "batch complete" occur
within a few changes; with a second record a publisher can wait on the channel
that the first one filled. `FewChanges` and `FewReads` are constraints of TLC: the one
leaves the second record one change, and a shutdown three changes only when nothing is
cached, the other no reader that waits while a value is saved. They cut off changes, reads and the
beginning of a shutdown, none of which is asked for by fairness, and so no behaviour
that makes progress by itself. Lists of up to three members with room for two are shorter
than, as long as and longer than the capacity; pages of one or two from any place
end before, at and after the end of the cached part. Two reloads are what
can meet at one key, and a third repeats one of them. The pipeline, whose batches the
`cache` runs explore, deletes at each event in the `slice` runs. Three goroutines
let one `AddShutdownFunc` overlap with two others, and a server have a client
before it and a registration after it. Two reads of the resolver leave one goroutine
behind while another starts; three leases and two faults let a host lose a lease,
register again, crash and start anew; a single host is enough as the keys of
different hosts do not depend on each other. Two consumers are an owner and the one that
takes over, and a third start brings one back. Two operations per goroutine fill the
array of four and grow it. `InTurnPicksLines` is an assumption that TLC evaluates: the
two ways to say that logs are in turn agree.

`MaxClock`, `MaxIncr`, `MaxIssued`, `MaxVersion`, `FewChanges`, `FewReads`, `Job`, `Saver`, `Reloader`,
`MaxOffset`, `MaxLimit`, `MaxLease`, `MaxFaults`, `MaxResolve`, `MaxTrouble`,
`MaxMessages`, `MaxStarts` and `MaxOps` are bounds of the models and no limits of the
code; `MaxTries` stands for the three tries of `unregister`, and `ClockBoundReached`
is the end of the modelled time. All other constants are parameters of the code.

Fairness. Goroutines run (fairness of their steps); Go's mutex does not
starve a waiter and a `select` with two ready cases picks one at random, so steps
that can be disabled again and again by others' progress get strong fairness
(`Lock`, `TimerCase`, `TickerFlush`, `ReceiveEvent`, `ListenSends`). Redis answers or fails, and time
passes; in `snowflake_live` a clock may be set back any number of times but reaches
the last millisecond of the model in the end, without which `timeReGen` may spin for ever. No fairness makes a client call, a record change, a command fail or
the process shut down. In `Components` the closing goroutine runs and handlers return,
as `GracefulStop` relies on. In `ServiceRegister` and `Resolver` the goroutines run,
etcd notices a lease that nobody keeps alive, and a client that its lease is gone. In
`KafkaConsumer` the loops run and handlers return, and the coordinator ends its
rebalances and notices who died; a fault is never fair. `Requests` has no
liveness property and no fairness.

## Proofs

| theorem | statement | assumptions |
|---|---|---|
| `SnowflakeProofs!TypeCorrect` | `TypeOK` | none |
| `SnowflakeProofs!TimestampsOrdered` | `TimestampsNeverDecrease` | none: the clock may do what it likes |
| `SnowflakeProofs!IDsIncrease` | `IncreasingIDs` | the clock is never set back |
| `SnowflakeProofs!ClockNeverBlamed` | `NeverRefused` | the same |
| `SnowflakeProofs!IDsUnique` | `UniqueIDs` | the same, and no worker ids by hand |
| `CloudLockProofs!TypeCorrect` | `TypeOK` | none |
| `CloudLockProofs!HoldersOwnTheKey` | `HolderOwnsKey` | none (the property carries its condition) |
| `CloudLockProofs!LockExcludes` | `MutualExclusion` | no object is both used again and late with its commands |
| `CloudLockProofs!UnlocksOwnKeyOnly` | `OnlyOwnUnlock` | none |
| `CloudLockProofs!CloudLockImplementsLease` | `LeaseSpec` | as `LockExcludes` |
| `InvalidatedCache!ForgetsNothing` | `NothingForgotten` | none |
| `CacheProofs!ObjectTypeCorrect` | `ObjectTypeOK` | none |
| `CacheProofs!ObjectShutdownDrains` | `DrainedWhenClosed` of an object cache | none |
| `CacheProofs!ObjectCacheImplements` | `ObjectsSpec` | none |
| `CacheProofs!NoInvalidationForgotten` | `StaleIsUnderWay` | none |
| `CacheProofs!SliceTypeCorrect` | `SliceTypeOK` | none |
| `CacheProofs!SliceShutdownDrains` | `DrainedWhenClosed` of a slice cache | none |
| `CacheProofs!SliceCacheImplements` | `ListsSpec` | none |
| `CacheProofs!NoChangeForgotten` | `StaleListIsUnderWay` | none |
| `CacheProofs!HitsExact` | `HitsAreExact` | none |
| `CacheProofs!KeysGetExpirations` | `ExpirationUnderWay` | none |
| `ComponentsProofs!TypeCorrect` | `TypeOK` | none |
| `ComponentsProofs!RunInReverseOrder` | `ReverseOrder` | none |
| `ComponentsProofs!RequestsFindOpen` | `RequestsFindResourcesOpen` | none (the property names its exceptions) |
| `ComponentsProofs!ClosedOrLost` | `ClosedUnlessLost` | none |
| `ResolverProofs!TypeCorrect` | `TypeOK` | none |
| `ResolverProofs!HealthyServersAreRegistered` | `HealthyIsRegistered` | none |
| `ResolverProofs!QuietConnectionsAreCurrent` | `QuietIsCurrent` | none (the property carries its condition) |
| `KafkaProofs!TypeCorrect` | `TypeOK` | none |
| `KafkaProofs!OnlyHandledIsCommitted` | `CommittedIsHandled` | none |
| `KafkaProofs!SetupNeverPanics` | `NeverPanics` | none |
| `KafkaProofs!ClosedIsQuiet` | no handler, no claim after `close` | none |
| `RequestsProofs!TypeCorrect` | `TypeOK` | none |
| `RequestsProofs!LinesWhole` | `LinesAreWhole` | none (the property carries its condition) |
| `RequestsProofs!AnswersTrue` | `AnswersAreTrue` | none (the property leaves out a handler that panicked) |

Beside these, a theorem rests on the `ASSUME`s of its modules: the types and ranges of
the constants, which TLC evaluates in each run. That `Absent`, the value for "no key", is
neither a version nor a key (`CleanerAssumption`, `AbsentAssumption`) is about the
models and not about the code.

The arguments:

- *Snowflake.* The mutex is an invariant of its own (one caller at most between
  `Lock` and the return, and it holds the lock). Under it, the caller's `ts` is not
  behind `lastTimeStamp` unless the clock was set back, and the last id issued
  carries `lastTimeStamp` and a sequence that is not above the generator's, except while the
  lock's holder waits in `timeReGen`, when the sequence is 0 and the next
  timestamp is later. Ids then grow in each process, which is uniqueness within it.
  Between processes: every generator that came from Redis has a worker id that is
  the value of the counter at its `INCR`, these values are pairwise different, and
  as long as the counter has not passed the modulus so are the remainders.
- *CloudLock.* The lease a client counts starts when it sends `SET NX` and
  the key's expiration when Redis applies it, so a client that waits for or has
  the reply "true" has at most as much left as the key. That is inductive with
  two more parts: only the owner's own `Unlock` can be under way against the
  key of an object that is used once, and the reply "true" comes from a
  `SET NX` that created the key. The same invariant makes each step a step of
  `LeaseLock` or a stutter.
- *Caches.* Every action of the pipeline moves an id from one stage to the next or
  ends its way, and leaves the others, for sequences by lemmas on what appending and
  taking do to the set of elements. The deferred function overwrites
  nothing because its own list is empty until it runs, and once it runs the cleaner has
  nothing in hand (`DrainInv`), which is also what the shutdown relies on. So each
  step of the pipeline is, for the ids under way and the keys, a change, a deletion,
  a loss or nothing (`PipelineAbstract`, proved once for both caches). A reader or a
  reload makes a key old only by saving a version that is out of date by then. What
  makes this inductive is that neither a key nor a save or reload under way is ever ahead
  of the data source (`ObjectNotAhead`, `SliceNotAhead`): otherwise a change could leave
  a key of its record that is not old. That is the refinement of `InvalidatedCache`, and
  `StaleIsUnderWay` and `StaleListIsUnderWay` are what the theorem of the
  abstract module, `ForgetsNothing`, says through the mapping: no second
  induction over the pipeline is needed.
- *Slice cache, pages.* The rank of a member is the number of members of the page's range
  that are not after it, and a page is the members whose rank lies between `offset`
  and `offset + limit`. The cached members are an initial part of the list, so ranks
  agree on them; a full page has no room for a member that is not cached, and the
  marker is in a page only when the whole list is cached.
- *Components.* `OnceInv` says what of the shared clients is made and who needs it;
  `ListInv` that each list that is stored, was read or is being run is ordered by what
  relies on what, and that nothing in a list relies on what is added to it;
  `OpenInv` that what is open is in a list or has one of the reasons. The functions
  then run in an order in which all that relies on a resource has stopped. `ServeInv`
  says what has become of whoever serves: its function is still to be added, stored, to be
  run, or has run, or is lost or late; and `ListInv` has that of a grpc server or a
  Kafka consumer run only when no request of it is left.
- *Registration and resolver.* A request changes the key of its own host only, and
  each change is one more event (`EtcdOK`: the hosts with a key are those that the events
  tell of). Events are only added, so the hosts of a revision never change (`Grows`), and
  the address list is that of the revision before the next event of the watch
  (`ListInv`), as a read at revision *n* is followed by a watch from *n + 1* and one
  event leads from the hosts of a revision to those of the next (`NextRevision`). An
  event from a channel that is not the resolver's any more is noticed as one out of
  order, and while the resolver reads it has none (`ChannelInv`).
- *Kafka.* Where the goroutine of `start()` is tells what it has (`LoopInv`). Only the
  owner in the present generation has a claim that counts, and all messages before its
  position were handled, but for the one in its hand, which is not marked yet
  (`ClaimInv`); a commit of a generation that is over is refused.
- *Requests.* The store has one field for each operation that ended at most, so
  that what is appended fits into some array (`RoomInv`). `StoreInv` says when the handler
  and its goroutine are in the store. As long as they were never there at a time, each
  slice in use is exactly the fields of the operations so far and its own, whether the
  array behind it was written or copied (`AloneInv`). `ServerInv` and `AnswerInv`
  follow the error and the logs from the handler through the interceptors to the
  caller: the error is the handler's unless that panicked or the context was canceled,
  and the latter happens only to a caller that does not wait any more; that the logs are the handler's lines in turn (`InTurn`) is kept by each line that
  is added.

Only model-checked: the liveness properties (`CallsReturn`, `KeyExpires`,
`LockReturns`, `StaleGoes`, `PipelineReturns`, `CloseReturns`, `KeyFollowsServer`,
`AddressesFollow`, `Delivered`, and the part of `ClosesCleanly` that is one), as the
prover has no rules for fairness and `ENABLED`. All other properties of the runs that
pass are theorems; `StaleIsUnderWay` and `StaleListIsUnderWay` need no place in
a run beside the refinement that implies them.

## What the violations show

The two violation runs each check one property that a comment states and
the code does not keep; `PROJECT.json` quotes the lines under `findings`. The models show
more places where the code does less than one may expect. The properties name
each as a condition (a history variable), so that what they say is true:

- *lock*: `Lock` returns `false, nil` after `tryLockTimeout` (`TimerCase`), although
  its comment says that it blocks until it has the lock or an error. A late
  script of an `Unlock` that gave up deletes the key of the same object's next lock, since
  the `lockID` is the object's: so no object in `lock` is in both
  `LateCommands` and `MayReuse`.
- *ids*: line 57 of `snowflake.go` takes the Redis counter modulo 1023 and never gives
  an id back, so that the 1024th start of a process may share the id of one that still
  runs; `UniqueIDs` carries that condition.
- *caches*: a value read before a change and saved after its deletion stays until it
  expires (`bornStale`; `saveToRedis` at `object_cache_proxy.go:217`). Two reloads
  of one list that read different versions leave the union of them
  (`slice_cache_proxy.go:368`). An expiration of 0 is for ever in the object cache, while
  the slice cache, whose comment at line 54 says the same, sends `EXPIRE` with 0 after
  each reload and so deletes the key. The shutdown of a proxy waits for the cleaner
  but for none of its `delKeys` goroutines, so that an invalidation the channel accepted
  may still find the Redis client closed (`DelFails`). A panic of the mapping leaves
  publishers blocked on the full channel until the shutdown (`CleanerGone`), and
  stale values of any record stay in the cache as long: their publishers wait, too.
- *components*: two goroutines in `AddShutdownFunc` at a time lose a function (`lost`),
  and one that adds after `CloseComponents` began is not run (`late`), where
  `README.md:10` says that resources are closed gracefully for the user. Clients are closed under
  the requests of a server or consumer in four cases (`Unguarded`): a Kafka consumer handles
  messages before its `AddShutdownFunc` (`consumer.go:130-135`), so does one whose
  function is lost or late, the one of http gives up after five seconds, and that of
  RocketMQ does not wait. `RequestsFindResourcesOpen` names them as its exceptions, and
  each of them occurs in the run. A database
  whose ping fails is not closed (`leaked`). A nil etcd client crashes the process
  in `Build` and in `Start`.
- *registration*: a first `doRegister` that fails leaves its lease, and perhaps its
  key, kept alive by the client while `Start` returns an error. `keepAlive` is not
  stopped by `unregister`, and may register again before the process ends.
- *resolver*: a failed `Get` leaves no watch until grpc calls `ResolveNow` again. So does
  a watch that etcd ends: `resolver.go:81-98` does not look at the error of the
  response, the range ends, and `watchChan` is not nil, so that nothing shows that nobody reads
  events any more (`HasWatch` is the condition in `AddressesFollow`). A list
  that is pushed outside the lock may overwrite a newer one until the next event, and
  iterating the map while it is written can end the process (`overtaken`, `"fatal"`).
- *kafka*: when the first `Consume` fails, `start()` replaces the channel that
  `StartKafkaConsumer` waits for (`consumer.go:132`): it waits for ever, and its
  shutdown function is never added (`"stuck"`, `Exit`). Messages sent before the first
  commit of a group may be skipped (`base`, `OffsetNewest`).
- *requests*: two goroutines that use the shared store at a time lose fields or find
  another's in their line (`overlapped`); `facade.go:25` says that `CopyContext`
  copies the fields, and it shares the store. Line 38, and `context.go:149`, say that a request id
  is not passed on by grpc, which the client interceptor does: the server takes the id over
  (`client.go:105-114`, `server.go:111-114`; `getRequestIDFromIncomingCtx`). A handler that panics
  is answered without a reply and without an error, as the recover interceptor assigns the
  error to a variable that shadows the result: a caller cannot tell this from success, and
  `AnswersAreTrue` says nothing of it. The timeout interceptor looks at
  `Canceled` only, so that a handler whose deadline is over runs on. After a
  panic gin renders no body.
- Of code that is not modelled: nothing makes the map of tags, so `AddTag` panics;
  the RocketMQ consumer reports success whatever its function returned.

## Not modelled, and the plan

Not modelled: the decoder `ParseSnowflakeID`, prometheus counters, levels, files and
formats of logs, the encoding of cached objects and of keys, reading of
configuration, streams and user interceptors of grpc, the http client, tags of a
context, the delivery of RocketMQ messages (the library's; the code around
it keeps no state), and retries inside the Kafka producer.

The order in which the project grows:

1. `AddListener` while events are published, and several listeners of one repository.
2. Several partitions in `KafkaConsumer`; the id layout of `snowflake.go` bit by bit.
