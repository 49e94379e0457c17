------------------------------ MODULE Resolver ------------------------------
(***************************************************************************)
(* The address list of a grpc client connection                            *)
(* (internal/components/etcd/resolver.go), composed with the servers that  *)
(* register in etcd.  doResolveNow reads the keys and starts a goroutine   *)
(* that applies the watch events since; grpc calls it again when a         *)
(* connection fails.  An address stands for its host.                      *)
(***************************************************************************)
EXTENDS ServiceRegister

CONSTANTS
    MaxResolve,     \* bound: calls of doResolveNow
    MaxTrouble      \* bound: those calls and the faults together

ASSUME ResolverAssumption == MaxResolve \in Nat /\ MaxTrouble \in Nat

Watch == 1..MaxResolve  \* each call has a channel and a goroutine at most
NoWatch == 0            \* nil

VARIABLES
    resolve,    \* where doResolveNow is; it has the watchLock when not idle
    resolves,   \* calls so far
    got,        \* the answer of its Get: the revision, and the hosts
    watchChan,  \* the field of the resolver
    chans,      \* of each channel: the next revision, and has nobody ended its watch?
    watchers,   \* where each goroutine of watch() is
    ranges,     \* the channel it ranges over
    list,       \* the list of its notify()
    key2Addr,   \* the address list
    cc,         \* what the ClientConn got by its last UpdateState
    overtaken   \* history: since the last read, events or lists came out of order

watchVars    == <<watchChan, chans, watchers, ranges, list>>
resolverVars == <<resolve, resolves, got, watchVars, key2Addr, cc, overtaken>>
vars         == <<registerVars, resolverVars>>

Init ==
    /\ RegisterInit
    /\ resolve = "idle" /\ resolves = 0 /\ got = [rev |-> 0, hosts |-> {}]
    /\ watchChan = NoWatch
    /\ chans = [w \in Watch |-> [next |-> 1, open |-> FALSE]]
    /\ watchers = [w \in Watch |-> "none"] /\ ranges = [w \in Watch |-> NoWatch]
    /\ list = [w \in Watch |-> {}]
    /\ key2Addr = {} /\ cc = {} /\ overtaken = FALSE

\* The hosts that had a key at a revision.
HostsAt(rev) ==
    {h \in Host : \E i \in 1..rev :
        /\ events[i] = Event(h, "put")
        /\ \A j \in (i + 1)..rev : events[j].host # h \/ events[j].type = "put"}

Alive == resolve \notin {"fatal", "closed"}

-----------------------------------------------------------------------------
(***************************************************************************)
(* doResolveNow, called by Build and by ResolveNow.                        *)
(***************************************************************************)

\* The watch there is is cancelled before etcd is read.
ResolveNow ==
    /\ resolve = "idle" /\ resolves < MaxResolve /\ resolves + faults < MaxTrouble
    /\ resolve' = "get" /\ resolves' = resolves + 1
    /\ chans' = IF watchChan = NoWatch THEN chans
                ELSE [chans EXCEPT ![watchChan].open = FALSE]
    /\ watchChan' = NoWatch
    /\ UNCHANGED <<registerVars, got, watchers, ranges, list, key2Addr, cc, overtaken>>

\* The read is serializable: the member that answers may be behind.
Get ==
    /\ resolve = "get"
    /\ resolve' = "set"
    /\ \E rev \in 0..Len(events) : got' = [rev |-> rev, hosts |-> HostsAt(rev)]
    /\ UNCHANGED <<registerVars, resolves, watchVars, key2Addr, cc, overtaken>>

\* After an error there is no watch until the next call.
GetFails ==
    /\ resolve = "get"
    /\ resolve' = "idle"
    /\ UNCHANGED <<registerVars, resolves, got, watchVars, key2Addr, cc, overtaken>>

\* Mutant: the watch begins after the revision that follows the read.
SkipRev(rev) == rev + 2

WithRev(rev) == rev + 1

\* setAddrs and its UpdateState, then a watch from where the read ended.
SetAddrs ==
    /\ resolve = "set"
    /\ resolve' = "idle"
    /\ key2Addr' = got.hosts /\ cc' = got.hosts /\ overtaken' = FALSE
    /\ watchChan' = resolves
    /\ chans' = [chans EXCEPT ![resolves] = [next |-> WithRev(got.rev), open |-> TRUE]]
    /\ watchers' = [watchers EXCEPT ![resolves] = "start"]
    /\ got' = [rev |-> 0, hosts |-> {}]
    /\ UNCHANGED <<registerVars, resolves, ranges, list>>

Close ==
    /\ resolve = "idle"
    /\ resolve' = "closed"
    /\ chans' = IF watchChan = NoWatch THEN chans
                ELSE [chans EXCEPT ![watchChan].open = FALSE]
    /\ UNCHANGED <<registerVars, resolves, got, watchChan, watchers, ranges, list,
                   key2Addr, cc, overtaken>>

-----------------------------------------------------------------------------
(***************************************************************************)
(* watch: the goroutine w.                                                 *)
(***************************************************************************)

\* The range evaluates the field once, when the goroutine gets to run: by then it
\* may be nil, on which the goroutine waits for ever, or a later channel.
watch(w) ==
    /\ Alive /\ watchers[w] = "start"
    /\ ranges' = [ranges EXCEPT ![w] = watchChan]
    /\ watchers' = [watchers EXCEPT ![w] = IF watchChan = NoWatch THEN "blocked" ELSE "range"]
    /\ UNCHANGED <<registerVars, resolve, resolves, got, watchChan, chans, list,
                   key2Addr, cc, overtaken>>

Shared(w) == \E v \in Watch \ {w} : watchers[v] \in {"range", "notify", "update"}
                                    /\ ranges[v] = ranges[w]

\* Mutant: a delete event is not applied.
AddOnly(addrs, e) == IF e.type = "put" THEN addrs \cup {e.host} ELSE addrs

\* addAddr or removeAddr.
Applied(addrs, e) == IF e.type = "put" THEN addrs \cup {e.host} ELSE addrs \ {e.host}

\* An event is applied and the list pushed under the addrLock; what was under way
\* when the watch was ended may still come.  notify() outside the lock
\* iterates the same map: Go may end the process then.
Receive(w) ==
    /\ Alive /\ watchers[w] = "range"
    /\ LET c == ranges[w]
       IN  /\ chans[c].next <= Len(events)
           /\ chans' = [chans EXCEPT ![c].next = @ + 1]
           /\ key2Addr' = Applied(key2Addr, events[chans[c].next])
           /\ overtaken' = (overtaken \/ c # watchChan \/ Shared(w))
    /\ cc' = key2Addr'
    /\ watchers' = [watchers EXCEPT ![w] = "notify"]
    /\ \/ UNCHANGED resolve
       \/ /\ \E v \in Watch \ {w} : watchers[v] = "update"
          /\ resolve' = "fatal"
    /\ UNCHANGED <<registerVars, resolves, got, watchChan, ranges, list>>

\* The second notify(), which has no lock: it reads the list, then pushes it.
NotifyReads(w) ==
    /\ Alive /\ watchers[w] = "notify"
    /\ list' = [list EXCEPT ![w] = key2Addr]
    /\ watchers' = [watchers EXCEPT ![w] = "update"]
    /\ UNCHANGED <<registerVars, resolve, resolves, got, watchChan, chans, ranges,
                   key2Addr, cc, overtaken>>

UpdateState(w) ==
    /\ Alive /\ watchers[w] = "update"
    /\ cc' = list[w]
    /\ list' = [list EXCEPT ![w] = {}]
    /\ watchers' = [watchers EXCEPT ![w] = "range"]
    /\ overtaken' = (overtaken \/ list[w] # key2Addr)
    /\ UNCHANGED <<registerVars, resolve, resolves, got, watchChan, chans, ranges, key2Addr>>

\* etcd ends a watch: its revisions are compacted, or the error is one it does not recover
\* from.  The field keeps the channel; nobody looks at the error.
WatchCanceled(c) ==
    /\ Alive /\ chans[c].open
    /\ Fault /\ resolves + faults' <= MaxTrouble
    /\ chans' = [chans EXCEPT ![c].open = FALSE]
    /\ UNCHANGED <<process, granted, etcd, delayed, disturbed, resolve, resolves, got,
                   watchChan, watchers, ranges, list, key2Addr, cc, overtaken>>

\* The channel of a watch that was ended is closed, and the goroutine returns: until the
\* next doResolveNow no event is read.
RangeEnds(w) ==
    /\ Alive /\ watchers[w] = "range" /\ ~chans[ranges[w]].open
    /\ watchers' = [watchers EXCEPT ![w] = "ended"]
    /\ ranges' = [ranges EXCEPT ![w] = NoWatch]
    /\ UNCHANGED <<registerVars, resolve, resolves, got, watchChan, chans, list,
                   key2Addr, cc, overtaken>>

-----------------------------------------------------------------------------
WatchStep(w) == watch(w) \/ Receive(w) \/ NotifyReads(w) \/ UpdateState(w) \/ RangeEnds(w)

ResolveStep == Get \/ GetFails \/ SetAddrs

Next ==
    \/ RegisterNext /\ resolves + faults' <= MaxTrouble /\ UNCHANGED resolverVars
    \/ ResolveNow \/ ResolveStep \/ Close
    \/ \E w \in Watch : WatchStep(w) \/ WatchCanceled(w)

Spec ==
    /\ Init /\ [][Next]_vars
    /\ RegisterFairness
    /\ WF_vars(ResolveStep) /\ \A w \in Watch : WF_vars(WatchStep(w))

-----------------------------------------------------------------------------
TypeOK ==
    /\ RegisterTypeOK
    /\ resolve \in {"idle", "get", "set", "closed", "fatal"} /\ resolves \in 0..MaxResolve
    /\ got \in [rev : 0..Len(events), hosts : SUBSET Host]
    /\ watchChan \in Watch \cup {NoWatch}
    /\ chans \in [Watch -> [next : 1..(Len(events) + 1), open : BOOLEAN]]
    /\ watchers \in [Watch -> {"none", "start", "blocked", "range", "notify", "update", "ended"}]
    /\ ranges \in [Watch -> Watch \cup {NoWatch}]
    /\ list \in [Watch -> SUBSET Host]
    /\ key2Addr \subseteq Host /\ cc \subseteq Host /\ overtaken \in BOOLEAN

HasKey == {h \in Host : key[h] # NoLease}

\* A goroutine ranges over the channel of the resolver, and none is under way.
Watching == /\ resolve = "idle" /\ watchChan # NoWatch
            /\ \E w \in Watch : ranges[w] = watchChan
            /\ \A w \in Watch : watchers[w] \in {"none", "blocked", "range", "ended"}

\* Between the read and the watch no event is lost or applied twice to any effect:
\* when all events are applied, the connection has exactly the registered
\* addresses, unless events or lists came out of order.
QuietIsCurrent ==
    Watching /\ chans[watchChan].next > Len(events) /\ ~overtaken => cc = HasKey

\* The resolver has a watch, and etcd has not ended it.
HasWatch == watchChan # NoWatch /\ chans[watchChan].open

\* The address of a server that stays registered reaches the connection, and that of a
\* server that is gone leaves it, as long as there is a watch that etcd does not end, and
\* unless, since the last read, events came out of order or an old list was pushed last
\* (overtaken), which only the next read puts right (resolver.go:80-136).
AddressesFollow ==
    \A h \in Host :
        /\ h \in HasKey /\ HasWatch ~>
             h \in cc \/ h \notin HasKey \/ ~HasWatch \/ overtaken \/ ~Alive
        /\ h \notin HasKey /\ HasWatch ~>
             h \notin cc \/ h \in HasKey \/ ~HasWatch \/ overtaken \/ ~Alive
=============================================================================
