--------------------------- MODULE ServiceRegister ---------------------------
(***************************************************************************)
(* The registration of a grpc service in etcd                              *)
(* (internal/components/etcd/register.go).  A server process puts a key    *)
(* that lives as long as a lease, keeps the lease alive, registers anew    *)
(* when it lost it, and deletes the key when it shuts down.  etcd applies  *)
(* one request at a time; a request may fail, or fail for its client and   *)
(* be applied all the same, at once or later.                              *)
(***************************************************************************)
EXTENDS Naturals, Sequences, FiniteSets

CONSTANTS
    Host,           \* server processes, each at an address of its own
    MaxLease,       \* bound: leases granted to a host
    MaxFaults,      \* bound: requests that fail, leases and watches lost, crashes
    LateRequests,   \* may a request be applied after its client gave up?
    MaxTries        \* tries of unregister: 3

ASSUME RegisterAssumption ==
    /\ MaxFaults \in Nat /\ MaxLease \in Nat /\ MaxLease > MaxFaults
    /\ MaxTries \in Nat \ {0} /\ LateRequests \in BOOLEAN

NoLease == [n |-> 0]
Lease   == [host : Host, n : 1..MaxLease]

VARIABLES
    pc,         \* where the goroutine of Start is
    first,      \* is it in its first doRegister?
    leaseID,    \* leaseID of the serviceRegister
    chanOpen,   \* is its keepAliveChannel open?
    closer,     \* the shutdown function that calls unregister
    tries,      \* of unregister
    granted,    \* leases granted to each host
    live,       \* leases that etcd has
    kept,       \* leases that the client of a running process keeps alive
    key,        \* the lease of the key of each host, or NoLease
    events,     \* what etcd did to the keys, one event for each revision
    delayed,    \* requests that were given up on and not yet applied
    faults,     \* faults so far
    disturbed   \* history: hosts whose key such a request changed

process      == <<pc, first, leaseID, chanOpen, closer, tries>>
etcd         == <<live, kept, key, events>>
registerVars == <<process, granted, etcd, delayed, faults, disturbed>>

RegisterInit ==
    /\ pc = [h \in Host |-> "idle"] /\ first = [h \in Host |-> TRUE]
    /\ leaseID = [h \in Host |-> NoLease] /\ chanOpen = [h \in Host |-> FALSE]
    /\ closer = [h \in Host |-> "none"] /\ tries = [h \in Host |-> 0]
    /\ granted = [h \in Host |-> 0]
    /\ live = {} /\ kept = {} /\ key = [h \in Host |-> NoLease] /\ events = <<>>
    /\ delayed = {} /\ faults = 0 /\ disturbed = {}

Goto(h, label) == pc' = [pc EXCEPT ![h] = label]
Fault          == faults < MaxFaults /\ faults' = faults + 1

-----------------------------------------------------------------------------
(***************************************************************************)
(* etcd.                                                                   *)
(***************************************************************************)

Event(h, type) == [host |-> h, type |-> type]

\* A put needs its lease; it takes the key over from another lease.
ApplyPut(h, l) ==
    /\ l \in live
    /\ key' = [key EXCEPT ![h] = l]
    /\ events' = Append(events, Event(h, "put"))
    /\ UNCHANGED <<live, kept>>

\* A lease that ends takes its key with it, if the key is still its own.
ApplyRevoke(l) ==
    /\ live' = live \ {l}
    /\ IF key[l.host] = l
       THEN /\ key' = [key EXCEPT ![l.host] = NoLease]
            /\ events' = Append(events, Event(l.host, "delete"))
       ELSE UNCHANGED <<key, events>>
    /\ UNCHANGED kept

ApplyDelete(h) ==
    /\ IF key[h] # NoLease
       THEN /\ key' = [key EXCEPT ![h] = NoLease]
            /\ events' = Append(events, Event(h, "delete"))
       ELSE UNCHANGED <<key, events>>
    /\ UNCHANGED <<live, kept>>

Apply(r) ==
    CASE r.op = "put"    -> ApplyPut(r.lease.host, r.lease)
      [] r.op = "revoke" -> ApplyRevoke(r.lease)
      [] r.op = "delete" -> ApplyDelete(r.lease.host)

Succeeds(r) == Apply(r) /\ UNCHANGED <<delayed, faults>>

\* The client sees an error or its timeout of a second.
Errs(r) ==
    /\ Fault
    /\ \/ UNCHANGED <<etcd, delayed>>
       \/ Apply(r) /\ UNCHANGED delayed
       \/ /\ LateRequests /\ delayed = {}
          /\ delayed' = {r} /\ UNCHANGED etcd

\* A request that was given up on is applied; a put without its lease fails.
AppliedLate ==
    \E r \in delayed :
        /\ delayed' = {}
        /\ \/ Apply(r) /\ disturbed' = disturbed \cup {h \in Host : key'[h] # key[h]}
           \/ /\ r.op = "put" /\ r.lease \notin live
              /\ UNCHANGED <<etcd, disturbed>>
        /\ UNCHANGED <<process, granted, faults>>

\* A lease runs out when nobody keeps it alive, or keeping it alive did not work.
LeaseExpires(l) ==
    /\ l \in live
    /\ IF l \in kept THEN Fault ELSE UNCHANGED faults
    /\ ApplyRevoke(l)
    /\ UNCHANGED <<process, granted, delayed, disturbed>>

\* The client closes the channel: the lease is gone, or no answer came in time.
KeepAliveStops(h) ==
    /\ chanOpen[h]
    /\ IF leaseID[h] \in live THEN Fault ELSE UNCHANGED faults
    /\ chanOpen' = [chanOpen EXCEPT ![h] = FALSE]
    /\ kept' = kept \ {leaseID[h]}
    /\ UNCHANGED <<pc, first, leaseID, closer, tries, granted, live, key, events,
                   delayed, disturbed>>

-----------------------------------------------------------------------------
(***************************************************************************)
(* Start and doRegister, in a process of its own.                          *)
(***************************************************************************)

\* A process begins, the first one or one after another, as long as there are
\* leases for it and for the faults to come.
RegisterService(h) ==
    /\ pc[h] = "idle" \/ (pc[h] = "ended" /\ granted[h] + MaxFaults - faults < MaxLease)
    /\ Goto(h, "grant")
    /\ first' = [first EXCEPT ![h] = TRUE]
    /\ UNCHANGED <<leaseID, chanOpen, closer, tries, granted, etcd,
                   delayed, faults, disturbed>>

\* An error ends Start; the loop of keepAlive tries again in a second.
RegisterFails(h) == Goto(h, IF first[h] THEN "failed" ELSE "grant")

\* From here on the client keeps the lease alive until the process ends.  An error may
\* come without a lease, after etcd granted one, or from KeepAlive, when the leaseID is
\* that of the new lease already.
Grant(h) ==
    /\ pc[h] = "grant"
    /\ LET l == [host |-> h, n |-> granted[h] + 1]
           Granted == /\ granted[h] < MaxLease
                      /\ granted' = [granted EXCEPT ![h] = @ + 1]
                      /\ live' = live \cup {l}
           Taken   == leaseID' = [leaseID EXCEPT ![h] = l]
       IN  \/ /\ Granted /\ Taken
              /\ kept' = kept \cup {l}
              /\ chanOpen' = [chanOpen EXCEPT ![h] = TRUE]
              /\ Goto(h, "put")
              /\ UNCHANGED faults
           \/ /\ Fault /\ RegisterFails(h)
              /\ \/ UNCHANGED <<granted, leaseID, live>>
                 \/ Granted /\ UNCHANGED leaseID
                 \/ Granted /\ Taken
              /\ UNCHANGED <<chanOpen, kept>>
    /\ UNCHANGED <<first, closer, tries, key, events, delayed, disturbed>>

\* The key is put: the first time, Start adds the shutdown function that unregisters.
Registered(h) ==
    /\ Goto(h, "channel")
    /\ first' = [first EXCEPT ![h] = FALSE]
    /\ closer' = [closer EXCEPT ![h] = IF first[h] /\ @ = "none" THEN "added" ELSE @]

PutRequest(h) == [op |-> "put", lease |-> leaseID[h]]

\* Mutant: an error of Put is not looked at.
PutUnchecked(h) ==
    /\ pc[h] = "put"
    /\ Registered(h)
    /\ Succeeds(PutRequest(h)) \/ Errs(PutRequest(h))
    /\ UNCHANGED <<leaseID, chanOpen, tries, granted, disturbed>>

Put(h) ==
    /\ pc[h] = "put"
    /\ \/ Succeeds(PutRequest(h)) /\ Registered(h)
       \/ Errs(PutRequest(h)) /\ RegisterFails(h) /\ UNCHANGED <<first, closer>>
       \/ /\ leaseID[h] \notin live
          /\ RegisterFails(h) /\ UNCHANGED <<first, closer, etcd, delayed, faults>>
    /\ UNCHANGED <<leaseID, chanOpen, tries, granted, disturbed>>

-----------------------------------------------------------------------------
(***************************************************************************)
(* keepAlive: a closed channel leads to a new registration.                *)
(***************************************************************************)

\* Mutant: nobody looks whether the channel is still open.
ChannelStaysOpen(h) == FALSE

ChannelClosed(h) == pc[h] = "channel" /\ ~chanOpen[h]

\* What comes of it is logged.
Revoke(h) ==
    /\ ChannelClosed(h)
    /\ Goto(h, "grant")
    /\ LET r == [op |-> "revoke", lease |-> leaseID[h]]
       IN  Succeeds(r) \/ Errs(r)
    /\ UNCHANGED <<first, leaseID, chanOpen, closer, tries, granted, disturbed>>

-----------------------------------------------------------------------------
(***************************************************************************)
(* Shutdown and crash.                                                     *)
(***************************************************************************)

Running(h) == pc[h] \notin {"idle", "ended"}

CloseComponents(h) ==
    /\ Running(h) /\ closer[h] \in {"none", "added"}
    /\ closer' = [closer EXCEPT ![h] = IF @ = "added" THEN "deleting" ELSE "ending"]
    /\ UNCHANGED <<pc, first, leaseID, chanOpen, tries, granted, etcd, delayed,
                   faults, disturbed>>

\* Some tries to delete the key, a second apart; keepAlive goes on meanwhile.
unregister(h) ==
    /\ Running(h) /\ closer[h] = "deleting"
    /\ LET r == [op |-> "delete", lease |-> leaseID[h]]
       IN  \/ /\ Succeeds(r)
              /\ closer' = [closer EXCEPT ![h] = "ending"] /\ UNCHANGED tries
           \/ /\ Errs(r)
              /\ tries' = [tries EXCEPT ![h] = @ + 1]
              /\ closer' = [closer EXCEPT ![h] = IF tries'[h] = MaxTries THEN "ending" ELSE @]
    /\ UNCHANGED <<pc, first, leaseID, chanOpen, granted, disturbed>>

\* The process ends, with its memory, and keeps no lease alive.
Leaves(h) ==
    /\ Goto(h, "ended")
    /\ first' = [first EXCEPT ![h] = FALSE]
    /\ leaseID' = [leaseID EXCEPT ![h] = NoLease]
    /\ kept' = {l \in kept : l.host # h}
    /\ chanOpen' = [chanOpen EXCEPT ![h] = FALSE]
    /\ closer' = [closer EXCEPT ![h] = "none"] /\ tries' = [tries EXCEPT ![h] = 0]
    /\ UNCHANGED <<granted, live, key, events, delayed, disturbed>>

Ends(h) == Running(h) /\ closer[h] = "ending" /\ Leaves(h) /\ UNCHANGED faults

Crash(h) == Running(h) /\ Fault /\ Leaves(h)

-----------------------------------------------------------------------------
StartStep(h) == Grant(h) \/ Put(h) \/ Revoke(h)

RegisterNext ==
    \/ \E h \in Host : \/ RegisterService(h) \/ Grant(h) \/ Put(h)
                       \/ KeepAliveStops(h) \/ Revoke(h)
                       \/ CloseComponents(h) \/ unregister(h)
                       \/ Ends(h) \/ Crash(h)
    \/ \E l \in live : LeaseExpires(l)
    \/ AppliedLate

\* The goroutines run, etcd notices leases that nobody keeps alive, and a client
\* that its lease is gone.
RegisterFairness ==
    /\ \A h \in Host :
        /\ WF_registerVars(StartStep(h))
        /\ WF_registerVars(unregister(h) \/ Ends(h))
        /\ WF_registerVars(leaseID[h] \notin live /\ KeepAliveStops(h))
    /\ WF_registerVars(\E l \in live : l \notin kept /\ LeaseExpires(l))

-----------------------------------------------------------------------------
RegisterTypeOK ==
    /\ pc \in [Host -> {"idle", "grant", "put", "channel", "failed", "ended"}]
    /\ first \in [Host -> BOOLEAN] /\ chanOpen \in [Host -> BOOLEAN]
    /\ leaseID \in [Host -> Lease \cup {NoLease}]
    /\ closer \in [Host -> {"none", "added", "deleting", "ending"}]
    /\ tries \in [Host -> 0..MaxTries] /\ granted \in [Host -> 0..MaxLease]
    /\ live \subseteq Lease /\ kept \subseteq Lease
    /\ key \in [Host -> live \cup {NoLease}]
    /\ events \in Seq([host : Host, type : {"put", "delete"}])
    /\ delayed \subseteq [op : {"put", "revoke", "delete"}, lease : Lease]
    /\ Cardinality(delayed) <= 1 /\ faults \in 0..MaxFaults
    /\ disturbed \subseteq Host

\* keepAlive looks at the lease alone: as long as it waits on the channel of a lease
\* that etcd has, the key is there, and on that lease, unless the process shuts down
\* or a request that was given up on came late.
HealthyIsRegistered ==
    \A h \in Host :
        pc[h] = "channel" /\ chanOpen[h] /\ leaseID[h] \in live =>
            key[h] = leaseID[h] \/ closer[h] \in {"deleting", "ending"} \/ h \in disturbed

\* The key follows the server: as long as it runs and does not shut down, a server that
\* registered once is registered again whenever it lost its lease, and the key of a
\* process that ended goes, whether it unregistered or crashed.
KeyFollowsServer ==
    \A h \in Host :
        /\ closer[h] = "added" ~> \/ key[h] # NoLease
                                  \/ closer[h] # "added" \/ ~Running(h)
                                  \/ h \in disturbed
        /\ pc[h] = "ended" ~> key[h] = NoLease \/ pc[h] # "ended"
=============================================================================
