---------------------------- MODULE ResolverProofs ----------------------------
(***************************************************************************)
(* Proofs about ServiceRegister and Resolver, for any number of hosts,     *)
(* leases, faults and reads: a server that keeps its lease alive is        *)
(* registered, and a connection that applied all events has exactly the    *)
(* registered addresses.                                                   *)
(***************************************************************************)
EXTENDS Resolver, FiniteSetTheorems, TLAPS

Request   == [op : {"put", "revoke", "delete"}, lease : Lease]
EventType == [host : Host, type : {"put", "delete"}]

\* A lease is never the missing one.
LEMMA LeaseIsSome == \A l \in Lease : l # NoLease
<1> SUFFICES ASSUME NEW l \in Lease PROVE l # NoLease
  OBVIOUS
<1>1. l.n \in 1..MaxLease /\ NoLease.n = 0
  BY DEF Lease, NoLease
<1>2. l.n # 0
  BY <1>1
<1> QED
  BY <1>1, <1>2

(***************************************************************************)
(* The events of etcd tell which hosts have a key.                         *)
(***************************************************************************)

\* HostsAt for any sequence of events.
After(s, rev) ==
    {h \in Host : \E i \in 1..rev :
        /\ s[i] = Event(h, "put")
        /\ \A j \in (i + 1)..rev : s[j].host # h \/ s[j].type = "put"}

\* An event that is added changes nothing before it.
LEMMA BeforeIsSame ==
  ASSUME NEW s \in Seq(EventType), NEW e \in EventType, NEW rev \in 0..Len(s)
  PROVE  After(Append(s, e), rev) = After(s, rev)
<1> DEFINE t == Append(s, e)
<1>1. \A i \in 1..Len(s) : t[i] = s[i]
  OBVIOUS
<1>2. Len(s) \in Nat
  OBVIOUS
<1> HIDE DEF t
<1>3. \A i \in 1..rev : i \in 1..Len(s) /\ \A j \in (i + 1)..rev : j \in 1..Len(s)
  BY <1>2
<1>4. \A i \in 1..rev : t[i] = s[i] /\ \A j \in (i + 1)..rev : t[j] = s[j]
  BY <1>1, <1>3
<1>5. After(t, rev) = After(s, rev)
  BY <1>4 DEF After
<1> QED
  BY <1>5 DEF t

\* Applying one more event to the hosts of a revision gives those of the next.
LEMMA NextRevision ==
  ASSUME NEW s \in Seq(EventType), NEW rev \in 1..Len(s)
  PROVE  After(s, rev) = Applied(After(s, rev - 1), s[rev])
<1> DEFINE e == s[rev]
           Has(h, i, r) == /\ s[i] = Event(h, "put")
                           /\ \A j \in (i + 1)..r : s[j].host # h \/ s[j].type = "put"
<1>1. e \in EventType /\ rev \in Nat /\ rev - 1 \in Nat
  OBVIOUS
<1>2. ASSUME NEW h \in Host, h # e.host
      PROVE  h \in After(s, rev) <=> h \in After(s, rev - 1)
  <2>1. ASSUME NEW i \in 1..rev, Has(h, i, rev) PROVE i \in 1..(rev - 1) /\ Has(h, i, rev - 1)
    <3>1. i # rev
      BY <1>2, <2>1 DEF Event
    <3> QED
      BY <1>1, <2>1, <3>1
  <2>2. ASSUME NEW i \in 1..(rev - 1), Has(h, i, rev - 1) PROVE i \in 1..rev /\ Has(h, i, rev)
    <3>1. \A j \in (i + 1)..rev : j = rev \/ j \in (i + 1)..(rev - 1)
      BY <1>1
    <3> QED
      BY <1>1, <1>2, <2>2, <3>1
  <2> HIDE DEF e
  <2> QED
    BY <2>1, <2>2 DEF After
<1>3. CASE e.type = "put"
  <2>1. e = Event(e.host, "put")
    BY <1>1, <1>3 DEF Event, EventType
  <2>2. e.host \in After(s, rev)
    <3>1. Has(e.host, rev, rev) /\ rev \in 1..rev
      BY <1>1, <2>1
    <3> QED
      BY <1>1, <3>1 DEF After, EventType
  <2> QED
    BY <1>1, <1>2, <1>3, <2>2 DEF Applied, After, EventType
<1>4. CASE e.type # "put"
  <2>1. e.host \notin After(s, rev)
    <3>1. ASSUME NEW i \in 1..rev, Has(e.host, i, rev) PROVE FALSE
      <4>1. CASE i = rev
        BY <1>4, <3>1, <4>1 DEF Event
      <4>2. CASE i # rev
        <5>1. rev \in (i + 1)..rev
          BY <1>1, <4>2
        <5> QED
          BY <1>4, <3>1, <5>1
      <4> QED
        BY <4>1, <4>2
    <3> QED
      BY <3>1 DEF After
  <2> QED
    BY <1>1, <1>2, <1>4, <2>1 DEF Applied, After
<1> QED
  BY <1>3, <1>4

\* Events are only added: what the hosts of a revision were stays true.
Grows == /\ Len(events) <= Len(events') /\ Len(events') \in Nat
         /\ \A rev \in 0..Len(events) : HostsAt(rev)' = HostsAt(rev)

\* Nothing that happened is changed when nothing happens ...
LEMMA SameGrows == ASSUME events \in Seq(EventType), UNCHANGED events PROVE Grows
<1>1. Len(events) \in Nat
  OBVIOUS
<1> QED
  BY <1>1 DEF Grows, HostsAt

\* ... nor when one event does, which decides about its own host.
LEMMA OneMore ==
  ASSUME events \in Seq(EventType), NEW e \in EventType, events' = Append(events, e)
  PROVE  /\ Grows /\ events' \in Seq(EventType) /\ Len(events') = Len(events) + 1
         /\ HostsAt(Len(events))' = Applied(HostsAt(Len(events)), e)
<1> DEFINE n == Len(events)
<1>1. /\ n \in Nat /\ events' \in Seq(EventType) /\ Len(events') = n + 1
      /\ events'[n + 1] = e
  OBVIOUS
<1>2. \A rev : HostsAt(rev) = After(events, rev) /\ HostsAt(rev)' = After(events', rev)
  BY DEF HostsAt, After
<1>3. \A rev \in 0..n : After(events', rev) = After(events, rev)
  BY BeforeIsSame
<1>4. After(events', n + 1) = Applied(After(events', (n + 1) - 1), events'[n + 1])
  <2>1. n + 1 \in 1..Len(events')
    BY <1>1
  <2> QED
    BY <1>1, <2>1, NextRevision
<1>5. (n + 1) - 1 = n /\ n \in 0..n
  BY <1>1
<1>6. After(events', n + 1) = Applied(After(events, n), e)
  BY <1>1, <1>3, <1>4, <1>5
<1>7. HostsAt(Len(events))' = Applied(HostsAt(Len(events)), e)
  <2>1. /\ HostsAt(Len(events))' = After(events', Len(events'))
        /\ HostsAt(Len(events)) = After(events, n)
    BY DEF HostsAt, After
  <2> QED
    BY <1>1, <1>6, <2>1
<1>8. Grows
  BY <1>1, <1>2, <1>3 DEF Grows
<1> QED
  BY <1>1, <1>7, <1>8

(***************************************************************************)
(* etcd: requests, and leases that run out.                                *)
(***************************************************************************)

\* The key of a host has a lease of that host which etcd has, and the hosts with a key
\* are those the events tell of.
EtcdOK ==
    /\ live \subseteq Lease
    /\ key \in [Host -> live \cup {NoLease}]
    /\ \A h \in Host : key[h] # NoLease => key[h].host = h
    /\ events \in Seq(EventType)
    /\ HasKey = HostsAt(Len(events))

\* A new lease, or nothing at all, keeps that.
LEMMA EtcdSame ==
  ASSUME EtcdOK, UNCHANGED <<key, events>>, live \subseteq live', live' \subseteq Lease
  PROVE  EtcdOK' /\ Grows
<1>1. Grows
  BY SameGrows DEF EtcdOK
<1>2. HasKey' = HasKey /\ HostsAt(Len(events))' = HostsAt(Len(events))
  BY DEF HasKey, HostsAt
<1> QED
  BY <1>1, <1>2 DEF EtcdOK

\* A key that is set.
LEMMA EtcdPut ==
  ASSUME EtcdOK, NEW l \in Lease, ApplyPut(l.host, l)
  PROVE  /\ EtcdOK' /\ Grows /\ key'[l.host] = l
         /\ \A h \in Host \ {l.host} : key'[h] = key[h]
<1>1. /\ l \in live /\ key' = [key EXCEPT ![l.host] = l] /\ live' = live
      /\ events' = Append(events, Event(l.host, "put")) /\ l.host \in Host
  BY DEF ApplyPut, Lease
<1>2. Event(l.host, "put") \in EventType /\ Event(l.host, "put").type = "put"
      /\ Event(l.host, "put").host = l.host
  BY <1>1 DEF Event, EventType
<1>3. /\ Grows /\ events' \in Seq(EventType)
      /\ HostsAt(Len(events))' = HasKey \cup {l.host}
  BY <1>1, <1>2, OneMore DEF EtcdOK, Applied
<1>4. /\ key' \in [Host -> live \cup {NoLease}] /\ key'[l.host] = l
      /\ \A h \in Host \ {l.host} : key'[h] = key[h]
  BY <1>1 DEF EtcdOK
<1>5. HasKey' = HasKey \cup {l.host}
  BY <1>1, <1>4, LeaseIsSome DEF HasKey
<1> QED
  BY <1>1, <1>3, <1>4, <1>5 DEF EtcdOK

\* A key that goes.
LEMMA EtcdGoes ==
  ASSUME EtcdOK, NEW n \in Host, key[n] # NoLease,
         key' = [key EXCEPT ![n] = NoLease], events' = Append(events, Event(n, "delete"))
  PROVE  /\ Grows /\ events' \in Seq(EventType) /\ HasKey' = HostsAt(Len(events))'
         /\ key'[n] = NoLease /\ \A h \in Host \ {n} : key'[h] = key[h]
<1>1. Event(n, "delete") \in EventType /\ Event(n, "delete").type # "put"
      /\ Event(n, "delete").host = n
  BY DEF Event, EventType
<1>2. /\ Grows /\ events' \in Seq(EventType)
      /\ HostsAt(Len(events))' = HasKey \ {n}
  BY <1>1, OneMore DEF EtcdOK, Applied
<1>3. key'[n] = NoLease /\ \A h \in Host \ {n} : key'[h] = key[h]
  BY DEF EtcdOK
<1>4. HasKey' = HasKey \ {n}
  BY <1>3 DEF HasKey
<1> QED
  BY <1>2, <1>3, <1>4

\* A lease that ends.
LEMMA EtcdRevoke ==
  ASSUME EtcdOK, NEW l \in Lease, ApplyRevoke(l)
  PROVE  /\ EtcdOK' /\ Grows /\ live' = live \ {l}
         /\ \A h \in Host \ {l.host} : key'[h] = key[h]
         /\ \A h \in Host : key[h] # l => key'[h] = key[h]
<1>1. l.host \in Host /\ live' = live \ {l}
  BY DEF ApplyRevoke, Lease
<1>2. CASE key[l.host] = l
  <2>1. /\ key' = [key EXCEPT ![l.host] = NoLease] /\ key[l.host] # NoLease
        /\ events' = Append(events, Event(l.host, "delete"))
    BY <1>2, LeaseIsSome DEF ApplyRevoke
  <2>2. /\ Grows /\ events' \in Seq(EventType) /\ HasKey' = HostsAt(Len(events))'
        /\ key'[l.host] = NoLease /\ \A h \in Host \ {l.host} : key'[h] = key[h]
    BY <1>1, <2>1, EtcdGoes
  <2>3. \A h \in Host \ {l.host} : key[h] # l
    BY LeaseIsSome DEF EtcdOK
  <2>4. key' \in [Host -> live' \cup {NoLease}]
    BY <1>1, <2>1, <2>2, <2>3 DEF EtcdOK
  <2> QED
    BY <1>1, <1>2, <2>2, <2>4 DEF EtcdOK
<1>3. CASE key[l.host] # l
  <2>1. UNCHANGED <<key, events>>
    BY <1>3 DEF ApplyRevoke
  <2>2. \A h \in Host : key[h] # l
    BY <1>3, LeaseIsSome DEF EtcdOK
  <2>3. key' \in [Host -> live' \cup {NoLease}]
    BY <1>1, <2>1, <2>2 DEF EtcdOK
  <2>4. HasKey' = HasKey /\ HostsAt(Len(events))' = HostsAt(Len(events)) /\ Grows
    BY <2>1, SameGrows DEF HasKey, HostsAt, EtcdOK
  <2> QED
    BY <1>1, <2>1, <2>3, <2>4 DEF EtcdOK
<1> QED
  BY <1>2, <1>3

\* A key that is deleted.
LEMMA EtcdDelete ==
  ASSUME EtcdOK, NEW n \in Host, ApplyDelete(n)
  PROVE  /\ EtcdOK' /\ Grows /\ live' = live
         /\ \A h \in Host \ {n} : key'[h] = key[h]
<1>1. CASE key[n] # NoLease
  <2>1. /\ Grows /\ events' \in Seq(EventType) /\ HasKey' = HostsAt(Len(events))'
        /\ key'[n] = NoLease /\ \A h \in Host \ {n} : key'[h] = key[h]
    BY <1>1, EtcdGoes DEF ApplyDelete
  <2>2. key' = [key EXCEPT ![n] = NoLease] /\ live' = live
    BY <1>1 DEF ApplyDelete
  <2> QED
    BY <2>1, <2>2 DEF EtcdOK
<1>2. CASE key[n] = NoLease
  <2>1. UNCHANGED <<key, events, live>>
    BY <1>2 DEF ApplyDelete
  <2> QED
    BY <2>1, EtcdSame DEF EtcdOK
<1> QED
  BY <1>1, <1>2

\* Any request is one of these; it changes the key of its own host only.
LEMMA EtcdApply ==
  ASSUME EtcdOK, NEW r \in Request, Apply(r)
  PROVE  /\ EtcdOK' /\ Grows /\ kept' = kept /\ live' \subseteq live
         /\ \A h \in Host \ {r.lease.host} : key'[h] = key[h]
         /\ r.op = "put" => key'[r.lease.host] = r.lease
<1>1. r.op \in {"put", "revoke", "delete"} /\ r.lease \in Lease /\ r.lease.host \in Host
  BY DEF Request, Lease
<1>2. CASE r.op = "put"
  <2>1. ApplyPut(r.lease.host, r.lease)
    BY <1>2 DEF Apply
  <2>2. kept' = kept /\ live' = live
    BY <2>1 DEF ApplyPut
  <2> QED
    BY <1>1, <2>1, <2>2, EtcdPut
<1>3. CASE r.op = "revoke"
  <2>1. ApplyRevoke(r.lease)
    BY <1>3 DEF Apply
  <2>2. kept' = kept
    BY <2>1 DEF ApplyRevoke
  <2> QED
    BY <1>1, <1>3, <2>1, <2>2, EtcdRevoke
<1>4. CASE r.op = "delete"
  <2>1. ApplyDelete(r.lease.host)
    BY <1>4 DEF Apply
  <2>2. kept' = kept
    BY <2>1 DEF ApplyDelete
  <2> QED
    BY <1>1, <1>4, <2>1, <2>2, EtcdDelete
<1> QED
  BY <1>1, <1>2, <1>3, <1>4

(***************************************************************************)
(* The servers.                                                            *)
(***************************************************************************)

\* A process has a lease of its own host, once it was granted one and until it ends,
\* and tries to unregister not too often.
ProcInv == \A h \in Host :
    /\ leaseID[h] # NoLease => leaseID[h].host = h
    /\ pc[h] \in {"put", "channel"} => leaseID[h] # NoLease
    /\ closer[h] \in {"added", "deleting"} => leaseID[h] # NoLease
    /\ closer[h] \in {"none", "added"} => tries[h] = 0
    /\ closer[h] = "deleting" => tries[h] < MaxTries

RegisterInv == RegisterTypeOK /\ ProcInv /\ EtcdOK /\ HealthyIsRegistered

\* The types of what is not in etcd.
OtherTypes ==
    /\ pc \in [Host -> {"idle", "grant", "put", "channel", "failed", "ended"}]
    /\ first \in [Host -> BOOLEAN] /\ chanOpen \in [Host -> BOOLEAN]
    /\ leaseID \in [Host -> Lease \cup {NoLease}]
    /\ closer \in [Host -> {"none", "added", "deleting", "ending"}]
    /\ tries \in [Host -> 0..MaxTries] /\ granted \in [Host -> 0..MaxLease]
    /\ kept \subseteq Lease
    /\ delayed \subseteq Request /\ Cardinality(delayed) <= 1
    /\ faults \in 0..MaxFaults /\ disturbed \subseteq Host

\* With EtcdOK these are all the types.
LEMMA TypesSplit == EtcdOK => (RegisterTypeOK <=> OtherTypes)
BY DEF EtcdOK, RegisterTypeOK, OtherTypes, Request, EventType

\* A set with at most one request.
LEMMA OneRequest == Cardinality({}) <= 1 /\ \A r : Cardinality({r}) <= 1
BY FS_EmptySet, FS_Singleton

\* A fault is counted.
LEMMA FaultType == ASSUME faults \in 0..MaxFaults, Fault PROVE faults' \in 0..MaxFaults
BY RegisterAssumption DEF RegisterAssumption, Fault

\* A request, whatever comes of it, changes the key of its own host only.
LEMMA Sent ==
  ASSUME EtcdOK, OtherTypes, NEW r \in Request, Succeeds(r) \/ Errs(r)
  PROVE  /\ EtcdOK' /\ Grows /\ kept' = kept /\ live' \subseteq live
         /\ \A h \in Host \ {r.lease.host} : key'[h] = key[h]
         /\ faults' \in 0..MaxFaults
         /\ delayed' \subseteq Request /\ Cardinality(delayed') <= 1
         /\ r.op = "put" /\ Succeeds(r) => key'[r.lease.host] = r.lease
<1>1. CASE Succeeds(r)
  <2>1. Apply(r) /\ UNCHANGED <<delayed, faults>>
    BY <1>1 DEF Succeeds
  <2> QED
    BY <2>1, EtcdApply DEF OtherTypes
<1>2. CASE Errs(r) /\ ~Succeeds(r)
  <2>1. faults' \in 0..MaxFaults
    BY <1>2, FaultType DEF Errs, OtherTypes
  <2>2. CASE UNCHANGED <<etcd, delayed>>
    <3>1. live \subseteq live' /\ live' \subseteq Lease /\ UNCHANGED <<key, events>>
      BY <2>2 DEF etcd, EtcdOK
    <3>2. EtcdOK' /\ Grows
      BY <3>1, EtcdSame
    <3> QED
      BY <1>2, <2>1, <2>2, <3>2 DEF OtherTypes, etcd
  <2>3. CASE Apply(r) /\ UNCHANGED delayed
    BY <1>2, <2>1, <2>3, EtcdApply DEF OtherTypes
  <2>4. CASE delayed' = {r} /\ UNCHANGED etcd
    <3>1. live \subseteq live' /\ live' \subseteq Lease /\ UNCHANGED <<key, events>>
      BY <2>4 DEF etcd, EtcdOK
    <3>2. EtcdOK' /\ Grows
      BY <3>1, EtcdSame
    <3> QED
      BY <1>2, <2>1, <2>4, <3>2, OneRequest DEF OtherTypes, etcd
  <2> QED
    BY <1>2, <2>2, <2>3, <2>4 DEF Errs
<1> QED
  BY <1>1, <1>2

\* Initially there is neither a process nor a key.
LEMMA RegisterStart == RegisterInit => RegisterInv
<1> SUFFICES ASSUME RegisterInit PROVE RegisterInv
  OBVIOUS
<1>1. EtcdOK
  <2>1. events \in Seq(EventType) /\ Len(events) = 0
    BY DEF RegisterInit
  <2>2. HostsAt(Len(events)) = {}
    BY <2>1 DEF HostsAt
  <2> QED
    BY <2>1, <2>2 DEF RegisterInit, EtcdOK, HasKey
<1>2. OtherTypes
  BY RegisterAssumption, OneRequest DEF RegisterAssumption, RegisterInit, OtherTypes
<1>3. ProcInv /\ HealthyIsRegistered
  BY DEF RegisterInit, ProcInv, HealthyIsRegistered
<1> QED
  BY <1>1, <1>2, <1>3, TypesSplit DEF RegisterInv

\* Steps that change nothing in etcd but grant a lease: what is left to show.
LEMMA QuietStep ==
  ASSUME RegisterInv, UNCHANGED <<key, events>>, live \subseteq live', live' \subseteq Lease,
         OtherTypes', ProcInv', HealthyIsRegistered'
  PROVE  RegisterInv' /\ Grows
<1>1. EtcdOK' /\ Grows
  BY EtcdSame DEF RegisterInv
<1>2. RegisterTypeOK'
  BY <1>1, TypesSplit, PTL
<1> QED
  BY <1>1, <1>2 DEF RegisterInv

\* Every step of the servers and of etcd keeps RegisterInv.
LEMMA RegisterStep == RegisterInv /\ RegisterNext => RegisterInv' /\ Grows
<1> SUFFICES ASSUME RegisterInv, RegisterNext PROVE RegisterInv' /\ Grows
  OBVIOUS
<1>1. OtherTypes /\ ProcInv /\ EtcdOK /\ HealthyIsRegistered /\ live \subseteq Lease
  BY TypesSplit DEF RegisterInv, EtcdOK
<1>2. EtcdOK' => (RegisterTypeOK' <=> OtherTypes')
  BY TypesSplit, PTL
<1> USE DEF Goto
<1>3. ASSUME NEW h \in Host, RegisterService(h) PROVE RegisterInv' /\ Grows
  <2>1. UNCHANGED <<key, events, live>>
    BY <1>3 DEF RegisterService, etcd
  <2>2. OtherTypes' /\ ProcInv' /\ HealthyIsRegistered'
    BY <1>1, <1>3 DEF RegisterService, etcd, OtherTypes, ProcInv, HealthyIsRegistered
  <2> QED
    BY <1>1, <2>1, <2>2, QuietStep
<1>4. ASSUME NEW h \in Host, Grant(h) PROVE RegisterInv' /\ Grows
  <2> DEFINE l == [host |-> h, n |-> granted[h] + 1]
\* The lease is granted, and the process goes on with it or has an error.
  <2>1. CASE /\ granted[h] < MaxLease
             /\ granted' = [granted EXCEPT ![h] = @ + 1]
             /\ live' = live \cup {l}
             /\ leaseID' \in {leaseID, [leaseID EXCEPT ![h] = l]}
             /\ \/ /\ leaseID' = [leaseID EXCEPT ![h] = l] /\ pc' = [pc EXCEPT ![h] = "put"]
                   /\ kept' = kept \cup {l} /\ chanOpen' = [chanOpen EXCEPT ![h] = TRUE]
                   /\ UNCHANGED faults
                \/ /\ Fault /\ RegisterFails(h) /\ UNCHANGED <<chanOpen, kept>>
    <3>1. granted[h] + 1 \in 1..MaxLease /\ granted[h] + 1 \in 0..MaxLease
      BY <1>1, <2>1, RegisterAssumption DEF OtherTypes, RegisterAssumption
    <3>2. l \in Lease /\ l.host = h
      BY <3>1 DEF Lease
    <3> HIDE DEF l
    <3>3. l # NoLease
      BY <3>2, LeaseIsSome
    <3>4. UNCHANGED <<first, closer, tries, key, events, delayed, disturbed>>
      BY <1>4 DEF Grant
    <3>5. faults' \in 0..MaxFaults
      BY <1>1, <2>1, FaultType DEF OtherTypes
    <3>6. /\ pc'[h] \in {"put", "grant", "failed"}
          /\ pc' \in [Host -> {"idle", "grant", "put", "channel", "failed", "ended"}]
          /\ \A g \in Host \ {h} : pc'[g] = pc[g]
      BY <1>1, <2>1 DEF RegisterFails, OtherTypes
    <3>7. /\ \A g \in Host \ {h} : leaseID'[g] = leaseID[g] /\ chanOpen'[g] = chanOpen[g]
          /\ leaseID' \in [Host -> Lease \cup {NoLease}] /\ leaseID'[h] \in {leaseID[h], l}
          /\ chanOpen' \in [Host -> BOOLEAN] /\ kept' \subseteq Lease
          /\ pc'[h] = "put" => leaseID'[h] = l
      <4>1. CASE leaseID' = [leaseID EXCEPT ![h] = l]
        BY <1>1, <2>1, <3>2, <4>1 DEF OtherTypes
      <4>2. CASE leaseID' = leaseID /\ Fault /\ RegisterFails(h) /\ UNCHANGED <<chanOpen, kept>>
        BY <1>1, <4>2 DEF RegisterFails, OtherTypes
      <4> QED
        BY <2>1, <4>1, <4>2
    <3>8. OtherTypes'
      BY <1>1, <2>1, <3>1, <3>2, <3>4, <3>5, <3>6, <3>7 DEF OtherTypes
    <3>9. ProcInv'
      BY <1>1, <1>4, <2>1, <3>2, <3>3, <3>4, <3>6, <3>7 DEF Grant, OtherTypes, ProcInv, RegisterFails
    <3>10. HealthyIsRegistered'
      <4> SUFFICES ASSUME NEW g \in Host, pc'[g] = "channel", chanOpen'[g],
                          leaseID'[g] \in live'
                   PROVE  \/ key'[g] = leaseID'[g] \/ closer'[g] \in {"deleting", "ending"}
                          \/ g \in disturbed'
        BY DEF HealthyIsRegistered
      <4>1. g # h
        BY <3>6
      <4>2. pc[g] = "channel" /\ chanOpen[g] /\ leaseID'[g] = leaseID[g]
        BY <3>6, <3>7, <4>1
      <4>3. leaseID[g] # l
        BY <1>1, <3>2, <4>1, <4>2 DEF ProcInv
      <4>4. leaseID[g] \in live
        BY <2>1, <4>2, <4>3
      <4> QED
        BY <1>1, <3>4, <4>2, <4>4 DEF HealthyIsRegistered
    <3> QED
      BY <1>1, <2>1, <3>2, <3>4, <3>8, <3>9, <3>10, QuietStep
  <2>2. CASE /\ Fault /\ RegisterFails(h)
             /\ UNCHANGED <<granted, leaseID, chanOpen, live, kept>>
    <3>1. faults' \in 0..MaxFaults
      BY <1>1, <2>2, FaultType DEF OtherTypes
    <3>2. UNCHANGED <<first, closer, tries, key, events, delayed, disturbed>>
      BY <1>4 DEF Grant
    <3>3. pc' = [pc EXCEPT ![h] = IF first[h] THEN "failed" ELSE "grant"]
      BY <2>2 DEF RegisterFails
    <3>4. OtherTypes' /\ ProcInv' /\ HealthyIsRegistered'
      BY <1>1, <2>2, <3>1, <3>2, <3>3 DEF OtherTypes, ProcInv, HealthyIsRegistered
    <3> QED
      BY <1>1, <2>2, <3>2, <3>4, QuietStep
  <2> QED
    BY <1>4, <2>1, <2>2 DEF Grant
<1>5. ASSUME NEW h \in Host, Put(h) PROVE RegisterInv' /\ Grows
  <2> DEFINE r == PutRequest(h)
  <2>1. pc[h] = "put" /\ UNCHANGED <<leaseID, chanOpen, tries, granted, disturbed>>
    BY <1>5 DEF Put
  <2>2. r \in Request /\ r.lease = leaseID[h] /\ leaseID[h].host = h /\ r.op = "put"
    BY <1>1, <2>1 DEF PutRequest, Request, OtherTypes, ProcInv
  <2> HIDE DEF r
  <2>3. CASE Succeeds(r) /\ Registered(h)
    <3>1. /\ EtcdOK' /\ Grows /\ kept' = kept /\ live' \subseteq live
          /\ \A g \in Host \ {h} : key'[g] = key[g]
          /\ faults' \in 0..MaxFaults
          /\ delayed' \subseteq Request /\ Cardinality(delayed') <= 1
          /\ key'[h] = leaseID[h]
      BY <1>1, <2>2, <2>3, Sent
    <3>2. OtherTypes' /\ ProcInv'
      BY <1>1, <2>1, <2>3, <3>1 DEF Registered, OtherTypes, ProcInv
    <3>3. HealthyIsRegistered'
      BY <1>1, <2>1, <2>3, <3>1 DEF Registered, OtherTypes, HealthyIsRegistered
    <3> QED
      BY <1>2, <3>1, <3>2, <3>3 DEF RegisterInv
  <2>4. CASE Errs(r) /\ RegisterFails(h) /\ UNCHANGED <<first, closer>>
    <3>1. /\ EtcdOK' /\ Grows /\ kept' = kept /\ live' \subseteq live
          /\ \A g \in Host \ {h} : key'[g] = key[g]
          /\ faults' \in 0..MaxFaults
          /\ delayed' \subseteq Request /\ Cardinality(delayed') <= 1
      BY <1>1, <2>2, <2>4, Sent
    <3>2. OtherTypes' /\ ProcInv'
      BY <1>1, <2>1, <2>4, <3>1 DEF RegisterFails, OtherTypes, ProcInv
    <3>3. HealthyIsRegistered'
      BY <1>1, <2>1, <2>4, <3>1 DEF RegisterFails, OtherTypes, HealthyIsRegistered
    <3> QED
      BY <1>2, <3>1, <3>2, <3>3 DEF RegisterInv
  <2>5. CASE RegisterFails(h) /\ UNCHANGED <<first, closer, etcd, delayed, faults>>
    <3>1. OtherTypes' /\ ProcInv' /\ HealthyIsRegistered'
      BY <1>1, <2>1, <2>5 DEF RegisterFails, etcd, OtherTypes, ProcInv, HealthyIsRegistered
    <3> QED
      BY <1>1, <2>5, <3>1, QuietStep DEF etcd
  <2> QED
    BY <1>5, <2>3, <2>4, <2>5 DEF Put, r
<1>6. ASSUME NEW h \in Host, KeepAliveStops(h) PROVE RegisterInv' /\ Grows
  <2>1. faults' \in 0..MaxFaults
    BY <1>1, <1>6, FaultType DEF KeepAliveStops, OtherTypes
  <2>2. OtherTypes' /\ ProcInv' /\ HealthyIsRegistered'
    BY <1>1, <1>6, <2>1 DEF KeepAliveStops, OtherTypes, ProcInv, HealthyIsRegistered
  <2> QED
    BY <1>1, <1>6, <2>2, QuietStep DEF KeepAliveStops
<1>7. ASSUME NEW h \in Host, Revoke(h) PROVE RegisterInv' /\ Grows
  <2> DEFINE r == [op |-> "revoke", lease |-> leaseID[h]]
  <2>1. /\ pc[h] = "channel" /\ pc' = [pc EXCEPT ![h] = "grant"] /\ (Succeeds(r) \/ Errs(r))
        /\ UNCHANGED <<first, leaseID, chanOpen, closer, tries, granted, disturbed>>
    BY <1>7 DEF Revoke, ChannelClosed
  <2>2. r \in Request /\ r.lease.host = h
    BY <1>1, <2>1 DEF Request, OtherTypes, ProcInv
  <2> HIDE DEF r
  <2>3. /\ EtcdOK' /\ Grows /\ kept' = kept /\ live' \subseteq live
        /\ \A g \in Host \ {h} : key'[g] = key[g]
        /\ faults' \in 0..MaxFaults
        /\ delayed' \subseteq Request /\ Cardinality(delayed') <= 1
    BY <1>1, <2>1, <2>2, Sent
  <2>4. OtherTypes' /\ ProcInv'
    BY <1>1, <2>1, <2>3 DEF OtherTypes, ProcInv
  <2>5. HealthyIsRegistered'
    BY <1>1, <2>1, <2>3 DEF OtherTypes, HealthyIsRegistered
  <2> QED
    BY <1>2, <2>3, <2>4, <2>5 DEF RegisterInv
<1>8. ASSUME NEW h \in Host, CloseComponents(h) PROVE RegisterInv' /\ Grows
  <2>1. UNCHANGED <<key, events, live>>
    BY <1>8 DEF CloseComponents, etcd
  <2>2. OtherTypes' /\ ProcInv' /\ HealthyIsRegistered'
    BY <1>1, <1>8, RegisterAssumption
    DEF RegisterAssumption, CloseComponents, etcd, OtherTypes, ProcInv, HealthyIsRegistered
  <2> QED
    BY <1>1, <2>1, <2>2, QuietStep
<1>9. ASSUME NEW h \in Host, unregister(h) PROVE RegisterInv' /\ Grows
  <2> DEFINE r == [op |-> "delete", lease |-> leaseID[h]]
  <2>1. closer[h] = "deleting" /\ (Succeeds(r) \/ Errs(r))
    BY <1>9 DEF unregister
  <2>2. r \in Request /\ r.lease.host = h /\ tries[h] < MaxTries
    BY <1>1, <2>1 DEF Request, OtherTypes, ProcInv
  <2>3. \/ closer' = [closer EXCEPT ![h] = "ending"] /\ UNCHANGED tries
        \/ /\ tries' = [tries EXCEPT ![h] = @ + 1]
           /\ closer' = [closer EXCEPT ![h] = IF tries'[h] = MaxTries THEN "ending" ELSE @]
    BY <1>9 DEF unregister
  <2> HIDE DEF r
  <2>4. /\ EtcdOK' /\ Grows /\ kept' = kept /\ live' \subseteq live
        /\ \A g \in Host \ {h} : key'[g] = key[g]
        /\ faults' \in 0..MaxFaults
        /\ delayed' \subseteq Request /\ Cardinality(delayed') <= 1
    BY <1>1, <2>1, <2>2, Sent
  <2>5. UNCHANGED <<pc, first, leaseID, chanOpen, granted, disturbed>>
    BY <1>9 DEF unregister
  <2>6. /\ tries' \in [Host -> 0..MaxTries]
        /\ closer' \in [Host -> {"none", "added", "deleting", "ending"}]
        /\ closer'[h] \in {"deleting", "ending"}
        /\ closer'[h] = "deleting" => tries'[h] < MaxTries
        /\ \A g \in Host \ {h} : closer'[g] = closer[g] /\ tries'[g] = tries[g]
    BY <1>1, <2>1, <2>2, <2>3, RegisterAssumption DEF RegisterAssumption, OtherTypes
  <2>7. OtherTypes'
    BY <1>1, <2>4, <2>5, <2>6 DEF OtherTypes
  <2>8. ProcInv'
    BY <1>1, <2>1, <2>5, <2>6 DEF ProcInv
  <2>9. HealthyIsRegistered'
    BY <1>1, <2>4, <2>5, <2>6 DEF HealthyIsRegistered
  <2> QED
    BY <1>2, <2>4, <2>7, <2>8, <2>9 DEF RegisterInv
<1>10. ASSUME NEW h \in Host, Leaves(h), faults' \in 0..MaxFaults PROVE RegisterInv' /\ Grows
  <2>1. OtherTypes'
    BY <1>1, <1>10, RegisterAssumption DEF RegisterAssumption, Leaves, OtherTypes
  <2>2. ProcInv' /\ HealthyIsRegistered'
    BY <1>1, <1>10 DEF Leaves, OtherTypes, ProcInv, HealthyIsRegistered
  <2> QED
    BY <1>1, <1>10, <2>1, <2>2, QuietStep DEF Leaves
<1>11. ASSUME NEW h \in Host, Ends(h) \/ Crash(h) PROVE RegisterInv' /\ Grows
  <2>1. Leaves(h) /\ faults' \in 0..MaxFaults
    BY <1>1, <1>11, FaultType DEF Ends, Crash, OtherTypes
  <2> QED
    BY <1>10, <2>1
<1>12. ASSUME NEW l \in live, LeaseExpires(l) PROVE RegisterInv' /\ Grows
  <2>1. /\ l \in Lease /\ ApplyRevoke(l) /\ UNCHANGED <<process, granted, delayed, disturbed>>
    BY <1>1, <1>12 DEF LeaseExpires
  <2>2. faults' \in 0..MaxFaults /\ kept' = kept
    BY <1>1, <1>12, FaultType DEF LeaseExpires, ApplyRevoke, OtherTypes
  <2>3. /\ EtcdOK' /\ Grows /\ live' = live \ {l}
        /\ \A h \in Host : key[h] # l => key'[h] = key[h]
    BY <1>1, <2>1, EtcdRevoke
  <2>4. OtherTypes' /\ ProcInv'
    BY <1>1, <2>1, <2>2 DEF process, OtherTypes, ProcInv
  <2>5. HealthyIsRegistered'
    BY <1>1, <2>1, <2>3 DEF process, HealthyIsRegistered
  <2> QED
    BY <1>2, <2>3, <2>4, <2>5 DEF RegisterInv
<1>13. ASSUME AppliedLate PROVE RegisterInv' /\ Grows
  <2>1. PICK r \in delayed :
          /\ delayed' = {} /\ UNCHANGED <<process, granted, faults>>
          /\ \/ Apply(r) /\ disturbed' = disturbed \cup {h \in Host : key'[h] # key[h]}
             \/ UNCHANGED <<etcd, disturbed>>
    BY <1>13 DEF AppliedLate
  <2>2. delayed' \subseteq Request /\ Cardinality(delayed') <= 1 /\ r \in Request
    BY <1>1, <2>1, OneRequest DEF OtherTypes
  <2>3. CASE Apply(r) /\ disturbed' = disturbed \cup {h \in Host : key'[h] # key[h]}
    <3>1. EtcdOK' /\ Grows /\ kept' = kept /\ live' \subseteq live
      BY <1>1, <2>2, <2>3, EtcdApply
    <3>2. OtherTypes' /\ ProcInv'
      BY <1>1, <2>1, <2>2, <2>3, <3>1 DEF process, OtherTypes, ProcInv
    <3>3. HealthyIsRegistered'
      BY <1>1, <2>1, <2>3, <3>1 DEF process, HealthyIsRegistered
    <3> QED
      BY <1>2, <3>1, <3>2, <3>3 DEF RegisterInv
  <2>4. CASE UNCHANGED <<etcd, disturbed>>
    <3>1. OtherTypes' /\ ProcInv' /\ HealthyIsRegistered'
      BY <1>1, <2>1, <2>2, <2>4 DEF process, etcd, OtherTypes, ProcInv, HealthyIsRegistered
    <3> QED
      BY <1>1, <2>4, <3>1, QuietStep DEF etcd
  <2> QED
    BY <2>1, <2>3, <2>4
<1> QED
  BY <1>3, <1>4, <1>5, <1>6, <1>7, <1>8, <1>9, <1>11, <1>12, <1>13 DEF RegisterNext

(***************************************************************************)
(* The connection.                                                         *)
(***************************************************************************)

\* A goroutine under way has a channel, and while the resolver reads there is none.
ChannelInv ==
    /\ \A w \in Watch : watchers[w] \in {"range", "notify", "update"} => ranges[w] \in Watch
    /\ resolve \in {"get", "set"} => watchChan = NoWatch /\ resolves \in Watch

\* As long as nothing came out of order, the list is that of the revision before the next
\* event of the channel, and the connection has it.
ListInv ==
    /\ resolve = "set" => got.hosts = HostsAt(got.rev)
    /\ ~overtaken /\ watchChan # NoWatch => key2Addr = HostsAt(chans[watchChan].next - 1)
    /\ ~overtaken => cc = key2Addr

\* The types of what is not a revision.
PlainTypes ==
    /\ resolve \in {"idle", "get", "set", "closed", "fatal"} /\ resolves \in 0..MaxResolve
    /\ watchChan \in Watch \cup {NoWatch}
    /\ watchers \in [Watch -> {"none", "start", "blocked", "range", "notify", "update", "ended"}]
    /\ ranges \in [Watch -> Watch \cup {NoWatch}]
    /\ list \in [Watch -> SUBSET Host]
    /\ key2Addr \subseteq Host /\ cc \subseteq Host /\ overtaken \in BOOLEAN

RevTypes ==
    /\ got \in [rev : 0..Len(events), hosts : SUBSET Host]
    /\ chans \in [Watch -> [next : 1..(Len(events) + 1), open : BOOLEAN]]

ResolverInv == PlainTypes /\ RevTypes /\ ChannelInv /\ ListInv

Inv == RegisterInv /\ ResolverInv

LEMMA WatchFacts == Watch \subseteq Nat /\ NoWatch \notin Watch /\ NoWatch = 0
BY ResolverAssumption DEF ResolverAssumption, Watch, NoWatch

\* What the connection does, etcd and the servers do not see.
LEMMA RegisterFrame ==
  ASSUME RegisterInv, UNCHANGED registerVars
  PROVE  RegisterInv' /\ Grows /\ events' = events
<1>1. UNCHANGED <<pc, first, leaseID, chanOpen, closer, tries, granted, live, kept, key,
                  events, delayed, faults, disturbed>>
  BY DEF registerVars, process, etcd
<1>2. EtcdOK /\ OtherTypes /\ ProcInv /\ HealthyIsRegistered /\ live' \subseteq Lease
  BY <1>1, TypesSplit DEF RegisterInv, EtcdOK
<1>3. OtherTypes' /\ ProcInv' /\ HealthyIsRegistered'
  BY <1>1, <1>2 DEF OtherTypes, ProcInv, HealthyIsRegistered
<1> QED
  BY <1>1, <1>2, <1>3, QuietStep

\* A fault of another kind than theirs changes nothing for the servers.
LEMMA FaultFrame ==
  ASSUME RegisterInv, UNCHANGED <<process, granted, etcd, delayed, disturbed>>,
         faults' \in 0..MaxFaults
  PROVE  RegisterInv' /\ UNCHANGED events
<1>1. UNCHANGED <<pc, first, leaseID, chanOpen, closer, tries, granted, live, kept, key,
                  events, delayed, disturbed>>
  BY DEF process, etcd
<1>2. EtcdOK /\ OtherTypes /\ ProcInv /\ HealthyIsRegistered /\ live' \subseteq Lease
  BY <1>1, TypesSplit DEF RegisterInv, EtcdOK
<1>3. OtherTypes' /\ ProcInv' /\ HealthyIsRegistered'
  BY <1>1, <1>2 DEF OtherTypes, ProcInv, HealthyIsRegistered
<1> QED
  BY <1>1, <1>2, <1>3, QuietStep

LEMMA ResolverStart == Init => Inv
<1> SUFFICES ASSUME Init PROVE Inv
  OBVIOUS
<1>1. RegisterInv
  BY RegisterStart DEF Init
<1>2. Len(events) = 0
  BY DEF Init, RegisterInit
<1>3. PlainTypes /\ ChannelInv /\ ListInv
  <2>1. PlainTypes
    <3>1. 0 \in 0..MaxResolve
      BY ResolverAssumption DEF ResolverAssumption
    <3> QED
      BY <3>1 DEF Init, PlainTypes
  <2>2. ChannelInv
    BY DEF Init, ChannelInv
  <2>3. ListInv
    BY DEF Init, ListInv
  <2> QED
    BY <2>1, <2>2, <2>3
<1>4. RevTypes
  <2>1. 0 \in 0..Len(events) /\ 1 \in 1..(Len(events) + 1)
    BY <1>2
  <2> QED
    BY <2>1 DEF Init, RevTypes
<1> QED
  BY <1>1, <1>3, <1>4 DEF Inv, ResolverInv

\* Servers and etcd only add events, of which the connection does not know yet.
LEMMA EventsFrame ==
  ASSUME RegisterInv, Grows, ResolverInv, UNCHANGED resolverVars
  PROVE  ResolverInv'
<1>1. UNCHANGED <<resolve, resolves, got, watchChan, chans, watchers, ranges, list,
                  key2Addr, cc, overtaken>>
  BY DEF resolverVars, watchVars
<1>2. /\ Len(events) \in Nat /\ Len(events') \in Nat /\ Len(events) <= Len(events')
      /\ \A rev \in 0..Len(events) : HostsAt(rev)' = HostsAt(rev)
  BY DEF Grows, RegisterInv, EtcdOK
<1>3. PlainTypes' /\ ChannelInv'
  BY <1>1 DEF ResolverInv, PlainTypes, ChannelInv
<1>4. RevTypes'
  <2>1. 0..Len(events) \subseteq 0..Len(events')
        /\ 1..(Len(events) + 1) \subseteq 1..(Len(events') + 1)
    BY <1>2
  <2> QED
    BY <1>1, <2>1 DEF ResolverInv, RevTypes
<1>5. ListInv'
  <2>1. got.rev \in 0..Len(events)
    BY DEF ResolverInv, RevTypes
  <2>2. HostsAt(got.rev)' = HostsAt(got.rev)
    BY <1>1, <1>2, <2>1
  <2>3. ~overtaken' /\ watchChan' # NoWatch => key2Addr' = HostsAt(chans[watchChan].next - 1)'
    <3> SUFFICES ASSUME ~overtaken, watchChan # NoWatch
                 PROVE  key2Addr' = HostsAt(chans[watchChan].next - 1)'
      BY <1>1
    <3>1. chans[watchChan].next - 1 \in 0..Len(events)
      BY <1>2 DEF ResolverInv, RevTypes, PlainTypes
    <3>2. HostsAt(chans[watchChan].next - 1)' = HostsAt(chans[watchChan].next - 1)
      BY <1>1, <1>2, <3>1
    <3> QED
      BY <1>1, <3>2 DEF ResolverInv, ListInv
  <2> QED
    BY <1>1, <2>2, <2>3 DEF ResolverInv, ListInv
<1> QED
  BY <1>3, <1>4, <1>5 DEF ResolverInv

\* Every step of the connection keeps the invariant.
LEMMA ResolverStep ==
  Inv /\ (\/ ResolveNow \/ ResolveStep \/ Close
         \/ \E w \in Watch : WatchStep(w) \/ WatchCanceled(w)) => Inv'
<1> SUFFICES ASSUME Inv,
                    \/ ResolveNow \/ ResolveStep \/ Close
                    \/ \E w \in Watch : WatchStep(w) \/ WatchCanceled(w)
             PROVE  Inv'
  OBVIOUS
<1>1. /\ RegisterInv /\ PlainTypes /\ RevTypes /\ ChannelInv /\ ListInv
      /\ events \in Seq(EventType) /\ Len(events) \in Nat
  BY DEF Inv, ResolverInv, RegisterInv, EtcdOK
<1>2. ASSUME UNCHANGED registerVars
      PROVE  /\ RegisterInv' /\ UNCHANGED events
             /\ \A rev : HostsAt(rev)' = HostsAt(rev)
  <2>1. RegisterInv' /\ UNCHANGED events
    BY <1>1, <1>2, RegisterFrame
  <2> QED
    BY <2>1 DEF HostsAt
<1>3. ASSUME ResolveNow PROVE Inv'
  <2>1. RegisterInv' /\ UNCHANGED events /\ \A rev : HostsAt(rev)' = HostsAt(rev)
    BY <1>2, <1>3 DEF ResolveNow
  <2>2. resolves' \in Watch /\ resolves' \in 0..MaxResolve
    BY <1>1, <1>3, ResolverAssumption DEF ResolverAssumption, ResolveNow, PlainTypes, Watch
  <2>3. PlainTypes'
    BY <1>1, <1>3, <2>2 DEF ResolveNow, PlainTypes
  <2>4. RevTypes'
    BY <1>1, <1>3, <2>1 DEF ResolveNow, PlainTypes, RevTypes
  <2>5. ChannelInv'
    BY <1>1, <1>3, <2>2 DEF ResolveNow, ChannelInv
  <2>6. ListInv'
    BY <1>1, <1>3 DEF ResolveNow, ListInv
  <2> QED
    BY <2>1, <2>3, <2>4, <2>5, <2>6 DEF Inv, ResolverInv
<1>4. ASSUME Get PROVE Inv'
  <2>1. RegisterInv' /\ UNCHANGED events /\ \A rev : HostsAt(rev)' = HostsAt(rev)
    BY <1>2, <1>4 DEF Get
  <2>2. PICK rev \in 0..Len(events) : got' = [rev |-> rev, hosts |-> HostsAt(rev)]
    BY <1>4 DEF Get
  <2>3. HostsAt(rev) \in SUBSET Host
    BY DEF HostsAt
  <2>4. PlainTypes' /\ RevTypes'
    BY <1>1, <1>4, <2>1, <2>2, <2>3 DEF Get, watchVars, PlainTypes, RevTypes
  <2>5. ChannelInv'
    BY <1>1, <1>4 DEF Get, watchVars, ChannelInv
  <2>6. ListInv'
    BY <1>1, <1>4, <2>1, <2>2 DEF Get, watchVars, ListInv, ChannelInv
  <2> QED
    BY <2>1, <2>4, <2>5, <2>6 DEF Inv, ResolverInv
<1>5. ASSUME GetFails PROVE Inv'
  <2>1. RegisterInv' /\ UNCHANGED events /\ \A rev : HostsAt(rev)' = HostsAt(rev)
    BY <1>2, <1>5 DEF GetFails
  <2>2. PlainTypes' /\ RevTypes' /\ ChannelInv'
    BY <1>1, <1>5, <2>1 DEF GetFails, watchVars, PlainTypes, RevTypes, ChannelInv
  <2>3. ListInv'
    BY <1>1, <1>5, <2>1 DEF GetFails, watchVars, ListInv
  <2> QED
    BY <2>1, <2>2, <2>3 DEF Inv, ResolverInv
<1>6. ASSUME SetAddrs PROVE Inv'
  <2>1. RegisterInv' /\ UNCHANGED events /\ \A rev : HostsAt(rev)' = HostsAt(rev)
    BY <1>2, <1>6 DEF SetAddrs
  <2>2. /\ resolves \in Watch /\ got.rev \in 0..Len(events) /\ got.hosts \subseteq Host
        /\ got.rev + 1 \in 1..(Len(events) + 1) /\ (got.rev + 1) - 1 = got.rev
        /\ 0 \in 0..Len(events) /\ got.hosts = HostsAt(got.rev)
    BY <1>1, <1>6 DEF SetAddrs, RevTypes, ChannelInv, ListInv
  <2>3. chans' = [chans EXCEPT ![resolves] = [next |-> got.rev + 1, open |-> TRUE]]
    BY <1>6 DEF SetAddrs, WithRev
  <2>4. PlainTypes'
    BY <1>1, <1>6, <2>2 DEF SetAddrs, PlainTypes
  <2>5. RevTypes'
    BY <1>1, <1>6, <2>1, <2>2, <2>3 DEF SetAddrs, RevTypes
  <2>6. ChannelInv'
    BY <1>1, <1>6, <2>2, <2>3, WatchFacts DEF SetAddrs, PlainTypes, RevTypes, ChannelInv
  <2>7. ListInv'
    <3>1. chans'[watchChan'].next - 1 = got.rev
      BY <1>1, <1>6, <2>2, <2>3 DEF SetAddrs, RevTypes
    <3> QED
      BY <1>6, <2>1, <2>2, <3>1 DEF SetAddrs, ListInv
  <2> QED
    BY <2>1, <2>4, <2>5, <2>6, <2>7 DEF Inv, ResolverInv
<1>7. ASSUME Close PROVE Inv'
  <2>1. RegisterInv' /\ UNCHANGED events /\ \A rev : HostsAt(rev)' = HostsAt(rev)
    BY <1>2, <1>7 DEF Close
  <2>2. PlainTypes' /\ RevTypes' /\ ChannelInv'
    BY <1>1, <1>7, <2>1 DEF Close, PlainTypes, RevTypes, ChannelInv
  <2>3. watchChan # NoWatch => chans'[watchChan'].next = chans[watchChan].next
    BY <1>1, <1>7 DEF Close, PlainTypes, RevTypes
  <2>4. ListInv'
    BY <1>1, <1>7, <2>1, <2>3 DEF Close, ListInv
  <2> QED
    BY <2>1, <2>2, <2>4 DEF Inv, ResolverInv
<1>8. ASSUME NEW w \in Watch, watch(w) PROVE Inv'
  <2>1. RegisterInv' /\ UNCHANGED events /\ \A rev : HostsAt(rev)' = HostsAt(rev)
    BY <1>2, <1>8 DEF watch
  <2>2. PlainTypes' /\ RevTypes' /\ ChannelInv'
    BY <1>1, <1>8, <2>1, WatchFacts DEF watch, PlainTypes, RevTypes, ChannelInv
  <2>3. ListInv'
    BY <1>1, <1>8, <2>1 DEF watch, ListInv
  <2> QED
    BY <2>1, <2>2, <2>3 DEF Inv, ResolverInv
<1>9. ASSUME NEW w \in Watch, Receive(w) PROVE Inv'
  <2> DEFINE c == ranges[w]
             n == chans[c].next
  <2>1. RegisterInv' /\ UNCHANGED events /\ \A rev : HostsAt(rev)' = HostsAt(rev)
    BY <1>2, <1>9 DEF Receive
  <2>2. /\ watchers[w] = "range" /\ c \in Watch /\ n \in 1..Len(events)
        /\ n + 1 \in 1..(Len(events) + 1) /\ n - 1 \in Nat /\ (n + 1) - 1 = n
    BY <1>1, <1>9 DEF Receive, PlainTypes, RevTypes, ChannelInv
  <2>3. /\ chans' = [chans EXCEPT ![c].next = @ + 1]
        /\ key2Addr' = Applied(key2Addr, events[n])
        /\ overtaken' = (overtaken \/ c # watchChan \/ Shared(w))
        /\ cc' = key2Addr' /\ watchers' = [watchers EXCEPT ![w] = "notify"]
        /\ UNCHANGED <<resolves, got, watchChan, ranges, list>>
        /\ resolve' \in {resolve, "fatal"}
    BY <1>9 DEF Receive
  <2> HIDE DEF n
  <2>4. chans' \in [Watch -> [next : 1..(Len(events) + 1), open : BOOLEAN]]
        /\ chans'[c].next = n + 1
    BY <1>1, <2>2, <2>3 DEF RevTypes, n
  <2>5. events[n] \in EventType
    BY <1>1, <2>2
  <2>6. PlainTypes'
    BY <1>1, <2>2, <2>3, <2>5 DEF PlainTypes, Applied, EventType
  <2>7. RevTypes' /\ ChannelInv'
    BY <1>1, <2>1, <2>2, <2>3, <2>4 DEF PlainTypes, RevTypes, ChannelInv
  <2>8. ListInv'
    <3>1. ASSUME ~overtaken', watchChan' # NoWatch
          PROVE  key2Addr' = HostsAt(chans[watchChan].next - 1)'
      <4>1. c = watchChan /\ ~overtaken /\ watchChan # NoWatch
        BY <2>3, <3>1
      <4>2. key2Addr = HostsAt(n - 1)
        BY <1>1, <4>1 DEF ListInv, n
      <4>3. HostsAt(n) = Applied(HostsAt(n - 1), events[n])
        BY <1>1, <2>2, NextRevision DEF HostsAt, After
      <4>4. chans'[watchChan'].next - 1 = n
        BY <2>2, <2>3, <2>4, <4>1
      <4> QED
        BY <2>1, <2>3, <4>2, <4>3, <4>4
    <3> QED
      BY <1>1, <2>1, <2>3, <3>1 DEF ListInv
  <2> QED
    BY <2>1, <2>6, <2>7, <2>8 DEF Inv, ResolverInv
<1>10. ASSUME NEW w \in Watch, NotifyReads(w) PROVE Inv'
  <2>1. RegisterInv' /\ UNCHANGED events /\ \A rev : HostsAt(rev)' = HostsAt(rev)
    BY <1>2, <1>10 DEF NotifyReads
  <2>2. PlainTypes' /\ RevTypes' /\ ChannelInv'
    BY <1>1, <1>10, <2>1 DEF NotifyReads, PlainTypes, RevTypes, ChannelInv
  <2>3. ListInv'
    BY <1>1, <1>10, <2>1 DEF NotifyReads, ListInv
  <2> QED
    BY <2>1, <2>2, <2>3 DEF Inv, ResolverInv
<1>11. ASSUME NEW w \in Watch, UpdateState(w) PROVE Inv'
  <2>1. RegisterInv' /\ UNCHANGED events /\ \A rev : HostsAt(rev)' = HostsAt(rev)
    BY <1>2, <1>11 DEF UpdateState
  <2>2. PlainTypes' /\ RevTypes' /\ ChannelInv'
    BY <1>1, <1>11, <2>1 DEF UpdateState, PlainTypes, RevTypes, ChannelInv
  <2>3. ListInv'
    BY <1>1, <1>11, <2>1 DEF UpdateState, ListInv
  <2> QED
    BY <2>1, <2>2, <2>3 DEF Inv, ResolverInv
<1>12. ASSUME NEW w \in Watch, RangeEnds(w) PROVE Inv'
  <2>1. RegisterInv' /\ UNCHANGED events /\ \A rev : HostsAt(rev)' = HostsAt(rev)
    BY <1>2, <1>12 DEF RangeEnds
  <2>2. PlainTypes' /\ RevTypes' /\ ChannelInv'
    BY <1>1, <1>12, <2>1 DEF RangeEnds, PlainTypes, RevTypes, ChannelInv
  <2>3. ListInv'
    BY <1>1, <1>12, <2>1 DEF RangeEnds, ListInv
  <2> QED
    BY <2>1, <2>2, <2>3 DEF Inv, ResolverInv
<1>13. ASSUME NEW w \in Watch, WatchCanceled(w) PROVE Inv'
  <2>1. /\ UNCHANGED <<process, granted, etcd, delayed, disturbed>>
        /\ faults' \in 0..MaxFaults
    BY <1>1, <1>13, TypesSplit, FaultType DEF WatchCanceled, RegisterInv, OtherTypes
  <2>2. RegisterInv' /\ UNCHANGED events
    BY <1>1, <2>1, FaultFrame
  <2>3. \A rev : HostsAt(rev)' = HostsAt(rev)
    BY <2>2 DEF HostsAt
  <2>4. /\ chans' = [chans EXCEPT ![w].open = FALSE]
        /\ UNCHANGED <<resolve, resolves, got, watchChan, watchers, ranges, list, key2Addr,
                       cc, overtaken>>
    BY <1>13 DEF WatchCanceled
  <2>5. PlainTypes' /\ RevTypes' /\ ChannelInv'
    BY <1>1, <2>2, <2>4 DEF PlainTypes, RevTypes, ChannelInv
  <2>6. \A c \in Watch : chans'[c].next = chans[c].next
    BY <1>1, <2>4 DEF RevTypes
  <2>7. ListInv'
    BY <1>1, <2>3, <2>4, <2>6 DEF PlainTypes, ListInv
  <2> QED
    BY <2>2, <2>5, <2>7 DEF Inv, ResolverInv
<1> QED
  BY <1>3, <1>4, <1>5, <1>6, <1>7, <1>8, <1>9, <1>10, <1>11, <1>12, <1>13
  DEF ResolveStep, WatchStep

(***************************************************************************)
(* The theorems.                                                           *)
(***************************************************************************)

LEMMA InvHolds == Spec => []Inv
<1>1. Inv /\ [Next]_vars => Inv'
  <2> SUFFICES ASSUME Inv, [Next]_vars PROVE Inv'
    OBVIOUS
  <2>1. CASE RegisterNext /\ UNCHANGED resolverVars
    BY <2>1, RegisterStep, EventsFrame DEF Inv
  <2>2. CASE \/ ResolveNow \/ ResolveStep \/ Close
             \/ \E w \in Watch : WatchStep(w) \/ WatchCanceled(w)
    BY <2>2, ResolverStep
  <2>3. CASE UNCHANGED vars
    <3>1. UNCHANGED registerVars /\ UNCHANGED resolverVars
      BY <2>3 DEF vars
    <3> QED
      BY <3>1, RegisterFrame, EventsFrame DEF Inv
  <2> QED
    BY <2>1, <2>2, <2>3 DEF Next
<1> QED
  BY <1>1, ResolverStart, PTL DEF Spec

\* register.go and resolver.go: what the variables hold, and that at most one request that
\* was given up on is under way.
THEOREM TypeCorrect == Spec => []TypeOK
<1>1. Inv => TypeOK
  BY DEF Inv, RegisterInv, ResolverInv, PlainTypes, RevTypes, TypeOK
<1> QED
  BY <1>1, InvHolds, PTL

\* keepAlive (register.go:116): a server whose lease etcd has, and whose channel is open,
\* is registered with that lease, unless it shuts down or a late request changed its key.
THEOREM HealthyServersAreRegistered == Spec => []HealthyIsRegistered
<1>1. Inv => HealthyIsRegistered
  BY DEF Inv, RegisterInv
<1> QED
  BY <1>1, InvHolds, PTL

\* doResolveNow and watch (resolver.go:80): when a connection has applied every event, and
\* nothing came out of order, it has exactly the addresses that are registered.
THEOREM QuietConnectionsAreCurrent == Spec => []QuietIsCurrent
<1>1. Inv => QuietIsCurrent
  <2> SUFFICES ASSUME Inv, Watching, chans[watchChan].next > Len(events), ~overtaken
               PROVE  cc = HasKey
    BY DEF QuietIsCurrent
  <2>1. /\ watchChan \in Watch /\ Len(events) \in Nat
        /\ chans[watchChan].next \in 1..(Len(events) + 1)
    BY DEF Watching, Inv, ResolverInv, PlainTypes, RevTypes, RegisterInv, EtcdOK
  <2>2. chans[watchChan].next - 1 = Len(events)
    BY <2>1
  <2>3. cc = HostsAt(Len(events))
    BY <2>2 DEF Watching, Inv, ResolverInv, ListInv
  <2> QED
    BY <2>3 DEF Inv, RegisterInv, EtcdOK
<1> QED
  BY <1>1, InvHolds, PTL
=============================================================================
