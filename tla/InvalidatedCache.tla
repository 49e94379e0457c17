--------------------------- MODULE InvalidatedCache ---------------------------
(***************************************************************************)
(* What a cache promises whose entries are deleted after their data has    *)
(* changed.  A change makes what is cached of it stale and sends for its   *)
(* deletion.  A deletion under way ends only by being done, or by being    *)
(* lost with a trace.  Nothing but a change makes an entry stale later     *)
(* than when it was cached, and nothing but a change sends for a deletion. *)
(* An entry may expire at any time.                                        *)
(***************************************************************************)
EXTENDS TLAPS

CONSTANT Id

VARIABLES
    cached,     \* what has an entry
    stale,      \* what has an entry that is out of date
    pending,    \* what has a deletion under way
    bornStale,  \* what was out of date when it was cached
    lost        \* what had a deletion that was given up

vars == <<cached, stale, pending, bornStale, lost>>

Init == cached = {} /\ stale = {} /\ pending = {} /\ bornStale = {} /\ lost = {}

Change(i) ==
    /\ stale'   = stale \cup (cached \cap {i})
    /\ pending' = pending \cup {i}
    /\ UNCHANGED <<cached, bornStale, lost>>

\* The deletion of another change of the same data may still be under way.
Delete(i) ==
    /\ i \in pending
    /\ cached'  = cached \ {i} /\ stale' = stale \ {i}
    /\ pending' \in {pending, pending \ {i}}
    /\ UNCHANGED <<bornStale, lost>>

Lose ==
    \E given \in SUBSET pending :
       /\ lost' = lost \cup given
       /\ \E gone \in SUBSET given : pending' = pending \ gone
       /\ UNCHANGED <<cached, stale, bornStale>>

FillFresh(i) ==
    /\ cached'    = cached \cup {i} /\ stale' = stale \ {i}
    /\ bornStale' = bornStale \ {i}
    /\ UNCHANGED <<pending, lost>>

FillOld(i) ==
    /\ cached'    = cached \cup {i} /\ stale' = stale \cup {i}
    /\ bornStale' = bornStale \cup {i}
    /\ UNCHANGED <<pending, lost>>

Expires(i) ==
    /\ cached' = cached \ {i} /\ stale' = stale \ {i}
    /\ UNCHANGED <<pending, bornStale, lost>>

Next ==
    \/ Lose
    \/ \E i \in Id : Change(i) \/ Delete(i) \/ FillFresh(i) \/ FillOld(i) \/ Expires(i)

Spec == Init /\ [][Next]_vars

\* What went stale after it was cached has its deletion under way, or it was given up.
NothingForgotten == stale \ (bornStale \cup lost) \subseteq pending

\* Such a cache forgets no change of what it holds, whatever it fills, expires or gives up
\* meanwhile: what the two caches get from implementing it (object_cache_proxy.go:40-47,
\* slice_cache_proxy.go:75-82).
THEOREM ForgetsNothing == Spec => []NothingForgotten
<1>1. Init => NothingForgotten
  BY DEF Init, NothingForgotten
<1>2. NothingForgotten /\ [Next]_vars => NothingForgotten'
  <2> SUFFICES ASSUME NothingForgotten, [Next]_vars
               PROVE  NothingForgotten'
    OBVIOUS
  <2> USE DEF NothingForgotten
  <2>1. CASE Lose
    BY <2>1 DEF Lose
  <2>2. ASSUME NEW i \in Id, Change(i) PROVE NothingForgotten'
    BY <2>2 DEF Change
  <2>3. ASSUME NEW i \in Id, Delete(i) PROVE NothingForgotten'
    BY <2>3 DEF Delete
  <2>4. ASSUME NEW i \in Id, FillFresh(i) PROVE NothingForgotten'
    BY <2>4 DEF FillFresh
  <2>5. ASSUME NEW i \in Id, FillOld(i) PROVE NothingForgotten'
    BY <2>5 DEF FillOld
  <2>6. ASSUME NEW i \in Id, Expires(i) PROVE NothingForgotten'
    BY <2>6 DEF Expires
  <2>7. CASE UNCHANGED vars
    BY <2>7 DEF vars
  <2> QED
    BY <2>1, <2>2, <2>3, <2>4, <2>5, <2>6, <2>7 DEF Next
<1> QED
  BY <1>1, <1>2, PTL DEF Spec
===============================================================================
