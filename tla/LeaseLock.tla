------------------------------ MODULE LeaseLock ------------------------------
(***************************************************************************)
(* What a lock with a lease promises: at any time one client at most holds *)
(* it within its lease, and it passes to another only after it was given   *)
(* back or its lease ran out.                                              *)
(***************************************************************************)
CONSTANT Client

VARIABLE holder     \* who holds the lock within the lease: at most one

Init == holder = {}

Acquire(c) == holder = {} /\ holder' = {c}

\* The holder gives the lock back, crashes, or its lease runs out.
Lose(c) == holder = {c} /\ holder' = {}

Next == \E c \in Client : Acquire(c) \/ Lose(c)

Spec == Init /\ [][Next]_holder
=============================================================================
