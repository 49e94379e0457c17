------------------------------ MODULE CloudLock ------------------------------
(***************************************************************************)
(* The distributed lock on a Redis key of data/cloud_clock.go.             *)
(*                                                                         *)
(* A member of Client is one CloudLock object, used by one goroutine (the  *)
(* type is not safe for more), with a lockID of its own.  A command is     *)
(* sent, is applied by Redis, and its reply comes back in separate steps;  *)
(* the go-redis client resends a command it got no reply to, gives up with *)
(* an error after MaxRetries, and a command it gave up on may have been    *)
(* lost, applied, or be applied later from the socket of its connection.   *)
(*                                                                         *)
(* Time is discrete.  All timers are kept as the time that is left, so     *)
(* that a step of time counts them down and the state stays finite.        *)
(***************************************************************************)
EXTENDS Integers, FiniteSets

CONSTANTS
    Client,             \* the CloudLock objects on one Redis key
    Expiration,         \* expiration of the key
    TryLockInterval,    \* period of the ticker of Lock
    TryLockTimeout,     \* timer of Lock
    MaxRetries,         \* resends of a command by the Redis client
    LateCommands,       \* objects whose commands Redis may apply after they gave up
    MayReuse            \* objects that may be locked again after their first use

\* The setters of NewCloudLock accept only positive durations.
ASSUME CloudLockAssumption ==
    /\ Expiration \in Nat \ {0}
    /\ TryLockInterval \in Nat \ {0} /\ TryLockTimeout \in Nat \ {0}
    /\ MaxRetries \in Nat
    /\ LateCommands \subseteq Client /\ MayReuse \subseteq Client

VARIABLES
    owner,      \* whose lockID RedisKey holds: a set of at most one client
    ttl,        \* time left until Redis expires the key
    pc,         \* where the goroutine of the object is
    net,        \* its command: none, sent, or applied with its reply under way
    resends,    \* how often the Redis client has resent it
    late,       \* commands given up on that Redis may still apply
    left,       \* time left of the lease, counted from the sending of SETNX
    timer,      \* time left of the timer of Lock
    ticker,     \* time left until the ticker of Lock fires
    fired,      \* does the channel of the ticker hold a tick?
    used,       \* has the object been locked before?
    ret         \* what its last Lock or TryLock returned

redisVars == <<owner, ttl>>
loopVars  == <<timer, ticker, fired>>
vars == <<owner, ttl, pc, net, resends, late, left, timer, ticker, fired, used, ret>>

Waiting  == {"trylock", "lock", "retry"}    \* for the reply of a SETNX
InLock   == {"lock", "select", "retry"}     \* in a call of Lock
Commands == {"setnx", "eval"}

Init ==
    /\ owner = {} /\ ttl = 0
    /\ pc      = [c \in Client |-> "idle"]
    /\ net     = [c \in Client |-> "none"]
    /\ resends = [c \in Client |-> 0]
    /\ late    = [c \in Client |-> {}]
    /\ left    = [c \in Client |-> 0]
    /\ timer   = [c \in Client |-> 0]
    /\ ticker  = [c \in Client |-> 0]
    /\ fired   = [c \in Client |-> FALSE]
    /\ used    = [c \in Client |-> FALSE]
    /\ ret     = [c \in Client |-> "none"]

(***************************************************************************)
(* Redis.                                                                  *)
(***************************************************************************)

\* Mutant: a SETNX that finds the key sets its expiration anew.
SetNXAndExpire(c) == owner' = (IF owner = {} THEN {c} ELSE owner) /\ ttl' = Expiration

\* SET key lockID NX PX expiration, on behalf of c.
SetNX(c) ==
    IF owner = {} THEN owner' = {c} /\ ttl' = Expiration
                  ELSE UNCHANGED redisVars

\* Mutant: Unlock deletes the key, whoever has it.
Delete(c) == owner' = {} /\ ttl' = 0

\* The script of Unlock: delete the key if it holds the lockID of c.
CompareAndDelete(c) ==
    IF owner = {c} THEN owner' = {} /\ ttl' = 0
                   ELSE UNCHANGED redisVars

ServeSetNX(c) ==
    /\ pc[c] \in Waiting /\ net[c] = "sent"
    /\ SetNX(c)
    /\ net' = [net EXCEPT ![c] = IF owner = {} THEN "true" ELSE "false"]
    /\ UNCHANGED <<pc, resends, late, left, loopVars, used, ret>>

ServeEval(c) ==
    /\ pc[c] = "unlock" /\ net[c] = "sent"
    /\ CompareAndDelete(c)
    /\ net' = [net EXCEPT ![c] = "true"]
    /\ UNCHANGED <<pc, resends, late, left, loopVars, used, ret>>

\* A command whose client gave up on it, applied after all.
ServeLate(c) ==
    /\ \/ /\ "setnx" \in late[c] /\ SetNX(c)
          /\ late' = [late EXCEPT ![c] = @ \ {"setnx"}]
       \/ /\ "eval" \in late[c] /\ CompareAndDelete(c)
          /\ late' = [late EXCEPT ![c] = @ \ {"eval"}]
    /\ UNCHANGED <<pc, net, resends, left, loopVars, used, ret>>

(***************************************************************************)
(* The Redis client of an object.                                          *)
(***************************************************************************)

Command(c) == IF pc[c] = "unlock" THEN "eval" ELSE "setnx"

Send(c) ==
    /\ net'     = [net EXCEPT ![c] = "sent"]
    /\ resends' = [resends EXCEPT ![c] = 0]

\* The command of c is given up on: it was lost or answered, or it has not
\* reached Redis yet and still may.
Abandon(c) ==
    \/ UNCHANGED late
    \/ /\ c \in LateCommands /\ net[c] = "sent"
       /\ late' = [late EXCEPT ![c] = @ \cup {Command(c)}]

\* Mutant: the number of resends is not limited.
ResendAlways(c) ==
    /\ net[c] # "none" /\ resends[c] <= MaxRetries
    /\ Abandon(c)
    /\ net'     = [net EXCEPT ![c] = "sent"]
    /\ resends' = [resends EXCEPT ![c] = @ + 1]
    /\ left'    = [left EXCEPT ![c] = IF pc[c] \in Waiting THEN Expiration ELSE @]
    /\ UNCHANGED <<redisVars, pc, loopVars, used, ret>>

\* The reply is missing: the library sends the command once more.
Resend(c) ==
    /\ net[c] # "none" /\ resends[c] < MaxRetries
    /\ Abandon(c)
    /\ net'     = [net EXCEPT ![c] = "sent"]
    /\ resends' = [resends EXCEPT ![c] = @ + 1]
    /\ left'    = [left EXCEPT ![c] = IF pc[c] \in Waiting THEN Expiration ELSE @]
    /\ UNCHANGED <<redisVars, pc, loopVars, used, ret>>

(***************************************************************************)
(* TryLock, Lock and Unlock.                                               *)
(***************************************************************************)

\* The end of a call: where the goroutine goes, what it returns; the timers
\* of a Lock are garbage and its lease is nothing unless it is held.
Return(c, to, r) ==
    /\ pc'     = [pc EXCEPT ![c] = to]
    /\ ret'    = [ret EXCEPT ![c] = r]
    /\ net'    = [net EXCEPT ![c] = "none"]
    /\ resends' = [resends EXCEPT ![c] = 0]
    /\ left'   = [left EXCEPT ![c] = IF to = "held" THEN @ ELSE 0]
    /\ timer'  = [timer EXCEPT ![c] = 0]
    /\ ticker' = [ticker EXCEPT ![c] = 0]
    /\ fired'  = [fired EXCEPT ![c] = FALSE]

\* A call of TryLock, or of Lock, which begins with one.
Call(c) ==
    /\ pc[c] = "idle" /\ (used[c] => c \in MayReuse)
    /\ \E call \in {"trylock", "lock"} : pc' = [pc EXCEPT ![c] = call]
    /\ Send(c)
    /\ left' = [left EXCEPT ![c] = Expiration]
    /\ used' = [used EXCEPT ![c] = TRUE]
    /\ ret'  = [ret EXCEPT ![c] = "none"]
    /\ UNCHANGED <<redisVars, late, loopVars>>

\* Mutant: any reply without an error is taken for the lock.
AcquiredUnlessError(c) ==
    /\ pc[c] \in Waiting /\ net[c] \in {"true", "false"}
    /\ Return(c, "held", "true")
    /\ UNCHANGED <<redisVars, late, used>>

\* SETNX was applied: the lock is taken.
Acquired(c) ==
    /\ pc[c] \in Waiting /\ net[c] = "true"
    /\ Return(c, "held", "true")
    /\ UNCHANGED <<redisVars, late, used>>

\* The key exists: TryLock returns false.
NotAcquired(c) ==
    /\ pc[c] = "trylock" /\ net[c] = "false"
    /\ Return(c, "idle", "false")
    /\ UNCHANGED <<redisVars, late, used>>

\* The first TryLock of Lock failed: the timer and the ticker are started.
StartTimers(c) ==
    /\ pc[c] = "lock" /\ net[c] = "false"
    /\ pc'     = [pc EXCEPT ![c] = "select"]
    /\ net'    = [net EXCEPT ![c] = "none"]
    /\ timer'  = [timer EXCEPT ![c] = TryLockTimeout]
    /\ ticker' = [ticker EXCEPT ![c] = TryLockInterval]
    /\ left'   = [left EXCEPT ![c] = 0]
    /\ UNCHANGED <<redisVars, resends, late, fired, used, ret>>

\* Mutant: every retry starts the timer anew (time.After in the loop).
TickerCaseResets(c) ==
    /\ pc[c] = "select" /\ fired[c]
    /\ fired' = [fired EXCEPT ![c] = FALSE]
    /\ pc'    = [pc EXCEPT ![c] = "retry"]
    /\ Send(c)
    /\ left'  = [left EXCEPT ![c] = Expiration]
    /\ timer' = [timer EXCEPT ![c] = TryLockTimeout]
    /\ UNCHANGED <<redisVars, late, ticker, used, ret>>

\* select, case <-ticker.C: try again.
TickerCase(c) ==
    /\ pc[c] = "select" /\ fired[c]
    /\ fired' = [fired EXCEPT ![c] = FALSE]
    /\ pc'    = [pc EXCEPT ![c] = "retry"]
    /\ Send(c)
    /\ left'  = [left EXCEPT ![c] = Expiration]
    /\ UNCHANGED <<redisVars, late, timer, ticker, used, ret>>

RetryFailed(c) ==
    /\ pc[c] = "retry" /\ net[c] = "false"
    /\ pc'   = [pc EXCEPT ![c] = "select"]
    /\ net'  = [net EXCEPT ![c] = "none"]
    /\ left' = [left EXCEPT ![c] = 0]
    /\ UNCHANGED <<redisVars, resends, late, loopVars, used, ret>>

\* select, case <-timer.C: return false, nil.
TimerCase(c) ==
    /\ pc[c] = "select" /\ timer[c] = 0
    /\ Return(c, "idle", "false, nil")
    /\ UNCHANGED <<redisVars, late, used>>

\* No reply, or the context is done: TryLock and Lock return the error.
Error(c) ==
    /\ pc[c] \in Waiting
    /\ Abandon(c)
    /\ Return(c, "idle", "error")
    /\ UNCHANGED <<redisVars, used>>

\* Unlock, by a holder or deferred by a caller that did not get the lock.
Unlock(c) ==
    /\ pc[c] = "held" \/ (pc[c] = "idle" /\ used[c])
    /\ pc' = [pc EXCEPT ![c] = "unlock"]
    /\ Send(c)
    /\ left' = [left EXCEPT ![c] = 0]
    /\ UNCHANGED <<redisVars, late, loopVars, used, ret>>

\* The script has run, or failed: Unlock logs the error and returns nothing.
Unlocked(c) ==
    /\ pc[c] = "unlock"
    /\ Abandon(c)
    /\ Return(c, "idle", ret[c])
    /\ UNCHANGED <<redisVars, used>>

\* The process of the object dies.
Crash(c) ==
    /\ pc[c] # "crashed"
    /\ Abandon(c)
    /\ Return(c, "crashed", "none")
    /\ UNCHANGED <<redisVars, used>>

(***************************************************************************)
(* Time.                                                                   *)
(***************************************************************************)

Less(t) == IF t = 0 THEN 0 ELSE t - 1

\* Redis expires the key, the leases run down, timers and tickers fire.
Tick ==
    /\ ttl'    = Less(ttl)
    /\ owner'  = IF ttl <= 1 THEN {} ELSE owner
    /\ left'   = [c \in Client |-> Less(left[c])]
    /\ timer'  = [c \in Client |-> Less(timer[c])]
    /\ ticker' = [c \in Client |-> IF ticker[c] = 1 THEN TryLockInterval
                                                    ELSE Less(ticker[c])]
    /\ fired'  = [c \in Client |-> fired[c] \/ ticker[c] = 1]
    /\ UNCHANGED <<pc, net, resends, late, used, ret>>

ClientStep(c) ==
    \/ ServeSetNX(c) \/ ServeEval(c)
    \/ Acquired(c) \/ NotAcquired(c) \/ StartTimers(c) \/ TickerCase(c)
    \/ RetryFailed(c) \/ Unlocked(c)

Next ==
    \/ Tick
    \/ \E c \in Client : \/ Call(c) \/ Unlock(c) \/ ClientStep(c) \/ TimerCase(c)
                         \/ Resend(c) \/ Error(c) \/ Crash(c) \/ ServeLate(c)

Spec == Init /\ [][Next]_vars

\* Time passes, Redis answers, goroutines run; a select whose two channels are
\* ready picks one at random, so the timer is taken in the end.
FairSpec ==
    /\ Spec
    /\ WF_vars(Tick)
    /\ \A c \in Client : WF_vars(ClientStep(c)) /\ SF_vars(TimerCase(c))

-----------------------------------------------------------------------------
(* Properties                                                              *)

\* Every variable has its type: the one type invariant of this module.
TypeOK ==
    /\ owner \in SUBSET Client /\ ttl \in 0 .. Expiration
    /\ pc      \in [Client -> {"idle", "trylock", "lock", "select", "retry",
                               "held", "unlock", "crashed"}]
    /\ net     \in [Client -> {"none", "sent", "true", "false"}]
    /\ resends \in [Client -> 0 .. MaxRetries]
    /\ late    \in [Client -> SUBSET Commands]
    /\ left    \in [Client -> 0 .. Expiration]
    /\ timer   \in [Client -> 0 .. TryLockTimeout]
    /\ ticker  \in [Client -> 0 .. TryLockInterval]
    /\ fired   \in [Client -> BOOLEAN]
    /\ used    \in [Client -> BOOLEAN]
    /\ ret     \in [Client -> {"none", "true", "false", "error", "false, nil"}]

\* c was told that it has the lock and its lease has not run out.
Holds(c) == pc[c] = "held" /\ left[c] > 0

\* The lock a client holds within its lease is the key in Redis, which lives
\* at least as long as the lease, unless an abandoned Unlock of an earlier use
\* of the object is still under way (cloud_clock.go:14, 67, 106-111).
HolderOwnsKey ==
    LateCommands \cap MayReuse = {} =>
       \A c \in Client : Holds(c) => owner = {c} /\ left[c] <= ttl

\* Two clients never hold the lock within their leases: what a distributed
\* lock is for (cloud_clock.go:14).
MutualExclusion ==
    \A c, d \in Client : Holds(c) /\ Holds(d) => c = d

\* A key of c goes only by c's own Unlock or by its expiration, never by the
\* Unlock of another (cloud_clock.go:96: it releases the lock it took itself).
OnlyOwnUnlock ==
    [][\A c \in Client : owner = {c} /\ owner' # {c} =>
          pc[c] = "unlock" \/ "eval" \in late[c] \/ ttl = 1]_vars

\* Every key goes in the end, that of a client that crashed, lost the reply or
\* never unlocks too: no lock is orphaned for ever.
KeyExpires == \A c \in Client : owner = {c} ~> owner # {c}

\* A call of Lock returns, although its select may find the ticker ready each
\* time it finds the timer ready.
LockReturns == \A c \in Client : pc[c] \in InLock ~> pc[c] \notin InLock

\* CloudLock implements a lock with a lease.
Lease == INSTANCE LeaseLock WITH holder <- {c \in Client : Holds(c)}
LeaseSpec == Lease!Spec
=============================================================================
