------------------------------ MODULE Snowflake ------------------------------
(***************************************************************************)
(* The distributed id generator of data/snowflake.go.                      *)
(*                                                                         *)
(* A member of Proc is one run of an operating system process of the       *)
(* application: a restart is another member of Proc, as nothing of the     *)
(* generator survives a restart but the Redis counter it takes its worker  *)
(* id from.  A member of Caller is a goroutine of a process that calls     *)
(* NextSnowflakeID again and again.  Every process reads its own clock, in *)
(* milliseconds.  An id is the record of the three fields the code packs   *)
(* into an int64.                                                          *)
(***************************************************************************)
EXTENDS Integers, Sequences

CONSTANTS
    Proc,               \* process runs that share the Redis counter
    Caller,             \* goroutines of a process
    SequenceMask,       \* cSequenceMask: the last sequence of a millisecond
    MaxWorkerID,        \* cMaxWorker, the modulus of the worker ids
    ManualWorkerIDs,    \* worker ids that applications pass to InitIDGenerator
    ClockMayStepBack,   \* may the wall clock be set back?
    MaxClock,           \* bound: the last millisecond a clock reaches
    MaxIncr,            \* bound: the counter past which no INCR is resent
    MaxIssued           \* bound: no call starts when a process issued so many

ASSUME SnowflakeAssumption ==
    /\ SequenceMask \in Nat /\ MaxWorkerID \in Nat \ {0}
    /\ ManualWorkerIDs \subseteq Nat
    /\ ClockMayStepBack \in BOOLEAN
    /\ MaxClock \in Nat /\ MaxIncr \in Nat /\ MaxIssued \in Nat

VARIABLES
    nextWorkerID,   \* the Redis counter app:<name>:nextworkerid
    once,           \* snowflakeOnce of each process
    gen,            \* idGenerator0 of each process
    lock,           \* who holds idGenerator.lock: a set of at most one caller
    pc,             \* where each caller is in NextSnowflakeID
    ts,             \* the local ts of nextSnowflakeID
    result,         \* how the last call of each caller ended
    clock,          \* the wall clock of each process
    issued          \* history: the ids each process has returned, in order

vars == <<nextWorkerID, once, gen, lock, pc, ts, result, clock, issued>>

NoGen == [workerID |-> -1, lastTimeStamp |-> -1, sequence |-> -1]

newIDGenerator(w) == [workerID |-> w, lastTimeStamp |-> -1, sequence |-> 0]

WorkerID == (0 .. MaxWorkerID - 1) \cup ManualWorkerIDs

Generator == [workerID : WorkerID, lastTimeStamp : -1 .. MaxClock,
              sequence : 0 .. SequenceMask]

ID == [ts : 0 .. MaxClock, workerID : WorkerID, sequence : 0 .. SequenceMask]

Init ==
    /\ nextWorkerID = 0
    /\ once   = [p \in Proc |-> "new"]
    /\ gen    = [p \in Proc |-> NoGen]
    /\ lock   = [p \in Proc |-> {}]
    /\ pc     = [p \in Proc |-> [c \in Caller |-> "idle"]]
    /\ ts     = [p \in Proc |-> [c \in Caller |-> 0]]
    /\ result = [p \in Proc |-> [c \in Caller |-> "none"]]
    /\ clock  = [p \in Proc |-> 0]
    /\ issued = [p \in Proc |-> <<>>]

(***************************************************************************)
(* Initialisation: sync.Once runs one function, concurrent callers wait    *)
(* for it, and it is done even when the function panics.                   *)
(***************************************************************************)

Goto(p, c, s) == pc' = [pc EXCEPT ![p][c] = s]

Return(p, c, r) ==
    /\ Goto(p, c, "idle")
    /\ result' = [result EXCEPT ![p][c] = r]

\* InitIDGenerator of a process that has not settled on a generator yet; in
\* any other state it changes nothing.  The id is not checked.
InitIDGenerator(p, w) ==
    /\ once[p] = "new"
    /\ once' = [once EXCEPT ![p] = "done"]
    /\ gen'  = [gen EXCEPT ![p] = newIDGenerator(w)]
    /\ UNCHANGED <<nextWorkerID, lock, pc, ts, result, clock, issued>>

\* A call of NextSnowflakeID arrives at snowflakeOnce.Do.  The bound on the
\* clock leaves every call that starts a later millisecond to wait for.
NextSnowflakeID(p, c) ==
    /\ pc[p][c] = "idle" /\ clock[p] < MaxClock /\ Len(issued[p]) < MaxIssued
    /\ Goto(p, c, "once")
    /\ result' = [result EXCEPT ![p][c] = "none"]
    /\ UNCHANGED <<nextWorkerID, once, gen, lock, ts, clock, issued>>

\* The first caller runs initIDGeneratorByRedis.
OnceDo(p, c) ==
    /\ pc[p][c] = "once" /\ once[p] = "new"
    /\ once' = [once EXCEPT ![p] = "running"]
    /\ Goto(p, c, "redis")
    /\ UNCHANGED <<nextWorkerID, gen, lock, ts, result, clock, issued>>

\* The reply of an INCR is lost after Redis applied it, and the client
\* library sends the command again.
IncrResent(p, c) ==
    /\ pc[p][c] = "redis" /\ nextWorkerID < MaxIncr
    /\ nextWorkerID' = nextWorkerID + 1
    /\ UNCHANGED <<once, gen, lock, pc, ts, result, clock, issued>>

\* Mutant: the counter is read and not incremented.
initIDGeneratorByGet(p, c) ==
    /\ pc[p][c] = "redis"
    /\ gen'  = [gen EXCEPT ![p] = newIDGenerator(nextWorkerID % MaxWorkerID)]
    /\ once' = [once EXCEPT ![p] = "done"]
    /\ Goto(p, c, "nilcheck")
    /\ UNCHANGED <<nextWorkerID, lock, ts, result, clock, issued>>

\* INCR replies, and its value modulo the number of workers is the worker id.
initIDGeneratorByRedis(p, c) ==
    /\ pc[p][c] = "redis"
    /\ nextWorkerID' = nextWorkerID + 1
    /\ gen'  = [gen EXCEPT ![p] = newIDGenerator(nextWorkerID' % MaxWorkerID)]
    /\ once' = [once EXCEPT ![p] = "done"]
    /\ Goto(p, c, "nilcheck")
    /\ UNCHANGED <<lock, ts, result, clock, issued>>

\* Redis is unreachable: the function panics through Do into the caller,
\* and no later call tries again.
initPanics(p, c) ==
    /\ pc[p][c] = "redis"
    /\ once' = [once EXCEPT ![p] = "done"]
    /\ Return(p, c, "panic")
    /\ UNCHANGED <<nextWorkerID, gen, lock, ts, clock, issued>>

OnceDone(p, c) ==
    /\ pc[p][c] = "once" /\ once[p] = "done"
    /\ Goto(p, c, "nilcheck")
    /\ UNCHANGED <<nextWorkerID, once, gen, lock, ts, result, clock, issued>>

NotInitialized(p, c) ==
    /\ pc[p][c] = "nilcheck" /\ gen[p] = NoGen
    /\ Return(p, c, "uninitialized")
    /\ UNCHANGED <<nextWorkerID, once, gen, lock, ts, clock, issued>>

(***************************************************************************)
(* nextSnowflakeID, under the mutex of the generator.                      *)
(***************************************************************************)

\* Mutant: the mutex is not waited for.
LockHeld(p, c) ==
    /\ pc[p][c] = "nilcheck" /\ gen[p] # NoGen
    /\ lock' = [lock EXCEPT ![p] = {c}]
    /\ Goto(p, c, "timeGen")
    /\ UNCHANGED <<nextWorkerID, once, gen, ts, result, clock, issued>>

Lock(p, c) ==
    /\ pc[p][c] = "nilcheck" /\ gen[p] # NoGen
    /\ lock[p] = {}
    /\ lock' = [lock EXCEPT ![p] = {c}]
    /\ Goto(p, c, "timeGen")
    /\ UNCHANGED <<nextWorkerID, once, gen, ts, result, clock, issued>>

timeGen(p, c) ==
    /\ pc[p][c] = "timeGen"
    /\ ts' = [ts EXCEPT ![p][c] = clock[p]]
    /\ Goto(p, c, "sequence")
    /\ UNCHANGED <<nextWorkerID, once, gen, lock, result, clock, issued>>

Unlock(p) == lock' = [lock EXCEPT ![p] = {}]

\* Mutant: the sequence is not masked.
nextSequenceUnmasked(g, t) == IF t = g.lastTimeStamp THEN g.sequence + 1 ELSE 0

\* The sequence of an id taken at t: the next one of the same millisecond,
\* with 0 for "exhausted", or 0 for another millisecond.
nextSequence(g, t) ==
    IF t = g.lastTimeStamp THEN (g.sequence + 1) % (SequenceMask + 1) ELSE 0

\* Mutant: the mutex is not released.
IssueLocked(p, c, t, s) ==
    /\ gen'    = [gen EXCEPT ![p].lastTimeStamp = t, ![p].sequence = s]
    /\ issued' = [issued EXCEPT ![p] = Append(@,
                     [ts |-> t, workerID |-> gen[p].workerID, sequence |-> s])]
    /\ UNCHANGED lock
    /\ Return(p, c, "id")

\* Return the id of time t and sequence s, and release the mutex.
Issue(p, c, t, s) ==
    /\ gen'    = [gen EXCEPT ![p].lastTimeStamp = t, ![p].sequence = s]
    /\ issued' = [issued EXCEPT ![p] = Append(@,
                     [ts |-> t, workerID |-> gen[p].workerID, sequence |-> s])]
    /\ Unlock(p)
    /\ Return(p, c, "id")

\* ts = lastTimeStamp and the sequence of this millisecond is exhausted.
SequenceExhausted(p, c) ==
    /\ pc[p][c] = "sequence"
    /\ ts[p][c] = gen[p].lastTimeStamp /\ nextSequence(gen[p], ts[p][c]) = 0
    /\ gen' = [gen EXCEPT ![p].sequence = 0]
    /\ Goto(p, c, "timeReGen")
    /\ UNCHANGED <<nextWorkerID, once, lock, ts, result, clock, issued>>

\* The clock is behind the last id: refused, after the sequence was reset.
RefuseBackwards(p, c) ==
    /\ pc[p][c] = "sequence" /\ ts[p][c] < gen[p].lastTimeStamp
    /\ gen' = [gen EXCEPT ![p].sequence = nextSequence(gen[p], ts[p][c])]
    /\ Unlock(p)
    /\ Return(p, c, "backwards")
    /\ UNCHANGED <<nextWorkerID, once, ts, clock, issued>>

\* Mutant: the clock is not compared with lastTimeStamp.
IssueUnchecked(p, c) ==
    /\ pc[p][c] = "sequence"
    /\ ts[p][c] = gen[p].lastTimeStamp => nextSequence(gen[p], ts[p][c]) # 0
    /\ Issue(p, c, ts[p][c], nextSequence(gen[p], ts[p][c]))
    /\ UNCHANGED <<nextWorkerID, once, ts, clock>>

\* A later millisecond, or the same one with sequences left.
IssueID(p, c) ==
    /\ pc[p][c] = "sequence" /\ ts[p][c] >= gen[p].lastTimeStamp
    /\ ts[p][c] = gen[p].lastTimeStamp => nextSequence(gen[p], ts[p][c]) # 0
    /\ Issue(p, c, ts[p][c], nextSequence(gen[p], ts[p][c]))
    /\ UNCHANGED <<nextWorkerID, once, ts, clock>>

\* Mutant: ts < last in place of ts <= last.
timeReGenSame(p, c) ==
    /\ pc[p][c] = "timeReGen" /\ clock[p] >= ts[p][c]
    /\ ts' = [ts EXCEPT ![p][c] = clock[p]]
    /\ Issue(p, c, clock[p], gen[p].sequence)
    /\ UNCHANGED <<nextWorkerID, once, clock>>

\* The spin loop of timeReGen sees a later millisecond; the id takes it with
\* the sequence 0 set before.
timeReGen(p, c) ==
    /\ pc[p][c] = "timeReGen" /\ clock[p] > ts[p][c]
    /\ ts' = [ts EXCEPT ![p][c] = clock[p]]
    /\ Issue(p, c, clock[p], gen[p].sequence)
    /\ UNCHANGED <<nextWorkerID, once, clock>>

(***************************************************************************)
(* The wall clocks.                                                        *)
(***************************************************************************)

\* A millisecond passes.
Tick(p) ==
    /\ clock[p] < MaxClock
    /\ clock' = [clock EXCEPT ![p] = @ + 1]
    /\ UNCHANGED <<nextWorkerID, once, gen, lock, pc, ts, result, issued>>

\* The clock is set back; not from the bound, which is the end of time.
StepBack(p) ==
    /\ ClockMayStepBack /\ clock[p] < MaxClock
    /\ \E t \in 0 .. MaxClock :
          /\ t < clock[p]
          /\ clock' = [clock EXCEPT ![p] = t]
    /\ UNCHANGED <<nextWorkerID, once, gen, lock, pc, ts, result, issued>>

\* A step of the call a caller is in.
CallStep(p, c) ==
    \/ OnceDo(p, c) \/ OnceDone(p, c)
    \/ initIDGeneratorByRedis(p, c) \/ initPanics(p, c)
    \/ NotInitialized(p, c)
    \/ timeGen(p, c) \/ SequenceExhausted(p, c) \/ RefuseBackwards(p, c)
    \/ IssueID(p, c) \/ timeReGen(p, c)

\* The bound of the model: no clock advances any more and no call starts.
ClockBoundReached ==
    /\ \A p \in Proc : clock[p] = MaxClock
    /\ UNCHANGED vars

Next ==
    \/ ClockBoundReached
    \/ \E p \in Proc :
       \/ \E w \in ManualWorkerIDs : InitIDGenerator(p, w)
       \/ \E c \in Caller : \/ NextSnowflakeID(p, c) \/ IncrResent(p, c)
                            \/ Lock(p, c) \/ CallStep(p, c)
       \/ Tick(p) \/ StepBack(p)

Spec == Init /\ [][Next]_vars

\* The scheduler runs every goroutine, the mutex of Go does not starve a
\* waiter, Redis answers or times out, and time passes: a clock that is set
\* back gets past every millisecond in the end.
Fairness ==
    \A p \in Proc :
       /\ <>[](clock[p] = MaxClock)
       /\ \A c \in Caller : SF_vars(CallStep(p, c)) /\ SF_vars(Lock(p, c))

FairSpec == Spec /\ Fairness

-----------------------------------------------------------------------------
(* Properties                                                              *)

\* Every variable has its type: the one type invariant of this module.
TypeOK ==
    /\ nextWorkerID \in Nat
    /\ once   \in [Proc -> {"new", "running", "done"}]
    /\ gen    \in [Proc -> Generator \cup {NoGen}]
    /\ lock   \in [Proc -> SUBSET Caller]
    /\ pc     \in [Proc -> [Caller -> {"idle", "once", "redis", "nilcheck",
                                       "timeGen", "sequence", "timeReGen"}]]
    /\ ts     \in [Proc -> [Caller -> 0 .. MaxClock]]
    /\ result \in [Proc -> [Caller -> {"none", "id", "panic", "uninitialized",
                                       "backwards"}]]
    /\ clock  \in [Proc -> 0 .. MaxClock]
    /\ issued \in [Proc -> Seq(ID)]

\* Two ids are compared as the int64 values of one worker are.
Below(a, b) == a.ts < b.ts \/ (a.ts = b.ts /\ a.sequence < b.sequence)

\* Ids that one process returns grow, whatever the order in which its
\* goroutines reach the mutex (nextSnowflakeID, snowflake.go:114-134).
IncreasingIDs ==
    \A p \in Proc : \A i, j \in DOMAIN issued[p] :
       i < j => Below(issued[p][i], issued[p][j])

\* No id is returned twice, in one process or in two, as long as the counter
\* has handed out no more worker ids than there are (package comment of
\* snowflake.go:1: "unique id in distribute system").
UniqueIDs ==
    nextWorkerID <= MaxWorkerID =>
       \A p, q \in Proc : \A i \in DOMAIN issued[p], j \in DOMAIN issued[q] :
          issued[p][i] = issued[q][j] => p = q /\ i = j

\* What the package comment says without a condition: no id is returned
\* twice (snowflake.go:1).
UniqueInDistributeSystem ==
    \A p, q \in Proc : \A i \in DOMAIN issued[p], j \in DOMAIN issued[q] :
       issued[p][i] = issued[q][j] => p = q /\ i = j

\* A clock that never steps back never makes a call fail: concurrent callers
\* do not mistake each other's ids for a clock that moved backwards
\* (snowflake.go:127-130).
NeverRefused ==
    ~ClockMayStepBack =>
       \A p \in Proc, c \in Caller : result[p][c] # "backwards"

\* Even under a clock that is set back, the timestamps of the ids of a
\* process never go back (the check of snowflake.go:127).
TimestampsNeverDecrease ==
    \A p \in Proc : \A i, j \in DOMAIN issued[p] :
       i < j => issued[p][i].ts <= issued[p][j].ts

\* Every call returns, an id, an error or a panic, although callers queue on
\* the mutex behind one that spins for the next millisecond, which a clock
\* that is set back keeps away (snowflake.go:93-103, 115).
CallsReturn ==
    \A p \in Proc, c \in Caller : pc[p][c] # "idle" ~> pc[p][c] = "idle"
=============================================================================
