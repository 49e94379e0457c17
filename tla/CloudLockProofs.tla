--------------------------- MODULE CloudLockProofs ---------------------------
(***************************************************************************)
(* Proofs about CloudLock, for any number of clients, any durations and    *)
(* any number of resends.                                                  *)
(***************************************************************************)
EXTENDS CloudLock, TLAPS

\* Initially every variable has its type.
LEMMA TypeInit == Init => TypeOK
BY CloudLockAssumption DEF Init, TypeOK, CloudLockAssumption

\* The values the timers are set to are in their ranges.
LEMMA Bounds ==
  /\ 0 \in 0 .. Expiration /\ Expiration \in 0 .. Expiration
  /\ 0 \in 0 .. TryLockTimeout /\ TryLockTimeout \in 0 .. TryLockTimeout
  /\ 0 \in 0 .. TryLockInterval /\ TryLockInterval \in 0 .. TryLockInterval
  /\ 0 \in 0 .. MaxRetries
  /\ \A k \in 0 .. MaxRetries : k < MaxRetries => k + 1 \in 0 .. MaxRetries
BY CloudLockAssumption DEF CloudLockAssumption

\* Counting down stays in range.
LEMMA LessRange ==
  ASSUME NEW m \in Nat, NEW t \in 0 .. m PROVE Less(t) \in 0 .. m
BY DEF Less

PCs  == {"idle", "trylock", "lock", "select", "retry", "held", "unlock", "crashed"}
Rets == {"none", "true", "false", "error", "false, nil"}

\* The end of a call keeps the types of what it sets.
LEMMA ReturnType ==
  ASSUME TypeOK, NEW c \in Client, NEW to \in PCs, NEW r \in Rets, Return(c, to, r)
  PROVE  /\ pc' \in [Client -> PCs] /\ ret' \in [Client -> Rets]
         /\ net' \in [Client -> {"none", "sent", "true", "false"}]
         /\ resends' \in [Client -> 0 .. MaxRetries]
         /\ left' \in [Client -> 0 .. Expiration]
         /\ timer' \in [Client -> 0 .. TryLockTimeout]
         /\ ticker' \in [Client -> 0 .. TryLockInterval]
         /\ fired' \in [Client -> BOOLEAN]
<1>1. left[c] \in 0 .. Expiration
  BY DEF TypeOK
<1>2. left' \in [Client -> 0 .. Expiration]
  BY <1>1, Bounds DEF TypeOK, Return
<1>3. /\ pc' \in [Client -> PCs] /\ ret' \in [Client -> Rets]
      /\ net' \in [Client -> {"none", "sent", "true", "false"}]
  BY DEF TypeOK, Return, PCs, Rets
<1>4. /\ resends' \in [Client -> 0 .. MaxRetries]
      /\ timer' \in [Client -> 0 .. TryLockTimeout]
      /\ ticker' \in [Client -> 0 .. TryLockInterval]
      /\ fired' \in [Client -> BOOLEAN]
  BY Bounds DEF TypeOK, Return
<1> QED
  BY <1>2, <1>3, <1>4

\* So does giving up on a command.
LEMMA AbandonType ==
  ASSUME TypeOK, NEW c \in Client, Abandon(c)
  PROVE  late' \in [Client -> SUBSET Commands]
<1>1. Command(c) \in Commands
  BY DEF Command, Commands
<1>2. late[c] \cup {Command(c)} \in SUBSET Commands
  BY <1>1 DEF TypeOK
<1> QED
  BY <1>2 DEF TypeOK, Abandon

\* Giving up touches no other object, and an Unlock is given up in Unlock.
LEMMA AbandonLate ==
  ASSUME TypeOK, NEW c \in Client, Abandon(c)
  PROVE  /\ \A d \in Client \ {c} : late'[d] = late[d]
         /\ "eval" \in late'[c] => "eval" \in late[c] \/ pc[c] = "unlock"
         /\ late'[c] # {} => late[c] # {} \/ c \in LateCommands
<1>1. CASE UNCHANGED late
  BY <1>1
<1>2. CASE /\ c \in LateCommands /\ net[c] = "sent"
           /\ late' = [late EXCEPT ![c] = @ \cup {Command(c)}]
  <2>1. /\ late'[c] = late[c] \cup {Command(c)}
        /\ \A d \in Client \ {c} : late'[d] = late[d]
    BY <1>2 DEF TypeOK
  <2>2. Command(c) = "eval" => pc[c] = "unlock"
    BY DEF Command
  <2> QED
    BY <1>2, <2>1, <2>2
<1> QED
  BY <1>1, <1>2 DEF Abandon

\* The lengths of time are numbers.
LEMMA Lengths ==
  ASSUME TypeOK
  PROVE  /\ Expiration \in Nat /\ ttl \in Nat
         /\ \A c \in Client : left[c] \in Nat /\ left[c] <= Expiration
<1>1. Expiration \in Nat
  BY CloudLockAssumption DEF CloudLockAssumption
<1>2. ttl \in 0 .. Expiration /\ left \in [Client -> 0 .. Expiration]
  BY DEF TypeOK
<1> QED
  BY <1>1, <1>2

\* Sending a command, and what Redis does with one.
LEMMA SendType ==
  ASSUME TypeOK, NEW c \in Client, Send(c)
  PROVE  /\ net' \in [Client -> {"none", "sent", "true", "false"}]
         /\ resends' \in [Client -> 0 .. MaxRetries]
BY Bounds DEF TypeOK, Send

LEMMA RedisType ==
  ASSUME TypeOK, NEW c \in Client, SetNX(c) \/ CompareAndDelete(c) \/ UNCHANGED redisVars
  PROVE  owner' \in SUBSET Client /\ ttl' \in 0 .. Expiration
BY Bounds DEF TypeOK, SetNX, CompareAndDelete, redisVars

\* Every step keeps the types.
LEMMA TypeStep ==
  TypeOK /\ [Next]_vars => TypeOK'
<1> SUFFICES ASSUME TypeOK, [Next]_vars PROVE TypeOK'
  OBVIOUS
<1> USE DEF TypeOK
<1>1. CASE UNCHANGED vars
  BY <1>1 DEF vars
<1>2. CASE Tick
  <2>1. Expiration \in Nat /\ TryLockTimeout \in Nat /\ TryLockInterval \in Nat
    BY CloudLockAssumption DEF CloudLockAssumption
  <2>2. /\ ttl' \in 0 .. Expiration
        /\ left' \in [Client -> 0 .. Expiration]
        /\ timer' \in [Client -> 0 .. TryLockTimeout]
    BY <1>2, <2>1, LessRange DEF Tick
  <2>3. ticker' \in [Client -> 0 .. TryLockInterval]
    BY <1>2, <2>1, LessRange, Bounds DEF Tick
  <2> QED
    BY <1>2, <2>2, <2>3 DEF Tick
<1>3. ASSUME NEW c \in Client, ServeSetNX(c) PROVE TypeOK'
  BY <1>3, RedisType DEF ServeSetNX, redisVars, loopVars
<1>4. ASSUME NEW c \in Client, ServeEval(c) PROVE TypeOK'
  BY <1>4, RedisType DEF ServeEval, redisVars, loopVars
<1>5. ASSUME NEW c \in Client, Acquired(c) PROVE TypeOK'
  BY <1>5, ReturnType, AbandonType DEF Acquired, redisVars, PCs, Rets
<1>6. ASSUME NEW c \in Client, NotAcquired(c) PROVE TypeOK'
  BY <1>6, ReturnType, AbandonType DEF NotAcquired, redisVars, PCs, Rets
<1>7. ASSUME NEW c \in Client, StartTimers(c) PROVE TypeOK'
  BY <1>7, Bounds DEF StartTimers, redisVars, loopVars
<1>8. ASSUME NEW c \in Client, TickerCase(c) PROVE TypeOK'
  BY <1>8, SendType, Bounds DEF TickerCase, redisVars, loopVars
<1>9. ASSUME NEW c \in Client, RetryFailed(c) PROVE TypeOK'
  BY <1>9, Bounds DEF RetryFailed, redisVars, loopVars
<1>10. ASSUME NEW c \in Client, Unlocked(c) PROVE TypeOK'
  <2>1. ret[c] \in Rets /\ "idle" \in PCs
    BY DEF Rets, PCs
  <2> QED
    BY <1>10, <2>1, ReturnType, AbandonType DEF Unlocked, redisVars, PCs, Rets
<1>11. ASSUME NEW c \in Client, Call(c) PROVE TypeOK'
  <2>1. pc' \in [Client -> PCs]
    BY <1>11 DEF Call, PCs
  <2>2. left' \in [Client -> 0 .. Expiration] /\ used' \in [Client -> BOOLEAN]
    BY <1>11, Bounds DEF Call
  <2>3. ret' \in [Client -> Rets]
    BY <1>11 DEF Call, Rets
  <2> QED
    BY <1>11, <2>1, <2>2, <2>3, SendType DEF Call, PCs, Rets, redisVars, loopVars
<1>12. ASSUME NEW c \in Client, Unlock(c) PROVE TypeOK'
  BY <1>12, SendType, Bounds DEF Unlock, redisVars, loopVars
<1>13. ASSUME NEW c \in Client, TimerCase(c) PROVE TypeOK'
  BY <1>13, ReturnType, AbandonType DEF TimerCase, redisVars, PCs, Rets
<1>14. ASSUME NEW c \in Client, Resend(c) PROVE TypeOK'
  <2>1. resends' \in [Client -> 0 .. MaxRetries]
    BY <1>14, Bounds DEF Resend
  <2>2. left' \in [Client -> 0 .. Expiration]
    BY <1>14, Bounds DEF Resend
  <2> QED
    BY <1>14, <2>1, <2>2, AbandonType DEF Resend, redisVars, loopVars
<1>15. ASSUME NEW c \in Client, Error(c) PROVE TypeOK'
  BY <1>15, ReturnType, AbandonType DEF Error, redisVars, PCs, Rets
<1>16. ASSUME NEW c \in Client, Crash(c) PROVE TypeOK'
  BY <1>16, ReturnType, AbandonType DEF Crash, redisVars, PCs, Rets
<1>17. ASSUME NEW c \in Client, ServeLate(c) PROVE TypeOK'
  <2>1. \A x : late[c] \ {x} \in SUBSET Commands
    BY DEF TypeOK
  <2>2. late' \in [Client -> SUBSET Commands]
    BY <1>17, <2>1 DEF ServeLate
  <2> QED
    BY <1>17, <2>2, RedisType DEF ServeLate, redisVars, loopVars
<1> QED
  BY <1>1, <1>2, <1>3, <1>4, <1>5, <1>6, <1>7, <1>8, <1>9, <1>10,
     <1>11, <1>12, <1>13, <1>14, <1>15, <1>16, <1>17 DEF Next, ClientStep

\* Type correctness of the lock.
THEOREM TypeCorrect == Spec => []TypeOK
BY TypeInit, TypeStep, PTL DEF Spec

(***************************************************************************)
(* The lease of a client is backed by the key.                             *)
(***************************************************************************)

\* Redis granted the key to c, whether c knows it already or not, and the
\* lease has not run out.
Granted(c) ==
    /\ left[c] > 0
    /\ pc[c] = "held" \/ (pc[c] \in Waiting /\ net[c] = "true")

\* The key behind a lease is there and outlives it.
GrantInv == \A c \in Client : Granted(c) => owner = {c} /\ left[c] <= ttl

\* An object in a call was used, and an Unlock still under way is of an
\* object that is not locked again.
LateInv ==
    \A c \in Client :
       /\ pc[c] \notin {"idle", "crashed"} => used[c]
       /\ late[c] # {} => c \in LateCommands
       /\ "eval" \in late[c] => used[c] /\ pc[c] \in {"idle", "unlock", "crashed"}

LockInv == TypeOK /\ LateInv /\ GrantInv

\* Objects used once, or no late commands: every step keeps LateInv.
LEMMA LateStep ==
  ASSUME LateCommands \cap MayReuse = {}
  PROVE  TypeOK /\ LateInv /\ [Next]_vars => LateInv'
<1> SUFFICES ASSUME TypeOK, LateInv, [Next]_vars PROVE LateInv'
  OBVIOUS
<1> USE DEF TypeOK, LateInv, Waiting, Commands
<1>1. CASE UNCHANGED vars
  BY <1>1, CloudLockAssumption DEF vars
<1>2. CASE Tick
  BY <1>2, CloudLockAssumption DEF Tick, Less
<1>3. ASSUME NEW c \in Client, ServeSetNX(c) PROVE LateInv'
  BY <1>3, CloudLockAssumption DEF ServeSetNX, SetNX, redisVars, loopVars
<1>4. ASSUME NEW c \in Client, ServeEval(c) PROVE LateInv'
  BY <1>4, CloudLockAssumption DEF ServeEval, CompareAndDelete, redisVars, loopVars
<1>5. ASSUME NEW c \in Client, Acquired(c) PROVE LateInv'
  BY <1>5, CloudLockAssumption DEF Acquired, Return, redisVars, loopVars
<1>6. ASSUME NEW c \in Client, NotAcquired(c) PROVE LateInv'
  BY <1>6, CloudLockAssumption DEF NotAcquired, Return, redisVars, loopVars
<1>7. ASSUME NEW c \in Client, StartTimers(c) PROVE LateInv'
  BY <1>7, CloudLockAssumption DEF StartTimers, redisVars, loopVars
<1>8. ASSUME NEW c \in Client, TickerCase(c) PROVE LateInv'
  BY <1>8, CloudLockAssumption DEF TickerCase, Send, redisVars, loopVars
<1>9. ASSUME NEW c \in Client, RetryFailed(c) PROVE LateInv'
  BY <1>9, CloudLockAssumption DEF RetryFailed, redisVars, loopVars
<1>10. ASSUME NEW c \in Client, Unlocked(c) PROVE LateInv'
  BY <1>10, CloudLockAssumption DEF Unlocked, Return, Abandon, Command, redisVars, loopVars
<1>11. ASSUME NEW c \in Client, Call(c) PROVE LateInv'
  BY <1>11, CloudLockAssumption DEF Call, Send, redisVars, loopVars
<1>12. ASSUME NEW c \in Client, Unlock(c) PROVE LateInv'
  BY <1>12, CloudLockAssumption DEF Unlock, Send, redisVars, loopVars
<1>13. ASSUME NEW c \in Client, TimerCase(c) PROVE LateInv'
  BY <1>13, CloudLockAssumption DEF TimerCase, Return, redisVars, loopVars
<1>14. ASSUME NEW c \in Client, Resend(c) PROVE LateInv'
  BY <1>14, AbandonLate DEF Resend, redisVars, loopVars
<1>15. ASSUME NEW c \in Client, Error(c) PROVE LateInv'
  BY <1>15, CloudLockAssumption DEF Error, Return, Abandon, Command, redisVars, loopVars
<1>16. ASSUME NEW c \in Client, Crash(c) PROVE LateInv'
  BY <1>16, AbandonLate DEF Crash, Return, redisVars, loopVars
<1>17. ASSUME NEW c \in Client, ServeLate(c) PROVE LateInv'
  <2>1. /\ UNCHANGED <<pc, used>>
        /\ \A d \in Client : late'[d] \subseteq late[d]
    <3>1. UNCHANGED <<pc, used>>
      BY <1>17 DEF ServeLate
    <3>2. PICK x : late' = [late EXCEPT ![c] = @ \ {x}]
      BY <1>17 DEF ServeLate
    <3>3. \A d \in Client : late'[d] \subseteq late[d]
      BY <3>2
    <3> QED
      BY <3>1, <3>3
  <2> QED
    BY <2>1
<1> QED
  BY <1>1, <1>2, <1>3, <1>4, <1>5, <1>6, <1>7, <1>8, <1>9, <1>10,
     <1>11, <1>12, <1>13, <1>14, <1>15, <1>16, <1>17 DEF Next, ClientStep

\* Every step keeps GrantInv.
LEMMA GrantStep ==
  TypeOK /\ LateInv /\ GrantInv /\ [Next]_vars => GrantInv'
<1> SUFFICES ASSUME TypeOK, LateInv, GrantInv, [Next]_vars PROVE GrantInv'
  OBVIOUS
<1> USE DEF TypeOK, LateInv, GrantInv, Granted, Waiting, CloudLockAssumption
<1>1. CASE UNCHANGED vars
  BY <1>1, CloudLockAssumption DEF vars
<1>2. CASE Tick
  <2>1. ttl \in Nat /\ \A c \in Client : left[c] \in Nat
    BY Lengths
  <2> HIDE DEF TypeOK, LateInv, CloudLockAssumption
  <2>2. ASSUME NEW c \in Client, Granted(c)'
        PROVE  Granted(c) /\ left'[c] = left[c] - 1
    BY <1>2, <2>1, <2>2 DEF Tick, Less
  <2>3. ASSUME NEW c \in Client, Granted(c)'
        PROVE  owner = {c} /\ left[c] <= ttl /\ left[c] > 1
    BY <2>1, <2>2, <2>3
  <2>4. ASSUME NEW c \in Client, Granted(c)'
        PROVE  owner' = {c} /\ left'[c] <= ttl'
    BY <1>2, <2>1, <2>2, <2>3, <2>4 DEF Tick, Less
  <2> QED
    BY <2>4
<1>3. ASSUME NEW c \in Client, ServeSetNX(c) PROVE GrantInv'
  <2>1. left[c] <= Expiration
    BY Lengths
  <2>2. CASE owner = {}
    BY <1>3, <2>1, <2>2 DEF ServeSetNX, SetNX
  <2>3. CASE owner # {}
    BY <1>3, <2>3 DEF ServeSetNX, SetNX, redisVars
  <2> QED
    BY <2>2, <2>3
<1>4. ASSUME NEW c \in Client, ServeEval(c) PROVE GrantInv'
  BY <1>4, CloudLockAssumption DEF ServeEval, CompareAndDelete, redisVars, loopVars
<1>5. ASSUME NEW c \in Client, Acquired(c) PROVE GrantInv'
  BY <1>5, CloudLockAssumption DEF Acquired, Return, redisVars, loopVars
<1>6. ASSUME NEW c \in Client, NotAcquired(c) PROVE GrantInv'
  BY <1>6, CloudLockAssumption DEF NotAcquired, Return, redisVars, loopVars
<1>7. ASSUME NEW c \in Client, StartTimers(c) PROVE GrantInv'
  BY <1>7, CloudLockAssumption DEF StartTimers, redisVars, loopVars
<1>8. ASSUME NEW c \in Client, TickerCase(c) PROVE GrantInv'
  BY <1>8, CloudLockAssumption DEF TickerCase, Send, redisVars, loopVars
<1>9. ASSUME NEW c \in Client, RetryFailed(c) PROVE GrantInv'
  BY <1>9, CloudLockAssumption DEF RetryFailed, redisVars, loopVars
<1>10. ASSUME NEW c \in Client, Unlocked(c) PROVE GrantInv'
  BY <1>10, CloudLockAssumption DEF Unlocked, Return, Abandon, Command, redisVars, loopVars
<1>11. ASSUME NEW c \in Client, Call(c) PROVE GrantInv'
  BY <1>11, CloudLockAssumption DEF Call, Send, redisVars, loopVars
<1>12. ASSUME NEW c \in Client, Unlock(c) PROVE GrantInv'
  BY <1>12, CloudLockAssumption DEF Unlock, Send, redisVars, loopVars
<1>13. ASSUME NEW c \in Client, TimerCase(c) PROVE GrantInv'
  BY <1>13, CloudLockAssumption DEF TimerCase, Return, redisVars, loopVars
<1>14. ASSUME NEW c \in Client, Resend(c) PROVE GrantInv'
  BY <1>14, CloudLockAssumption DEF Resend, Abandon, Command, redisVars, loopVars
<1>15. ASSUME NEW c \in Client, Error(c) PROVE GrantInv'
  BY <1>15, CloudLockAssumption DEF Error, Return, Abandon, Command, redisVars, loopVars
<1>16. ASSUME NEW c \in Client, Crash(c) PROVE GrantInv'
  BY <1>16, CloudLockAssumption DEF Crash, Return, Abandon, Command, redisVars, loopVars
<1>17. ASSUME NEW c \in Client, ServeLate(c) PROVE GrantInv'
  <2>1. UNCHANGED <<pc, net, left>>
    BY <1>17 DEF ServeLate
  <2>2. CASE UNCHANGED redisVars
    BY <2>1, <2>2 DEF redisVars
  <2>3. CASE "setnx" \in late[c] /\ owner = {}
    BY <2>1, <2>3
  <2>4. CASE "eval" \in late[c] /\ owner = {c}
    <3>1. ~Granted(c)
      BY <2>4
    <3>2. \A d \in Client : ~Granted(d)
      BY <2>4, <3>1
    <3> QED
      BY <2>1, <3>2
  <2> QED
    BY <1>17, <2>2, <2>3, <2>4 DEF ServeLate, SetNX, CompareAndDelete
<1> QED
  BY <1>1, <1>2, <1>3, <1>4, <1>5, <1>6, <1>7, <1>8, <1>9, <1>10,
     <1>11, <1>12, <1>13, <1>14, <1>15, <1>16, <1>17 DEF Next, ClientStep

\* LockInv is an invariant, if objects are used once or no command is late.
LEMMA LockInvariant ==
  ASSUME LateCommands \cap MayReuse = {} PROVE Spec => []LockInv
<1>1. Init => LockInv
  <2>1. Init => LateInv /\ GrantInv
    BY DEF Init, LateInv, GrantInv, Granted, Waiting
  <2> QED
    BY <2>1, TypeInit DEF LockInv
<1>2. LockInv /\ [Next]_vars => LockInv'
  BY TypeStep, LateStep, GrantStep DEF LockInv
<1> QED
  BY <1>1, <1>2, PTL DEF Spec

\* Two clients that both hold the lock are the same.
LEMMA OneHolder ==
  ASSUME LockInv, NEW c \in Client, NEW d \in Client, Holds(c), Holds(d)
  PROVE  c = d
BY DEF LockInv, TypeOK, GrantInv, Granted, Holds

\* Whoever holds the lock within its lease owns the key, and the key outlives
\* the lease (TryLock and the script of Unlock).
THEOREM HoldersOwnTheKey == Spec => []HolderOwnsKey
<1>1. CASE LateCommands \cap MayReuse # {}
  <2>1. HolderOwnsKey
    BY <1>1 DEF HolderOwnsKey
  <2> QED
    BY <2>1, PTL
<1>2. CASE LateCommands \cap MayReuse = {}
  <2>1. LockInv => HolderOwnsKey
    BY DEF LockInv, GrantInv, Granted, Holds, HolderOwnsKey
  <2> QED
    BY <1>2, <2>1, LockInvariant, PTL
<1> QED
  BY <1>1, <1>2

\* Mutual exclusion within the lease, the purpose of CloudLock, whatever
\* replies are lost and whoever crashes, as long as no object is locked again
\* while one of its commands may still be under way.
THEOREM LockExcludes ==
  ASSUME LateCommands \cap MayReuse = {} PROVE Spec => []MutualExclusion
<1>1. LockInv => MutualExclusion
  BY OneHolder DEF MutualExclusion
<1> QED
  BY <1>1, LockInvariant, PTL

(***************************************************************************)
(* Unlock releases only the key of its own object.                         *)
(***************************************************************************)

\* The key goes by Redis's clock or by a script of its owner.
LEMMA KeyGoes ==
  ASSUME TypeOK, [Next]_vars, NEW c \in Client, owner = {c}, owner' # {c}
  PROVE  pc[c] = "unlock" \/ "eval" \in late[c] \/ ttl <= 1
<1>1. ASSUME NEW d \in Client, SetNX(d) PROVE FALSE
  BY <1>1 DEF SetNX, redisVars
<1>2. ASSUME NEW d \in Client, CompareAndDelete(d) PROVE d = c
  BY <1>2 DEF CompareAndDelete, redisVars
<1>3. CASE Tick
  BY <1>3 DEF Tick
<1>4. ASSUME NEW d \in Client, ServeSetNX(d) PROVE FALSE
  BY <1>1, <1>4 DEF ServeSetNX
<1>5. ASSUME NEW d \in Client, ServeEval(d) PROVE pc[c] = "unlock"
  BY <1>2, <1>5 DEF ServeEval
<1>6. ASSUME NEW d \in Client, ServeLate(d) PROVE "eval" \in late[c]
  BY <1>1, <1>2, <1>6 DEF ServeLate
<1>7. ASSUME UNCHANGED owner PROVE FALSE
  BY <1>7
<1> QED
  BY <1>3, <1>4, <1>5, <1>6, <1>7
     DEF Next, ClientStep, vars, redisVars, Acquired, NotAcquired, StartTimers,
         TickerCase, RetryFailed, Unlocked, Call, Unlock, TimerCase, Resend,
         Error, Crash

\* A key always has time to live: SETNX sets the expiration with it.
KeyLives == owner # {} => ttl > 0

\* Every step keeps it so.
LEMMA KeyLivesStep == TypeOK /\ KeyLives /\ [Next]_vars => KeyLives'
<1> SUFFICES ASSUME TypeOK, KeyLives, [Next]_vars PROVE KeyLives'
  OBVIOUS
<1>0. Expiration > 0 /\ ttl \in Nat
  BY CloudLockAssumption, Lengths DEF CloudLockAssumption
<1>1. ASSUME NEW d \in Client, SetNX(d) \/ CompareAndDelete(d) PROVE KeyLives'
  BY <1>0, <1>1 DEF KeyLives, SetNX, CompareAndDelete, redisVars
<1>2. ASSUME UNCHANGED redisVars PROVE KeyLives'
  BY <1>2 DEF KeyLives, redisVars
<1>3. CASE Tick
  BY <1>0, <1>3 DEF KeyLives, Tick, Less
<1>4. ASSUME NEW d \in Client, ServeSetNX(d) \/ ServeEval(d) \/ ServeLate(d)
      PROVE  KeyLives'
  BY <1>1, <1>4 DEF ServeSetNX, ServeEval, ServeLate
<1> QED
  BY <1>2, <1>3, <1>4
     DEF Next, ClientStep, vars, redisVars, Acquired, NotAcquired, StartTimers,
         TickerCase, RetryFailed, Unlocked, Call, Unlock, TimerCase, Resend,
         Error, Crash

\* The key of a client goes only by its own Unlock or by its expiration
\* (cloud_clock.go:96-111), for every choice of the constants.
THEOREM UnlocksOwnKeyOnly == Spec => OnlyOwnUnlock
<1>1. Init => KeyLives
  BY DEF Init, KeyLives
<1>2. TypeOK /\ KeyLives /\ [Next]_vars =>
        [\A c \in Client : owner = {c} /\ owner' # {c} =>
            pc[c] = "unlock" \/ "eval" \in late[c] \/ ttl = 1]_vars
  BY KeyGoes, Lengths DEF KeyLives
<1> QED
  BY <1>1, <1>2, TypeCorrect, KeyLivesStep, PTL DEF Spec, OnlyOwnUnlock

(***************************************************************************)
(* Refinement.                                                             *)
(***************************************************************************)

\* A step changes who holds the lock only when a reply grants it, when its
\* holder unlocks or crashes, or when time passes.
LEMMA HolderSteps ==
  ASSUME TypeOK, [Next]_vars
  PROVE  \/ UNCHANGED {c \in Client : Holds(c)}
         \/ \E d \in Client :
               /\ Acquired(d) \/ Unlock(d) \/ Crash(d)
               /\ \A c \in Client \ {d} : Holds(c)' <=> Holds(c)
         \/ Tick
<1> DEFINE Same(d) == \A c \in Client \ {d} : Holds(c)' <=> Holds(c)
<1>1. ASSUME \A c \in Client : Holds(c)' <=> Holds(c)
      PROVE  UNCHANGED {c \in Client : Holds(c)}
  BY <1>1
<1>2. ASSUME UNCHANGED <<pc, left>> PROVE UNCHANGED {c \in Client : Holds(c)}
  BY <1>1, <1>2 DEF Holds
<1>3. ASSUME NEW d \in Client, pc[d] # "held", pc'[d] # "held",
             \A c \in Client \ {d} : pc'[c] = pc[c] /\ left'[c] = left[c]
      PROVE  UNCHANGED {c \in Client : Holds(c)}
  <2>1. \A c \in Client : Holds(c)' <=> Holds(c)
    BY <1>3 DEF Holds
  <2> QED
    BY <1>1, <2>1
<1>4. ASSUME NEW d \in Client, Acquired(d) \/ Unlock(d) \/ Crash(d)
      PROVE  Same(d)
  BY <1>4 DEF Acquired, Unlock, Crash, Return, TypeOK, Holds
<1>5. ASSUME NEW d \in Client, ServeSetNX(d) \/ ServeEval(d) \/ ServeLate(d)
      PROVE  UNCHANGED {c \in Client : Holds(c)}
  BY <1>2, <1>5 DEF ServeSetNX, ServeEval, ServeLate
<1>6. ASSUME NEW d \in Client,
             \/ NotAcquired(d) \/ StartTimers(d) \/ TickerCase(d) \/ RetryFailed(d)
             \/ Unlocked(d) \/ Call(d) \/ TimerCase(d) \/ Error(d)
      PROVE  UNCHANGED {c \in Client : Holds(c)}
  <2>1. pc[d] # "held" /\ pc'[d] # "held"
    BY <1>6 DEF NotAcquired, StartTimers, TickerCase, RetryFailed, Unlocked,
                Call, TimerCase, Error, Return, Waiting, TypeOK
  <2>2. \A c \in Client \ {d} : pc'[c] = pc[c] /\ left'[c] = left[c]
    BY <1>6 DEF NotAcquired, StartTimers, TickerCase, RetryFailed, Unlocked,
                Call, TimerCase, Error, Return, TypeOK
  <2> QED
    BY <1>3, <2>1, <2>2
<1>7. ASSUME NEW d \in Client, Resend(d)
      PROVE  UNCHANGED {c \in Client : Holds(c)}
  <2>1. UNCHANGED pc /\ \A c \in Client : pc[c] = "held" => left'[c] = left[c]
    BY <1>7 DEF Resend, TypeOK, Waiting
  <2> QED
    BY <1>1, <2>1 DEF Holds
<1>8. ASSUME UNCHANGED vars PROVE UNCHANGED {c \in Client : Holds(c)}
  BY <1>2, <1>8 DEF vars
<1> QED
  BY <1>4, <1>5, <1>6, <1>7, <1>8 DEF Next, ClientStep

\* Every step is one of LeaseLock, or a stutter of it.
LEMMA LeaseStep ==
  LockInv /\ LockInv' /\ [Next]_vars => [Lease!Next]_{c \in Client : Holds(c)}
<1> SUFFICES ASSUME LockInv, LockInv', [Next]_vars
             PROVE  [Lease!Next]_{c \in Client : Holds(c)}
  OBVIOUS
<1> DEFINE H == {c \in Client : Holds(c)}
<1>0. TypeOK
  BY DEF LockInv
<1>1. H = {} \/ \E c \in Client : H = {c}
  BY OneHolder
<1>2. H' = {} \/ \E c \in Client : H' = {c}
  <2>1. ASSUME NEW c \in Client, Holds(c)' PROVE owner' = {c}
    <3>1. Granted(c)'
      BY <2>1 DEF Holds, Granted
    <3> QED
      BY <3>1 DEF LockInv, GrantInv
  <2> QED
    BY <2>1
<1>3. ASSUME H' \subseteq H PROVE [Lease!Next]_H
  BY <1>1, <1>3 DEF Lease!Next, Lease!Lose
<1>4. CASE Tick
  <2>1. ASSUME NEW c \in Client, Holds(c)' PROVE Holds(c)
    BY <1>0, <1>4, <2>1, Lengths DEF Tick, Holds, Less
  <2> QED
    BY <1>3, <2>1
<1>5. ASSUME NEW d \in Client, Unlock(d) \/ Crash(d),
             \A c \in Client \ {d} : Holds(c)' <=> Holds(c)
      PROVE  [Lease!Next]_H
  <2>1. ~ Holds(d)'
    BY <1>0, <1>5 DEF Unlock, Crash, Return, Holds, TypeOK
  <2> QED
    BY <1>3, <1>5, <2>1
<1>6. ASSUME NEW d \in Client, Acquired(d),
             \A c \in Client \ {d} : Holds(c)' <=> Holds(c)
      PROVE  [Lease!Next]_H
  <2>1. ~ Holds(d)
    BY <1>6 DEF Acquired, Holds, Waiting
  <2>2. CASE Holds(d)'
    <3>1. H' = {d}
      BY <1>2, <2>2
    <3>2. H = {}
      BY <1>6, <2>1, <3>1
    <3> QED
      BY <3>1, <3>2 DEF Lease!Next, Lease!Acquire
  <2>3. CASE ~ Holds(d)'
    BY <1>3, <1>6, <2>3
  <2> QED
    BY <2>2, <2>3
<1> QED
  BY <1>0, <1>4, <1>5, <1>6, HolderSteps

\* CloudLock implements a lock with a lease: initial states map to initial
\* states and every step of Redis, a client or time to a step or a stutter.
THEOREM CloudLockImplementsLease ==
  ASSUME LateCommands \cap MayReuse = {} PROVE Spec => LeaseSpec
<1>1. Init => Lease!Init
  BY DEF Init, Lease!Init, Holds
<1> QED
  BY <1>1, LockInvariant, LeaseStep, PTL DEF Spec, LeaseSpec, Lease!Spec
=============================================================================
