--------------------------- MODULE KafkaConsumer ---------------------------
(***************************************************************************)
(* The Kafka consumers of a group (internal/components/kafka/consumer.go): *)
(* processes that each call StartKafkaConsumer once, for a topic of one    *)
(* partition.  The handler of a message runs first, then the message is    *)
(* marked, and marks are committed each second and when a session ends.    *)
(* Processes crash, are restarted, and shut down; the group rebalances.    *)
(* The broker and the client library are external, modelled from how the   *)
(* code uses them.                                                         *)
(***************************************************************************)
EXTENDS Integers, FiniteSets

CONSTANTS
    Process,
    MaxMessages,    \* bound: messages sent to the partition
    MaxFaults,      \* bound: crashes, timeouts, calls that fail
    MaxStarts       \* bound: processes started

ASSUME KafkaAssumption ==
    MaxMessages \in Nat /\ MaxFaults \in Nat /\ MaxStarts \in Nat \ {0}

None   == -1                    \* no offset, no message, no owner of the partition
Offset == 0..MaxMessages

VARIABLES
    main,       \* StartKafkaConsumer and its shutdown function
    loop,       \* the goroutine of start()
    cancelled,  \* is consumer.ctx cancelled?
    setupReady, \* is the current channel closed?
    position,   \* the next message of the claim, or None
    handling,   \* the message in ConsumeClaim
    done,       \* has consumeFunc ended with it?
    marked,     \* offset marked in the session, or None
    log,        \* messages sent
    committed,  \* offset committed by the group, or None
    members,    \* processes in the group
    joining,    \* those that wait for the rebalance under way
    current,    \* those whose session is of the present generation
    owner,      \* who has the partition in it
    rebalancing,
    faults, starts,
    handled,    \* history: messages whose consumeFunc ended
    base        \* history: where the last session without a committed offset began

consumerVars == <<main, loop, cancelled, setupReady>>
claimVars    == <<position, handling, done, marked>>
groupVars    == <<members, joining, current, owner, rebalancing>>
history      == <<handled, base>>
vars == <<consumerVars, claimVars, log, committed, groupVars, faults, starts, history>>

Init ==
    /\ main = [p \in Process |-> "none"] /\ loop = [p \in Process |-> "none"]
    /\ cancelled = [p \in Process |-> FALSE] /\ setupReady = [p \in Process |-> FALSE]
    /\ position = [p \in Process |-> None]
    /\ handling = [p \in Process |-> None] /\ done = [p \in Process |-> FALSE]
    /\ marked = [p \in Process |-> None]
    /\ log = 0 /\ committed = None
    /\ members = {} /\ joining = {} /\ current = {} /\ owner = None
    /\ rebalancing = FALSE /\ faults = 0 /\ starts = 0 /\ handled = {} /\ base = 0

Fault            == faults < MaxFaults /\ faults' = faults + 1
MainGoes(p, to)  == main' = [main EXCEPT ![p] = to]
LoopGoes(p, to)  == loop' = [loop EXCEPT ![p] = to]
Alive(p)         == loop[p] \notin {"none", "dead"}

-----------------------------------------------------------------------------
(***************************************************************************)
(* StartKafkaConsumer.                                                     *)
(***************************************************************************)

\* SendKafkaMessage of some process.
SendKafkaMessage ==
    /\ log < MaxMessages
    /\ log' = log + 1
    /\ UNCHANGED <<consumerVars, claimVars, committed, groupVars, faults, starts, history>>

\* Consume begins to join the group; it returns at once when the context is cancelled.
Consume(p) ==
    LoopGoes(p, "joins") /\ joining' = joining \cup {p} /\ rebalancing' = TRUE

\* A process begins, one that died after the group has missed it: it makes the consumer
\* and runs start() in a goroutine.
StartKafkaConsumer(p) ==
    /\ starts < MaxStarts /\ main[p] \in {"none", "dead"}
    /\ p \notin members \cup joining
    /\ starts' = starts + 1
    /\ MainGoes(p, "reads") /\ Consume(p)
    /\ UNCHANGED <<cancelled, setupReady, claimVars, log, committed, members, current,
                   owner, faults, history>>

\* <-kc.setupReady reads the field once: it waits on the channel of that moment.
\* When that is closed the process adds the function that closes the consumer.
AwaitSetup(p) ==
    /\ main[p] = "reads"
    /\ MainGoes(p, IF setupReady[p] THEN "added" ELSE "waits")
    /\ UNCHANGED <<loop, cancelled, setupReady, claimVars, log, committed, groupVars,
                   faults, starts, history>>

-----------------------------------------------------------------------------
(***************************************************************************)
(* start: sessions one after another.                                      *)
(***************************************************************************)

\* Consume returns an error before Setup: no coordinator, or the call was cancelled.
ConsumeFails(p) ==
    /\ loop[p] = "joins"
    /\ IF cancelled[p] THEN UNCHANGED faults ELSE Fault
    /\ LoopGoes(p, "consumed")
    /\ joining' = joining \ {p}
    /\ UNCHANGED <<main, cancelled, setupReady, claimVars, log, committed, members,
                   current, owner, rebalancing, starts, history>>

\* Mutant: the channel is made once, with the consumer.
SameChannel(p) ==
    /\ loop[p] = "consumed"
    /\ IF cancelled[p] THEN LoopGoes(p, "ended") /\ UNCHANGED <<joining, rebalancing>>
                       ELSE Consume(p)
    /\ UNCHANGED <<main, cancelled, setupReady, claimVars, log, committed, members, current,
                   owner, faults, starts, history>>

\* Mutant: nobody looks whether the context was cancelled.
ConsumeForEver(p) ==
    /\ loop[p] = "consumed"
    /\ Consume(p)
    /\ setupReady' = [setupReady EXCEPT ![p] = FALSE]
    /\ UNCHANGED <<main, cancelled, claimVars, log, committed, members, current,
                   owner, faults, starts, history>>

\* Unless the context was cancelled, a new channel is made for the next session; who
\* waits on the last one, which no Setup closed, waits for ever.
ConsumeReturned(p) ==
    /\ loop[p] = "consumed"
    /\ IF cancelled[p]
       THEN LoopGoes(p, "ended") /\ UNCHANGED <<main, setupReady, joining, rebalancing>>
       ELSE /\ Consume(p)
            /\ setupReady' = [setupReady EXCEPT ![p] = FALSE]
            /\ MainGoes(p, IF main[p] = "waits" THEN "stuck" ELSE main[p])
    /\ UNCHANGED <<cancelled, claimVars, log, committed, members, current, owner, faults,
                   starts, history>>

\* The session begins: Setup closes the channel, and closing it twice panics.
\* OffsetNewest: without a committed offset the claim begins at the end of the log.
Setup(p) ==
    /\ loop[p] = "setup"
    /\ IF setupReady[p]
       THEN /\ MainGoes(p, "panicked") /\ LoopGoes(p, "dead")
            /\ UNCHANGED <<setupReady, position, base>>
       ELSE /\ setupReady' = [setupReady EXCEPT ![p] = TRUE]
            /\ LoopGoes(p, "session")
            /\ MainGoes(p, IF main[p] = "waits" THEN "added" ELSE main[p])
            /\ IF p \in current /\ owner = p
               THEN /\ position' = [position EXCEPT ![p] = IF committed = None THEN log
                                                                           ELSE committed]
                    /\ base' = IF committed = None THEN log ELSE base
               ELSE UNCHANGED <<position, base>>
    /\ UNCHANGED <<cancelled, handling, done, marked, log, committed, groupVars, faults,
                   starts, handled>>

-----------------------------------------------------------------------------
(***************************************************************************)
(* ConsumeClaim, of the process that has the partition.                    *)
(***************************************************************************)

\* Messages that wait in the channel may still be received when the session ends.
Receive(p) ==
    /\ loop[p] \in {"session", "release"}
    /\ position[p] # None /\ position[p] < log /\ handling[p] = None
    /\ handling' = [handling EXCEPT ![p] = position[p]]
    /\ done' = [done EXCEPT ![p] = FALSE]
    /\ position' = [position EXCEPT ![p] = @ + 1]
    /\ UNCHANGED <<consumerVars, marked, log, committed, groupVars,
                   faults, starts, history>>

\* consumeFunc returns, or panics and is recovered.
consumeWithRecover(p) ==
    /\ handling[p] # None /\ ~done[p]
    /\ done' = [done EXCEPT ![p] = TRUE]
    /\ handled' = handled \cup {handling[p]}
    /\ UNCHANGED <<consumerVars, position, handling, marked, log, committed,
                   groupVars, faults, starts, base>>

\* Mutant: the message is marked before consumeFunc ends with it.
MarkFirst(p) == handling[p] # None

MayMark(p) == handling[p] # None /\ done[p]

\* Mutant: the offset that follows the next message is marked.
MarkNext(p) == handling[p] + 2

MarkOffset(p) == handling[p] + 1

MarkMessage(p) ==
    /\ MayMark(p)
    /\ marked' = [marked EXCEPT ![p] = MarkOffset(p)]
    /\ handling' = [handling EXCEPT ![p] = None] /\ done' = [done EXCEPT ![p] = FALSE]
    /\ UNCHANGED <<consumerVars, position, log, committed, groupVars, faults, starts,
                   history>>

-----------------------------------------------------------------------------
(***************************************************************************)
(* Commits, and the end of a session.                                      *)
(***************************************************************************)

\* The broker refuses what is not of its generation.
Accepts(p)     == p \in members \cap current
Uncommitted(p) == marked[p] # None /\ marked[p] # committed

\* Each second.
AutoCommit(p) ==
    /\ loop[p] = "session" /\ Uncommitted(p) /\ Accepts(p)
    /\ committed' = marked[p]
    /\ UNCHANGED <<consumerVars, claimVars, log, groupVars, faults, starts, history>>

\* The heartbeat is told of a rebalance or of a new generation, or the context is done.
SessionEnds(p) ==
    /\ loop[p] = "session"
    /\ rebalancing \/ p \notin members \/ p \notin current \/ cancelled[p]
    /\ LoopGoes(p, "release")
    /\ UNCHANGED <<main, cancelled, setupReady, claimVars, log, committed, groupVars,
                   faults, starts, history>>

\* ConsumeClaim has returned, the marks are committed (or that fails, three times),
\* and Consume returns.
Release(p) ==
    /\ loop[p] = "release" /\ handling[p] = None
    /\ LoopGoes(p, "consumed")
    /\ IF Uncommitted(p) /\ Accepts(p)
       THEN \/ committed' = marked[p] /\ UNCHANGED faults
            \/ Fault /\ UNCHANGED committed
       ELSE UNCHANGED <<committed, faults>>
    /\ position' = [position EXCEPT ![p] = None] /\ marked' = [marked EXCEPT ![p] = None]
    /\ current' = current \ {p}
    /\ UNCHANGED <<main, cancelled, setupReady, handling, done, log, members, joining,
                   owner, rebalancing, starts, history>>

-----------------------------------------------------------------------------
(***************************************************************************)
(* The coordinator of the group.                                           *)
(***************************************************************************)

\* Members that did not join again are put out: the dead ones, and, after the
\* rebalance timeout, one that is still busy.  One that joined gets the partition.
Rebalance ==
    /\ rebalancing /\ joining # {}
    /\ IF \A p \in members \ joining : ~Alive(p) THEN UNCHANGED faults ELSE Fault
    /\ members' = joining /\ current' = joining /\ joining' = {} /\ rebalancing' = FALSE
    /\ loop' = [p \in Process |-> IF p \in joining /\ Alive(p) THEN "setup" ELSE loop[p]]
    /\ owner' \in joining
    /\ UNCHANGED <<main, cancelled, setupReady, claimVars, log, committed, starts, history>>

\* A session timeout: a process that died, or, as a fault, one that does not answer.
MemberLost(p) ==
    /\ p \in members \cup joining
    /\ IF Alive(p) THEN p \in members \ joining /\ Fault ELSE UNCHANGED faults
    /\ members' = members \ {p} /\ joining' = joining \ {p}
    /\ rebalancing' = TRUE
    /\ UNCHANGED <<consumerVars, claimVars, log, committed, current, owner, starts,
                   history>>

-----------------------------------------------------------------------------
(***************************************************************************)
(* Shutdown and crash.                                                     *)
(***************************************************************************)

Dies(p) ==
    /\ MainGoes(p, "dead") /\ LoopGoes(p, "dead")
    /\ handling' = [handling EXCEPT ![p] = None] /\ done' = [done EXCEPT ![p] = FALSE]
    /\ position' = [position EXCEPT ![p] = None] /\ marked' = [marked EXCEPT ![p] = None]
    /\ cancelled' = [cancelled EXCEPT ![p] = FALSE]
    /\ setupReady' = [setupReady EXCEPT ![p] = FALSE]
    /\ current' = current \ {p}
    /\ UNCHANGED <<log, committed, members, joining, owner, rebalancing, starts, history>>

Crash(p) == Alive(p) /\ Fault /\ Dies(p)

\* The shutdown of a process whose shutdown function is not added, yet or ever, just
\* ends it.
Exit(p) == Alive(p) /\ main[p] \in {"reads", "waits", "stuck"} /\ Dies(p)
           /\ UNCHANGED faults

\* close: the context is cancelled ...
Close(p) ==
    /\ main[p] = "added"
    /\ MainGoes(p, "closing")
    /\ cancelled' = [cancelled EXCEPT ![p] = TRUE]
    /\ UNCHANGED <<loop, setupReady, claimVars, log, committed, groupVars, faults, starts,
                   history>>

Waited(p) == loop[p] = "ended"

\* ... start() has ended, and saramaConsumer.Close leaves the group.
Closed(p) ==
    /\ main[p] = "closing" /\ Waited(p)
    /\ MainGoes(p, "closed")
    /\ members' = members \ {p} /\ joining' = joining \ {p}
    /\ rebalancing' = (rebalancing \/ p \in members)
    /\ UNCHANGED <<loop, cancelled, setupReady, claimVars, log, committed, current, owner,
                   faults, starts, history>>

-----------------------------------------------------------------------------
Loop(p) ==
    \/ ConsumeReturned(p) \/ Setup(p) \/ SessionEnds(p) \/ Release(p)
    \/ cancelled[p] /\ ConsumeFails(p)

Claim(p) ==
    \/ Receive(p) \/ consumeWithRecover(p) \/ MarkMessage(p)

Next ==
    \/ SendKafkaMessage \/ Rebalance
    \/ \E p \in Process :
        \/ StartKafkaConsumer(p) \/ AwaitSetup(p) \/ Loop(p) \/ ConsumeFails(p) \/ Claim(p) \/ AutoCommit(p)
        \/ MemberLost(p) \/ Crash(p) \/ Exit(p) \/ Close(p) \/ Closed(p)

\* The goroutines run and handlers return; the coordinator finishes its rebalances
\* and notices who died.
Spec ==
    /\ Init /\ [][Next]_vars
    /\ WF_vars((\A p \in members \ joining : ~Alive(p)) /\ Rebalance)
    /\ \A p \in Process :
        /\ WF_vars(Loop(p)) /\ WF_vars(Claim(p)) /\ WF_vars(Closed(p))
        /\ WF_vars(~Alive(p) /\ MemberLost(p))

-----------------------------------------------------------------------------
TypeOK ==
    /\ main \in [Process -> {"none", "reads", "waits", "stuck", "added",
                             "closing", "closed", "panicked", "dead"}]
    /\ loop \in [Process -> {"none", "joins", "setup", "session", "release",
                             "consumed", "ended", "dead"}]
    /\ cancelled \in [Process -> BOOLEAN] /\ setupReady \in [Process -> BOOLEAN]
    /\ log \in Offset /\ committed \in -1..log
    /\ position \in [Process -> -1..log] /\ marked \in [Process -> -1..log]
    /\ handling \in [Process -> -1..(log - 1)] /\ done \in [Process -> BOOLEAN]
    /\ members \subseteq Process /\ joining \subseteq Process /\ current \subseteq Process
    /\ owner \in Process \cup {None} /\ rebalancing \in BOOLEAN
    /\ faults \in 0..MaxFaults /\ starts \in 0..MaxStarts
    /\ handled \subseteq 0..(log - 1) /\ base \in Offset

\* At least once: what is committed was handled, whoever crashed or lost the
\* partition on the way, since the last session that began at the end of the log.
CommittedIsHandled == \A m \in base..(committed - 1) : m \in handled

\* Neither a second session nor a handler that panics brings the process down.
NeverPanics == \A p \in Process : main[p] # "panicked"

\* A shutdown waits for the consumer, but not for ever: one that was closed left
\* nothing behind, neither a handler that runs nor a claim in which one could begin.
ClosesCleanly ==
    \A p \in Process :
        /\ [](main[p] = "closed" => handling[p] = None /\ position[p] = None)
        /\ main[p] = "closing" ~> main[p] # "closing"

\* Once an offset is committed no message is passed over: each is handled as long
\* as some process goes on consuming.
Delivered ==
    \A m \in 0..(MaxMessages - 1) :
        (m < log /\ committed # None /\ committed <= m)
            ~> m \in handled \/ \A p \in Process : ~Alive(p) \/ cancelled[p]
=============================================================================
