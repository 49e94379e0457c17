------------------------------ MODULE Requests ------------------------------
(***************************************************************************)
(* A request and the grpc call it makes: the store that a context carries  *)
(* (internal/contexts/context.go, internal/log/debug_mode.go), the basic   *)
(* handler of gin (internal/components/gin), and the interceptors of a     *)
(* grpc call (internal/components/grpc/client.go, server.go).  The handler *)
(* on the server may start a goroutine with CopyContext, which shares the  *)
(* store.  Fields, lines and request ids stand for themselves.             *)
(***************************************************************************)
EXTENDS Naturals, Sequences

CONSTANTS
    MaxOps,     \* bound: log fields and lines of each goroutine of the handler
    Cap         \* the capacity of the array that append makes for so many fields

Goroutine  == {"handler", "copy"}   \* of the server
BaseFields == <<"entrance", "entranceType", "remoteIP">>
Field      == {"entrance", "entranceType", "remoteIP", "elapsed", "requestId", "unused"}
                 \cup Goroutine
NoID       == "none"

\* The longest line: each operation adds a field, and the line its own two.
MaxFields == Len(BaseFields) + 2 * MaxOps + 2

\* The runtime chooses how an array grows, as long as there is room.
ASSUME RequestsAssumption ==
    /\ MaxOps \in Nat
    /\ Cap \in [1..MaxFields -> Nat] /\ \A n \in 1..MaxFields : Cap[n] >= n

VARIABLES
    caller,     \* where the caller of the grpc call is
    callerID, callerDebug, callerLogs,  \* its store, NoID and FALSE without one
    result,     \* what the call returned
    server,     \* where the interceptors and the handler are
    ctxErr,     \* ctx.Err() on the server
    err,        \* the error that the interceptors return
    serverID, serverDebug, serverLogs,  \* its store
    logFields,  \* its slice: the array, and the length
    arrays,     \* the backing arrays: the capacity, and what was written
    op,         \* what each goroutine does with the store
    view,       \* the slice that it appends to
    ops,        \* operations of each goroutine so far
    copied,     \* does the copy of the context have its goroutine?
    answer,     \* the answer on its way: its error and its trailer
    outcome,    \* history: how the handler ended
    overlapped, \* history: two goroutines used logFields at a time
    added,      \* history: fields whose AddLogFields has ended, in turn
    owed,       \* history: those that had ended when the line of a goroutine began
    line,       \* history: the fields of its last line
    logged      \* history: lines of the handler and the interceptors so far

callerVars == <<caller, callerID, callerDebug, callerLogs, result>>
serverVars == <<server, ctxErr, err, serverID, serverDebug, answer, outcome>>
storeVars  == <<serverLogs, logFields, arrays, op, view, ops, copied,
                overlapped, added, owed, line, logged>>
vars       == <<callerVars, serverVars, storeVars>>

NoSlice == [array |-> 0, len |-> 0]
Nothing == [err |-> "none", logs |-> <<>>]

Init ==
    /\ caller = "new" /\ callerID = NoID /\ callerDebug = FALSE /\ callerLogs = <<>>
    /\ result = "none"
    /\ server = "none" /\ ctxErr = "none" /\ err = "none"
    /\ serverID = NoID /\ serverDebug = FALSE /\ serverLogs = <<>>
    /\ logFields = NoSlice /\ arrays = [i \in 1..4 |-> <<>>]
    /\ op = [g \in Goroutine |-> "none"] /\ view = [g \in Goroutine |-> NoSlice]
    /\ ops = [g \in Goroutine |-> 0] /\ copied = FALSE
    /\ answer = Nothing /\ outcome = "none" /\ overlapped = FALSE /\ added = <<>>
    /\ owed = [g \in Goroutine |-> <<>>] /\ line = [g \in Goroutine |-> <<>>] /\ logged = 0

-----------------------------------------------------------------------------
(***************************************************************************)
(* Slices: a store of the server keeps its log fields in one, and every    *)
(* append may write into the array behind it.                              *)
(***************************************************************************)

Elems(s) == SubSeq(arrays[s.array], 1, s.len)

\* Arrays are padded to their capacity, and an unused one is empty.
Padded(seq) == [i \in 1..Cap[Len(seq)] |-> IF i <= Len(seq) THEN seq[i] ELSE "unused"]

\* The goroutine g appends x to its view: in place if there is room, else in a copy.
AppendTo(g, s, x) ==
    IF s.len < Len(arrays[s.array])
    THEN /\ arrays' = [arrays EXCEPT ![s.array][s.len + 1] = x]
         /\ view' = [view EXCEPT ![g] = [array |-> s.array, len |-> s.len + 1]]
    ELSE LET used == {logFields.array} \cup {view[f].array : f \in Goroutine \ {g}}
             new  == CHOOSE i \in 1..4 : i \notin used /\ \A j \in 1..4 \ used : i <= j
         IN  /\ arrays' = [i \in 1..4 |-> IF i = new THEN Padded(Append(Elems(s), x))
                                          ELSE IF i \in used THEN arrays[i] ELSE <<>>]
             /\ view' = [view EXCEPT ![g] = [array |-> new, len |-> s.len + 1]]

Busy(g)   == op[g] # "none"
Does(g, o) == op' = [op EXCEPT ![g] = o]
Overlaps(g) == overlapped' = (overlapped \/ \E f \in Goroutine \ {g} : Busy(f))

\* AddLogFields appends to the slice it reads, and then assigns it.
AddLogFields(g) ==
    /\ ~Busy(g) /\ Does(g, "adds") /\ Overlaps(g)
    /\ AppendTo(g, logFields, g)
    /\ UNCHANGED <<serverLogs, logFields, copied, added, owed, line, logged>>

FieldsAdded(g) ==
    /\ op[g] = "adds" /\ Does(g, "none")
    /\ logFields' = view[g] /\ view' = [view EXCEPT ![g] = NoSlice]
    /\ added' = Append(added, g)
    /\ UNCHANGED <<serverLogs, arrays, ops, copied, overlapped, owed, line, logged>>

\* Logger appends the elapsed time to the slice it reads, and assigns nothing.
Logger(g) ==
    /\ ~Busy(g) /\ Does(g, "elapsed") /\ Overlaps(g)
    /\ AppendTo(g, logFields, "elapsed")
    /\ owed' = [owed EXCEPT ![g] = added]
    /\ UNCHANGED <<serverLogs, logFields, copied, added, line, logged>>

AppendsID(g) ==
    /\ op[g] = "elapsed" /\ Does(g, "requestId")
    /\ AppendTo(g, view[g], "requestId")
    /\ UNCHANGED <<serverLogs, logFields, ops, copied, overlapped, added, owed, line, logged>>

\* Mutant: Logger keeps what it appended.
LogsAndKeeps(g) ==
    /\ op[g] = "requestId" /\ Does(g, "none")
    /\ line' = [line EXCEPT ![g] = Elems(view[g])]
    /\ logFields' = view[g]
    /\ view' = [view EXCEPT ![g] = NoSlice]
    /\ logged' = IF g = "handler" THEN logged + 1 ELSE logged
    /\ serverLogs' = IF serverDebug
                     THEN Append(serverLogs, IF g = "handler" THEN logged' ELSE 0)
                     ELSE serverLogs
    /\ UNCHANGED <<arrays, ops, copied, overlapped, added, owed>>

\* With reads the fields, and the line is written: in debug mode to the logs of the
\* store, under their lock.
Logs(g) ==
    /\ op[g] = "requestId" /\ Does(g, "none")
    /\ line' = [line EXCEPT ![g] = Elems(view[g])]
    /\ view' = [view EXCEPT ![g] = NoSlice]
    /\ logged' = IF g = "handler" THEN logged + 1 ELSE logged
    /\ serverLogs' = IF serverDebug
                     THEN Append(serverLogs, IF g = "handler" THEN logged' ELSE 0)
                     ELSE serverLogs
    /\ UNCHANGED <<logFields, arrays, ops, copied, overlapped, added, owed>>

StoreStep(g) == (FieldsAdded(g) \/ AppendsID(g) \/ Logs(g)) /\ UNCHANGED <<callerVars, serverVars>>

-----------------------------------------------------------------------------
(***************************************************************************)
(* The caller: a request of gin, or a context with or without a store.     *)
(***************************************************************************)

Goes(to) == caller' = to

\* basicHandlerFunc sets a context up, with an id, in debug mode if it is asked for.
basicHandlerFunc ==
    /\ caller = "new"
    /\ Goes("handling")
    /\ callerID' \in {"id", NoID}
    /\ callerDebug' \in IF callerID' = NoID THEN {FALSE} ELSE BOOLEAN
    /\ UNCHANGED <<callerLogs, result, serverVars, storeVars>>

\* basicUnaryClientInterceptor sends the id and the mode along, with ten seconds
\* to answer.  The call may not reach a server.
Invoke ==
    /\ caller = "handling"
    /\ Goes("waiting")
    /\ server' \in {"none", "incoming"}
    /\ UNCHANGED <<callerID, callerDebug, callerLogs, result, ctxErr, err, serverID,
                   serverDebug, answer, outcome, storeVars>>

\* A line of its own, then those of the trailer.
Appended(logs) == callerLogs \o <<0>> \o logs

\* Ten seconds are over, or the connection is lost: there is no trailer.
GivesUp ==
    /\ caller = "waiting"
    /\ Goes("returned") /\ result' = "timeout"
    /\ callerLogs' = IF callerDebug THEN Appended(<<>>) ELSE callerLogs
    /\ UNCHANGED <<callerID, callerDebug, serverVars, storeVars>>

Returns ==
    /\ caller = "waiting" /\ answer # Nothing
    /\ Goes("returned") /\ result' = answer.err
    /\ callerLogs' = IF callerDebug THEN Appended(answer.logs) ELSE callerLogs
    /\ UNCHANGED <<callerID, callerDebug, serverVars, storeVars>>

\* The body has the logs in debug mode.  After a panic nothing is rendered.
Rendered ==
    /\ caller = "returned"
    /\ caller' \in {"rendered", "recovered"}
    /\ UNCHANGED <<callerID, callerDebug, callerLogs, result, serverVars, storeVars>>

-----------------------------------------------------------------------------
(***************************************************************************)
(* The server.                                                             *)
(***************************************************************************)

ServerGoes(to) == server' = to

\* The deadline came with the call; who gives up cancels it.
ContextEnds ==
    /\ server # "none" /\ ctxErr = "none"
    /\ \/ ctxErr' = "deadline"
       \/ caller # "waiting" /\ ctxErr' = "canceled"
    /\ UNCHANGED <<callerVars, server, err, serverID, serverDebug, answer, outcome,
                   storeVars>>

getRequestIDFromIncomingCtx == IF callerID = NoID THEN "new" ELSE callerID

\* The store is set up with three fields, each appended on its own.
basicUnaryServerInterceptor ==
    /\ server = "incoming"
    /\ ServerGoes("entered")
    /\ serverID' = getRequestIDFromIncomingCtx /\ serverDebug' = callerDebug
    /\ arrays' = [arrays EXCEPT ![1] = Padded(BaseFields)]
    /\ logFields' = [array |-> 1, len |-> Len(BaseFields)]
    /\ UNCHANGED <<callerVars, ctxErr, err, answer, outcome, serverLogs, op, view,
                   ops, copied, overlapped, added, owed, line, logged>>

\* timeoutUnaryServerInterceptor before the handler: a deadline is not looked at.
timeoutBefore ==
    /\ server = "entered"
    /\ IF ctxErr = "canceled"
       THEN /\ ServerGoes("handled") /\ err' = "canceled"
            /\ Logger("handler") /\ UNCHANGED ops
       ELSE /\ ServerGoes("handler") /\ UNCHANGED <<err, storeVars>>
    /\ UNCHANGED <<callerVars, ctxErr, serverID, serverDebug, answer, outcome>>

\* The handler, or the goroutine that it gave a copy of its context, adds a field or
\* writes a line.
Uses(g) ==
    /\ ops[g] < MaxOps /\ ops' = [ops EXCEPT ![g] = @ + 1]
    /\ IF g = "handler" THEN server = "handler" ELSE copied
    /\ AddLogFields(g) \/ Logger(g)
    /\ UNCHANGED <<callerVars, serverVars>>

\* Both contexts carry the same store.
CopyContext ==
    /\ server = "handler" /\ ~Busy("handler") /\ ~copied
    /\ copied' = TRUE
    /\ UNCHANGED <<callerVars, serverVars, serverLogs, logFields, arrays, op, view, ops,
                   overlapped, added, owed, line, logged>>

\* timeoutUnaryServerInterceptor after the handler.
HandlerReturns ==
    /\ server = "handler" /\ ~Busy("handler")
    /\ ServerGoes("handled")
    /\ \E e \in {"nil", "failed"} :
        /\ outcome' = e
        /\ IF e = "nil" /\ ctxErr = "canceled"
           THEN err' = "canceled" /\ Logger("handler") /\ UNCHANGED ops
           ELSE err' = e /\ UNCHANGED storeVars
    /\ UNCHANGED <<callerVars, ctxErr, serverID, serverDebug, answer>>

\* recoverUnaryServerInterceptor assigns the error to a variable of its own: there is
\* neither a reply nor an error.
HandlerPanics ==
    /\ server = "handler" /\ ~Busy("handler")
    /\ ServerGoes("handled") /\ err' = "nil" /\ outcome' = "panic"
    /\ Logger("handler") /\ UNCHANGED ops
    /\ UNCHANGED <<callerVars, ctxErr, serverID, serverDebug, answer>>

\* Mutant: the trailer is left empty.
NoTrailer == <<>>

Trailer == IF serverDebug THEN serverLogs ELSE <<>>

\* basicUnaryServerInterceptor after the handler: in debug mode the logs so far make
\* the trailer.
Answers ==
    /\ server = "handled" /\ ~Busy("handler")
    /\ ServerGoes("answered")
    /\ answer' = [err |-> err, logs |-> Trailer]
    /\ UNCHANGED <<callerVars, ctxErr, err, serverID, serverDebug, outcome, storeVars>>

-----------------------------------------------------------------------------
CallerStep == basicHandlerFunc \/ Invoke \/ GivesUp \/ Returns \/ Rendered

ServerStep ==
    \/ basicUnaryServerInterceptor \/ timeoutBefore \/ CopyContext
    \/ HandlerReturns \/ HandlerPanics \/ Answers

Next ==
    \/ CallerStep \/ ServerStep \/ ContextEnds
    \/ \E g \in Goroutine : Uses(g) \/ StoreStep(g)

Spec == Init /\ [][Next]_vars

-----------------------------------------------------------------------------
Slice == [array : 0..4, len : 0..MaxFields]

CallTypeOK ==
    /\ caller \in {"new", "handling", "waiting", "returned", "rendered", "recovered"}
    /\ callerID \in {"id", NoID} /\ callerDebug \in BOOLEAN /\ callerLogs \in Seq(Nat)
    /\ result \in {"none", "nil", "failed", "canceled", "timeout"}
    /\ server \in {"none", "incoming", "entered", "handler", "handled", "answered"}
    /\ ctxErr \in {"none", "deadline", "canceled"}
    /\ err \in {"none", "nil", "failed", "canceled"}
    /\ serverID \in {"id", "new", NoID} /\ serverDebug \in BOOLEAN
    /\ answer \in [err : {"none", "nil", "failed", "canceled"}, logs : Seq(Nat)]
    /\ outcome \in {"none", "nil", "failed", "panic"}

StoreTypeOK ==
    /\ serverLogs \in Seq(Nat) /\ logged \in Nat
    /\ copied \in BOOLEAN /\ overlapped \in BOOLEAN
    /\ op \in [Goroutine -> {"none", "adds", "elapsed", "requestId"}]
    /\ ops \in [Goroutine -> 0..MaxOps]
    /\ arrays \in [1..4 -> Seq(Field)]
    /\ logFields \in Slice /\ view \in [Goroutine -> Slice]
    /\ logFields.len <= Len(BaseFields) + 2 * MaxOps
    /\ \A s \in {logFields, view["handler"], view["copy"]} :
        s = NoSlice \/ (s.array # 0 /\ s.len <= Len(arrays[s.array]))
    /\ added \in Seq(Goroutine) /\ owed \in [Goroutine -> Seq(Goroutine)]
    /\ line \in [Goroutine -> Seq(Field)]

\* Every variable has its type: a slice lies within its array, and the fields of the store
\* have room for one of each operation.
TypeOK == CallTypeOK /\ StoreTypeOK

\* Unless two goroutines used the store at the same time, a line has all fields added
\* before it, the elapsed time, the request id, and nothing that another line left in
\* the array.
LinesAreWhole ==
    ~overlapped => \A g \in Goroutine :
        line[g] # <<>> /\ ~Busy(g) =>
            line[g] = BaseFields \o owed[g] \o <<"elapsed", "requestId">>

\* The handler's lines among the logs are those from 1 to n, once and in their order.
InTurn(logs, n) ==
    LET lines == {k \in DOMAIN logs : logs[k] > 0} IN
        /\ {logs[k] : k \in lines} = 1..n
        /\ \A j, k \in lines : j < k => logs[j] < logs[k]

\* What the caller gets is what happened on the server.  In debug mode it gets each line
\* that the handler and the interceptors wrote, once and in their order, with the
\* answer, and nothing without one.  Its error is the one that the handler returned, in
\* spite of the interceptor that looks for a canceled context: what that one makes of a
\* call is told to nobody who still waits.  What a caller is told of a handler that
\* panicked is not stated: recoverUnaryServerInterceptor makes success of it.
AnswersAreTrue ==
    LET answered == result \in {"nil", "failed", "canceled"} IN
        /\ InTurn(callerLogs, IF callerDebug /\ answered THEN logged ELSE 0)
        /\ answered /\ outcome # "panic" => result = outcome
=============================================================================
