---------------------------- MODULE RequestsProofs ----------------------------
(***************************************************************************)
(* Proofs about Requests, for any number of operations on the store and    *)
(* any growth of its arrays: lines have their fields, and the caller gets  *)
(* what happened on the server.                                            *)
(***************************************************************************)
EXTENDS Requests, SequenceTheorems, TLAPS

(***************************************************************************)
(* The invariant.                                                          *)
(***************************************************************************)

\* The operations that have ended, and the room that a view has taken beyond theirs.
Adding(g) == IF op[g] = "adds" THEN 1 ELSE 0
Done      == (ops["handler"] - Adding("handler")) + (ops["copy"] - Adding("copy"))
Ahead(g)  == IF op[g] = "requestId" THEN 2 ELSE 1

\* The store has a field for each operation that ended, at most.
RoomInv ==
    /\ \A g \in Goroutine : op[g] = "adds" => ops[g] # 0
    /\ logFields.len <= Len(BaseFields) + Done
    /\ \A g \in Goroutine : Busy(g) => view[g].len <= Len(BaseFields) + Done + Ahead(g)

\* Who uses the store when.
StoreInv ==
    /\ logFields = NoSlice <=> server \in {"none", "incoming"}
    /\ logFields = NoSlice => added = <<>> /\ serverLogs = <<>> /\ logged = 0
    /\ \A g \in Goroutine : view[g] # NoSlice <=> Busy(g)
    /\ Busy("handler") => server \in {"handler", "handled"}
    /\ Busy("copy") => copied
    /\ copied => server \in {"handler", "handled", "answered"}

\* What a goroutine that uses the store alone has in its view.
Appending(g) ==
    CASE op[g] = "adds"      -> BaseFields \o Append(added, g)
      [] op[g] = "elapsed"   -> BaseFields \o added \o <<"elapsed">>
      [] op[g] = "requestId" -> BaseFields \o added \o <<"elapsed", "requestId">>

\* As long as no two goroutines used the store at a time.
AloneInv ==
    ~overlapped =>
        /\ \A f, g \in Goroutine : Busy(f) /\ Busy(g) => f = g
        /\ logFields # NoSlice => Elems(logFields) = BaseFields \o added
        /\ \A g \in Goroutine : Busy(g) => Elems(view[g]) = Appending(g)
        /\ \A g \in Goroutine : op[g] \in {"elapsed", "requestId"} => owed[g] = added
        /\ \A g \in Goroutine : op[g] \in {"none", "adds"} /\ line[g] # <<>> =>
              line[g] = BaseFields \o owed[g] \o <<"elapsed", "requestId">>

\* What the server knows of its caller, its logs, and the error that it returns: it is
\* not the handler's when the handler panicked or the caller has given up.
ServerInv ==
    /\ server # "none" => caller \notin {"new", "handling"}
    /\ server \notin {"none", "incoming"} => serverDebug = callerDebug
    /\ ctxErr # "none" => server # "none"
    /\ ctxErr = "canceled" => caller # "waiting"
    /\ IF serverDebug THEN InTurn(serverLogs, logged) ELSE serverLogs = <<>>
    /\ err # "none" <=> server \in {"handled", "answered"}
    /\ err # "none" => err = outcome \/ outcome = "panic" \/ ctxErr = "canceled"

\* The answer, and what the caller took of it.
AnswerInv ==
    /\ server # "answered" => answer = Nothing
    /\ server = "answered" =>
          answer.err = err /\ InTurn(answer.logs, IF serverDebug THEN logged ELSE 0)
    /\ caller \in {"new", "handling", "waiting"} => callerLogs = <<>> /\ result = "none"
    /\ result \in {"nil", "failed", "canceled"} => answer # Nothing /\ result = answer.err
    /\ AnswersAreTrue
(***************************************************************************)
(* Slices.                                                                 *)
(***************************************************************************)

Arrays     == [1..4 -> Seq(Field)]
Read(A, s) == SubSeq(A[s.array], 1, s.len)

\* The slice s lies within its array.
Within(A, s) == s \in Slice /\ s.array # 0 /\ s.len <= Len(A[s.array])

\* What a slice has.
LEMMA ReadProperties ==
  ASSUME NEW A \in Arrays, NEW s, Within(A, s)
  PROVE  /\ Read(A, s) \in Seq(Field) /\ Len(Read(A, s)) = s.len
         /\ \A i \in 1..s.len : Read(A, s)[i] = A[s.array][i]
<1>1. s.array \in 1..4 /\ s.len \in Nat
  BY RequestsAssumption DEF Within, Slice, MaxFields, BaseFields
<1>2. A[s.array] \in Seq(Field)
  BY <1>1 DEF Arrays
<1>3. \A i \in 1..s.len : A[s.array][i] \in Field
  BY <1>1, <1>2, ElementOfSeq DEF Within
<1>4. /\ Read(A, s) \in Seq(Field)
      /\ Len(Read(A, s)) = IF 1 <= s.len THEN s.len - 1 + 1 ELSE 0
      /\ \A i \in 1..(s.len - 1 + 1) : Read(A, s)[i] = A[s.array][1 + i - 1]
  BY <1>1, <1>3, SubSeqProperties DEF Read
<1> QED
  BY <1>1, <1>4

\* A slice has the same in two arrays that agree on its length.
LEMMA ReadSame ==
  ASSUME NEW A \in Arrays, NEW B \in Arrays, NEW s, Within(A, s), Within(B, s),
         \A i \in 1..s.len : A[s.array][i] = B[s.array][i]
  PROVE  Read(A, s) = Read(B, s)
<1>1. /\ Read(A, s) \in Seq(Field) /\ Len(Read(A, s)) = s.len
      /\ \A i \in 1..s.len : Read(A, s)[i] = A[s.array][i]
  BY ReadProperties
<1>2. /\ Read(B, s) \in Seq(Field) /\ Len(Read(B, s)) = s.len
      /\ \A i \in 1..s.len : Read(B, s)[i] = B[s.array][i]
  BY ReadProperties
<1> QED
  BY <1>1, <1>2, SeqEqual

\* A padded array begins with its fields.
LEMMA PaddedProperties ==
  ASSUME NEW seq \in Seq(Field), Len(seq) \in 1..MaxFields
  PROVE  /\ Padded(seq) \in Seq(Field) /\ Len(seq) <= Len(Padded(seq))
         /\ \A i \in 1..Len(seq) : Padded(seq)[i] = seq[i]
<1>1. Cap[Len(seq)] \in Nat /\ Len(seq) <= Cap[Len(seq)] /\ Len(seq) \in Nat
  BY RequestsAssumption
<1>2. \A i \in 1..Cap[Len(seq)] : (IF i <= Len(seq) THEN seq[i] ELSE "unused") \in Field
  BY <1>1, ElementOfSeq DEF Field
<1>3. Padded(seq) \in [1..Cap[Len(seq)] -> Field]
  BY <1>2 DEF Padded
<1>4. Padded(seq) \in Seq(Field)
  BY <1>1, <1>3, SeqDef
<1>5. Len(Padded(seq)) = Cap[Len(seq)]
  BY <1>1, <1>3, <1>4, LenProperties
<1> QED
  BY <1>1, <1>4, <1>5 DEF Padded

\* Of four arrays one is not in use.
LEMMA FreeArray ==
  ASSUME NEW used, NEW a \in 0..4, NEW b \in 0..4, used = {a, b}
  PROVE  LET new == CHOOSE i \in 1..4 : i \notin used /\ \A j \in 1..4 \ used : i <= j
         IN  new \in 1..4 /\ new \notin used
<1>1. \E i \in 1..4 : i \notin used /\ \A j \in 1..4 \ used : i <= j
  <2>1. CASE 1 \notin used
    BY <2>1
  <2>2. CASE 1 \in used /\ 2 \notin used
    BY <2>2
  <2>3. CASE 1 \in used /\ 2 \in used
    <3>1. 3 \notin used /\ 3 \in 1..4
      BY <2>3
    <3>2. \A j \in 1..4 \ used : 3 <= j
      BY <2>3
    <3> QED
      BY <3>1, <3>2
  <2> QED
    BY <2>1, <2>2, <2>3
<1> QED
  BY <1>1

\* The arrays that slices other than the view of g are in.
InUse(g) == {logFields.array} \cup {view[f].array : f \in Goroutine \ {g}}

\* What append does: the view of g is the slice s with x after it, and every other slice
\* has what it had, unless it is in the same array and longer than s.
LEMMA AppendToAppends ==
  ASSUME TypeOK, NEW g \in Goroutine, NEW s, NEW x \in Field,
         Within(arrays, s), s.len < MaxFields, AppendTo(g, s, x)
  PROVE  /\ arrays' \in Arrays
         /\ view' = [view EXCEPT ![g] = view'[g]]
         /\ Within(arrays', view'[g]) /\ view'[g].len = s.len + 1
         /\ Read(arrays', view'[g]) = Append(Read(arrays, s), x)
         /\ \A t : Within(arrays, t) /\ t.array \in InUse(g) =>
               /\ Within(arrays', t)
               /\ (t.array = s.array => t.len <= s.len) =>
                     Read(arrays', t) = Read(arrays, t)
<1> DEFINE old == Read(arrays, s)
           new == Append(old, x)
           grown == [array |-> s.array, len |-> s.len + 1]
<1>1. /\ arrays \in Arrays /\ s.array \in 1..4 /\ s.len \in Nat
      /\ view \in [Goroutine -> Slice] /\ MaxFields \in Nat
  BY RequestsAssumption DEF TypeOK, StoreTypeOK, Arrays, Within, Slice, MaxFields, BaseFields
<1>2. /\ arrays[s.array] \in Seq(Field) /\ Len(arrays[s.array]) \in Nat
      /\ \A i \in 1..4 : arrays[i] \in Seq(Field)
  BY <1>1, LenProperties DEF Arrays
<1>3. /\ old \in Seq(Field) /\ Len(old) = s.len
      /\ \A i \in 1..s.len : old[i] = arrays[s.array][i]
  BY <1>1, ReadProperties
<1>4. /\ new \in Seq(Field) /\ Len(new) = s.len + 1
      /\ \A i \in 1..s.len : new[i] = old[i]
      /\ new[s.len + 1] = x
  BY <1>3, AppendProperties
<1> HIDE DEF old, new
<1>5. CASE s.len < Len(arrays[s.array])
  <2> DEFINE row == [arrays[s.array] EXCEPT ![s.len + 1] = x]
  <2>1. /\ arrays' = [arrays EXCEPT ![s.array] = row]
        /\ view' = [view EXCEPT ![g] = grown]
    BY <1>5 DEF AppendTo
  <2>2. s.len + 1 \in 1..Len(arrays[s.array])
    BY <1>1, <1>2, <1>5
  <2>3. /\ row \in Seq(Field) /\ Len(row) = Len(arrays[s.array])
        /\ \A j \in 1..Len(arrays[s.array]) :
              row[j] = IF j = s.len + 1 THEN x ELSE arrays[s.array][j]
    BY <1>2, <2>2, ExceptSeq
  <2> HIDE DEF row
  <2>4. /\ arrays' \in Arrays /\ arrays'[s.array] = row
        /\ \A i \in 1..4 : i # s.array => arrays'[i] = arrays[i]
    BY <1>1, <1>2, <2>1, <2>3 DEF Arrays
  <2>5. view'[g] = grown
    BY <1>1, <2>1
  <2>6. Within(arrays', grown)
    <3>1. grown \in Slice
      BY <1>1 DEF Slice, Within
    <3> QED
      BY <1>1, <1>2, <1>5, <2>3, <2>4, <3>1 DEF Within
  <2>7. Read(arrays', grown) = new
    <3>1. /\ Read(arrays', grown) \in Seq(Field) /\ Len(Read(arrays', grown)) = s.len + 1
          /\ \A i \in 1..(s.len + 1) : Read(arrays', grown)[i] = row[i]
      BY <2>4, <2>6, ReadProperties
    <3>2. ASSUME NEW i \in 1..(s.len + 1) PROVE row[i] = new[i]
      <4>1. i \in 1..Len(arrays[s.array])
        BY <1>1, <1>2, <2>2
      <4>2. CASE i = s.len + 1
        BY <1>4, <2>3, <4>1, <4>2
      <4>3. CASE i # s.len + 1
        <5>1. i \in 1..s.len
          BY <1>1, <4>3
        <5> QED
          BY <1>3, <1>4, <2>3, <4>1, <4>3, <5>1
      <4> QED
        BY <4>2, <4>3
    <3> QED
      BY <1>4, <3>1, <3>2, SeqEqual
  <2>8. ASSUME NEW t, Within(arrays, t), t.array \in InUse(g)
        PROVE  /\ Within(arrays', t)
               /\ (t.array = s.array => t.len <= s.len) =>
                     Read(arrays', t) = Read(arrays, t)
    <3>1. t.array \in 1..4 /\ t.len \in Nat
      BY <1>1, <2>8 DEF Within, Slice
    <3>2. Within(arrays', t)
      BY <2>3, <2>4, <2>8, <3>1 DEF Within
    <3>3. ASSUME t.array = s.array => t.len <= s.len
          PROVE  Read(arrays', t) = Read(arrays, t)
      <4>1. ASSUME NEW i \in 1..t.len
            PROVE  arrays'[t.array][i] = arrays[t.array][i]
        <5>1. CASE t.array # s.array
          BY <2>4, <3>1, <5>1
        <5>2. CASE t.array = s.array
          <6>1. i \in 1..Len(arrays[s.array]) /\ i # s.len + 1
            BY <1>1, <1>2, <2>8, <3>1, <3>3, <5>2 DEF Within
          <6> QED
            BY <2>3, <2>4, <5>2, <6>1
        <5> QED
          BY <5>1, <5>2
      <4> QED
        BY <1>1, <2>4, <2>8, <3>2, <4>1, ReadSame
    <3> QED
      BY <3>2, <3>3
  <2> QED
    BY <1>1, <2>1, <2>4, <2>5, <2>6, <2>7, <2>8 DEF new, old
<1>6. CASE ~(s.len < Len(arrays[s.array]))
  <2> DEFINE free == CHOOSE i \in 1..4 : i \notin InUse(g)
                                         /\ \A j \in 1..4 \ InUse(g) : i <= j
             copy == [array |-> free, len |-> s.len + 1]
  <2>1. free \in 1..4 /\ free \notin InUse(g)
    <3> DEFINE other == IF g = "handler" THEN "copy" ELSE "handler"
    <3>1. Goroutine \ {g} = {other} /\ other \in Goroutine
      BY DEF Goroutine
    <3>2. InUse(g) = {logFields.array, view[other].array}
      BY <3>1 DEF InUse
    <3>3. logFields.array \in 0..4 /\ view[other].array \in 0..4
      BY <3>1 DEF TypeOK, StoreTypeOK, Slice
    <3> HIDE DEF other
    <3> QED
      BY <3>2, <3>3, FreeArray
  <2>2. /\ arrays' = [i \in 1..4 |-> IF i = free THEN Padded(new)
                                     ELSE IF i \in InUse(g) THEN arrays[i] ELSE <<>>]
        /\ view' = [view EXCEPT ![g] = copy]
    BY <1>6 DEF AppendTo, InUse, Elems, Read, new, old
  <2> HIDE DEF free
  <2>3. /\ Padded(new) \in Seq(Field) /\ s.len + 1 <= Len(Padded(new))
        /\ \A i \in 1..(s.len + 1) : Padded(new)[i] = new[i]
    BY <1>1, <1>4, PaddedProperties
  <2>4. /\ arrays' \in Arrays /\ arrays'[free] = Padded(new)
        /\ \A i \in 1..4 : i \in InUse(g) => arrays'[i] = arrays[i]
    BY <1>1, <1>2, <2>1, <2>2, <2>3, EmptySeq DEF Arrays
  <2>5. view'[g] = copy
    BY <1>1, <2>2
  <2>6. Within(arrays', copy)
    <3>1. copy \in Slice
      BY <1>1, <2>1 DEF Slice, Within
    <3> QED
      BY <2>1, <2>3, <2>4, <3>1 DEF Within
  <2>7. Read(arrays', copy) = new
    <3>1. /\ Read(arrays', copy) \in Seq(Field) /\ Len(Read(arrays', copy)) = s.len + 1
          /\ \A i \in 1..(s.len + 1) : Read(arrays', copy)[i] = Padded(new)[i]
      BY <2>4, <2>6, ReadProperties
    <3> QED
      BY <1>4, <2>3, <3>1, SeqEqual
  <2>8. ASSUME NEW t, Within(arrays, t), t.array \in InUse(g)
        PROVE  Within(arrays', t) /\ Read(arrays', t) = Read(arrays, t)
    <3>1. t.array \in 1..4
      BY <2>8 DEF Within, Slice
    <3>2. arrays'[t.array] = arrays[t.array]
      BY <2>4, <2>8, <3>1
    <3> QED
      BY <2>8, <3>2 DEF Within, Read
  <2> QED
    BY <1>1, <2>2, <2>4, <2>5, <2>6, <2>7, <2>8 DEF new, old
<1> QED
  BY <1>5, <1>6

(***************************************************************************)
(* Types, and the room in the store.                                       *)
(***************************************************************************)

\* What each kind of step does to the store.
LEMMA StoreSteps ==
  ASSUME Next \/ UNCHANGED vars
  PROVE  \/ UNCHANGED storeVars
         \/ basicUnaryServerInterceptor
         \/ CopyContext
         \/ \E g \in Goroutine : Uses(g) /\ AddLogFields(g)
         \/ \E g \in Goroutine : Uses(g) /\ Logger(g)
         \/ /\ server \in {"entered", "handler"} /\ server' = "handled"
            /\ Logger("handler") /\ UNCHANGED ops
         \/ \E g \in Goroutine : FieldsAdded(g) /\ UNCHANGED <<callerVars, serverVars>>
         \/ \E g \in Goroutine : AppendsID(g) /\ UNCHANGED <<callerVars, serverVars>>
         \/ \E g \in Goroutine : Logs(g) /\ UNCHANGED <<callerVars, serverVars>>
<1>1. CASE UNCHANGED vars
  BY <1>1 DEF vars
<1>2. CASE CallerStep \/ ContextEnds
  BY <1>2 DEF CallerStep, basicHandlerFunc, Invoke, GivesUp, Returns, Rendered, ContextEnds
<1>3. CASE ServerStep
  <2>1. CASE timeoutBefore
    BY <2>1 DEF timeoutBefore, ServerGoes
  <2>2. CASE HandlerReturns
    BY <2>2 DEF HandlerReturns, ServerGoes
  <2>3. CASE HandlerPanics
    BY <2>3 DEF HandlerPanics, ServerGoes
  <2>4. CASE Answers
    BY <2>4 DEF Answers
  <2> QED
    BY <1>3, <2>1, <2>2, <2>3, <2>4 DEF ServerStep
<1>4. ASSUME NEW g \in Goroutine, Uses(g) PROVE AddLogFields(g) \/ Logger(g)
  BY <1>4 DEF Uses
<1> QED
  BY <1>1, <1>2, <1>3, <1>4 DEF Next, StoreStep

\* The call's variables have their types after each step.
LEMMA CallTypeStep == TypeOK /\ [Next]_vars => CallTypeOK'
<1> SUFFICES ASSUME CallTypeOK, serverLogs \in Seq(Nat), [Next]_vars PROVE CallTypeOK'
  BY DEF TypeOK, StoreTypeOK
<1> USE DEF CallTypeOK, callerVars, serverVars, NoID, Goes, ServerGoes
<1>1. CASE basicHandlerFunc
  <2>1. callerDebug' \in BOOLEAN
    BY <1>1 DEF basicHandlerFunc
  <2> QED
    BY <1>1, <2>1 DEF basicHandlerFunc
<1>2. CASE Invoke
  BY <1>2 DEF Invoke
<1>3. CASE GivesUp
  BY <1>3 DEF GivesUp, Appended
<1>4. CASE Returns
  BY <1>4 DEF Returns, Appended
<1>5. CASE Rendered
  BY <1>5 DEF Rendered
<1>6. CASE ContextEnds
  BY <1>6 DEF ContextEnds
<1>7. CASE basicUnaryServerInterceptor
  BY <1>7 DEF basicUnaryServerInterceptor, getRequestIDFromIncomingCtx
<1>8. CASE timeoutBefore
  <2>1. server' \in {"handled", "handler"} /\ err' \in {"canceled", err}
    BY <1>8 DEF timeoutBefore
  <2> QED
    BY <1>8, <2>1 DEF timeoutBefore
<1>9. CASE CopyContext
  BY <1>9 DEF CopyContext
<1>10. CASE HandlerReturns
  <2>1. outcome' \in {"nil", "failed"} /\ err' \in {"canceled", "nil", "failed"}
    BY <1>10 DEF HandlerReturns
  <2> QED
    BY <1>10, <2>1 DEF HandlerReturns
<1>11. CASE HandlerPanics
  BY <1>11 DEF HandlerPanics
<1>12. CASE Answers
  BY <1>12, EmptySeq DEF Answers, Trailer
<1>13. CASE \E g \in Goroutine : Uses(g) \/ StoreStep(g)
  BY <1>13 DEF Uses, StoreStep
<1>14. CASE UNCHANGED vars
  BY <1>14 DEF vars
<1> QED
  BY <1>1, <1>2, <1>3, <1>4, <1>5, <1>6, <1>7, <1>8, <1>9, <1>10, <1>11, <1>12, <1>13,
     <1>14 DEF Next, CallerStep, ServerStep

\* Operations that have ended are operations.
LEMMA DoneType ==
  ASSUME TypeOK, RoomInv
  PROVE  /\ MaxOps \in Nat /\ MaxFields = 3 + 2 * MaxOps + 2 /\ Len(BaseFields) = 3
         /\ \A g \in Goroutine : ops[g] \in 0..MaxOps /\ Adding(g) \in 0..ops[g]
         /\ Done \in Nat /\ Done <= 2 * MaxOps
<1>1. MaxOps \in Nat /\ MaxFields = 3 + 2 * MaxOps + 2 /\ Len(BaseFields) = 3
  BY RequestsAssumption DEF MaxFields, BaseFields
<1>2. ASSUME NEW g \in Goroutine
      PROVE  ops[g] \in 0..MaxOps /\ Adding(g) \in 0..ops[g]
  BY <1>1 DEF TypeOK, StoreTypeOK, RoomInv, Adding
<1>3. "handler" \in Goroutine /\ "copy" \in Goroutine
  BY DEF Goroutine
<1> QED
  BY <1>1, <1>2, <1>3 DEF Done

\* There is room for what is appended.
LEMMA RoomForMore ==
  ASSUME TypeOK, RoomInv, StoreInv
  PROVE  /\ logFields # NoSlice => Within(arrays, logFields) /\ logFields.len < MaxFields
         /\ \A g \in Goroutine : Busy(g) => Within(arrays, view[g])
         /\ \A g \in Goroutine : op[g] = "elapsed" => view[g].len < MaxFields
<1>0. /\ MaxOps \in Nat /\ MaxFields = 3 + 2 * MaxOps + 2 /\ Len(BaseFields) = 3
      /\ Done \in Nat /\ Done <= 2 * MaxOps
  BY DoneType
<1>1. logFields # NoSlice => Within(arrays, logFields) /\ logFields.len < MaxFields
  <2>1. logFields # NoSlice => Within(arrays, logFields)
    BY DEF TypeOK, StoreTypeOK, Within
  <2>2. logFields.len <= Len(BaseFields) + Done /\ logFields.len \in Nat
    BY <1>0 DEF RoomInv, TypeOK, StoreTypeOK, Slice
  <2> QED
    BY <1>0, <2>1, <2>2
<1>2. ASSUME NEW g \in Goroutine, Busy(g) PROVE Within(arrays, view[g])
  <2>1. g \in {"handler", "copy"} /\ view[g] # NoSlice
    BY <1>2 DEF StoreInv, Goroutine
  <2>2. view[g] \in Slice
    BY DEF TypeOK, StoreTypeOK
  <2>3. view[g] \in {logFields, view["handler"], view["copy"]}
    BY <2>1
  <2>4. view[g].array # 0 /\ view[g].len <= Len(arrays[view[g].array])
    BY <2>1, <2>3 DEF TypeOK, StoreTypeOK
  <2> QED
    BY <2>2, <2>4 DEF Within
<1>3. ASSUME NEW g \in Goroutine, op[g] = "elapsed" PROVE view[g].len < MaxFields
  <2>1. view[g].len <= Len(BaseFields) + Done + 1 /\ view[g].len \in Nat
    <3>1. Busy(g) /\ Ahead(g) = 1
      BY <1>3 DEF Busy, Ahead
    <3>2. view[g].len \in 0..MaxFields
      BY DEF TypeOK, StoreTypeOK, Slice
    <3> QED
      BY <1>0, <3>1, <3>2 DEF RoomInv
  <2> QED
    BY <1>0, <2>1
<1> QED
  BY <1>1, <1>2, <1>3

\* The slices after an append.
LEMMA AppendStep ==
  ASSUME TypeOK, RoomInv, StoreInv, NEW g \in Goroutine, NEW s, NEW x \in Field,
         Within(arrays, s), s.len < MaxFields, AppendTo(g, s, x)
  PROVE  /\ arrays' \in Arrays /\ view' \in [Goroutine -> Slice]
         /\ Within(arrays', view'[g]) /\ view'[g].len = s.len + 1
         /\ logFields # NoSlice => Within(arrays', logFields)
         /\ \A f \in Goroutine \ {g} :
               view'[f] = view[f] /\ (view[f] # NoSlice => Within(arrays', view[f]))
<1>1. /\ arrays' \in Arrays /\ view' = [view EXCEPT ![g] = view'[g]]
      /\ Within(arrays', view'[g]) /\ view'[g].len = s.len + 1
      /\ \A t : Within(arrays, t) /\ t.array \in InUse(g) => Within(arrays', t)
  BY AppendToAppends
<1>2. view' \in [Goroutine -> Slice] /\ \A f \in Goroutine \ {g} : view'[f] = view[f]
  <2>1. view'[g] \in Slice /\ view \in [Goroutine -> Slice]
    BY <1>1 DEF Within, TypeOK, StoreTypeOK
  <2> HIDE DEF TypeOK
  <2> QED
    BY <1>1, <2>1
<1>3. logFields # NoSlice => Within(arrays', logFields)
  BY <1>1, RoomForMore DEF InUse
<1>4. ASSUME NEW f \in Goroutine \ {g}, view[f] # NoSlice PROVE Within(arrays', view[f])
  <2>1. Within(arrays, view[f])
    BY <1>4, RoomForMore DEF StoreInv
  <2> QED
    BY <1>1, <1>4, <2>1 DEF InUse
<1> QED
  BY <1>1, <1>2, <1>3, <1>4

\* What makes the types of the slices.
LEMMA SlicesType ==
  ASSUME NEW A \in Arrays, NEW l \in Slice, NEW v \in [Goroutine -> Slice],
         l # NoSlice => Within(A, l),
         \A g \in Goroutine : v[g] # NoSlice => Within(A, v[g])
  PROVE  \A s \in {l, v["handler"], v["copy"]} :
            s = NoSlice \/ (s.array # 0 /\ s.len <= Len(A[s.array]))
BY DEF Within, Goroutine

\* What counts operations changes with the operations only.
LEMMA RoomSame ==
  ASSUME RoomInv, UNCHANGED <<op, ops, logFields, view>>
  PROVE  RoomInv'
BY DEF RoomInv, Done, Adding, Ahead, Busy

\* An operation begins with an append to the fields of the store.
LEMMA RoomBegins ==
  ASSUME TypeOK, RoomInv, NEW g \in Goroutine, ~Busy(g), NEW o \in {"adds", "elapsed"},
         Does(g, o), logFields' = logFields, view' \in [Goroutine -> Slice],
         view'[g].len = logFields.len + 1,
         \A f \in Goroutine \ {g} : view'[f] = view[f],
         \/ ops' = [ops EXCEPT ![g] = @ + 1]
         \/ ops' = ops /\ o = "elapsed"
  PROVE  RoomInv' /\ Done' >= Done
<1>1. /\ Len(BaseFields) = 3 /\ Done \in Nat /\ logFields.len \in Nat /\ Busy(g)'
      /\ \A f \in Goroutine : view[f].len \in Nat /\ ops[f] \in Nat /\ Adding(f) \in 0..ops[f]
  <2>1. logFields.len \in 0..MaxFields /\ \A f \in Goroutine : view[f].len \in 0..MaxFields
    BY DEF TypeOK, StoreTypeOK, Slice
  <2>2. Busy(g)'
    BY DEF TypeOK, StoreTypeOK, Busy, Does
  <2> QED
    BY <2>1, <2>2, DoneType
<1>2. \A f \in Goroutine \ {g} : op'[f] = op[f] /\ ops'[f] = ops[f]
  BY DEF TypeOK, StoreTypeOK, Does
<1>3. op'[g] = o /\ op[g] = "none" /\ Adding(g) = 0
  BY DEF TypeOK, StoreTypeOK, Does, Busy, Adding
<1>4. \/ ops'[g] = ops[g] + 1
      \/ ops'[g] = ops[g] /\ o = "elapsed"
  BY DEF TypeOK, StoreTypeOK
<1>5. \A f \in Goroutine \ {g} :
         Adding(f)' = Adding(f) /\ Ahead(f)' = Ahead(f) /\ Busy(f)' = Busy(f)
  BY <1>2 DEF Adding, Ahead, Busy
<1>6. Adding(g)' = (IF o = "adds" THEN 1 ELSE 0) /\ Ahead(g)' = 1
  BY <1>3 DEF Adding, Ahead
<1>7. ops'[g] - Adding(g)' >= ops[g] - Adding(g) /\ ops'[g] \in Nat /\ (o = "adds" => ops'[g] # 0)
  BY <1>1, <1>3, <1>4, <1>6
<1>8. Done' \in Int /\ Done' >= Done
  BY <1>1, <1>2, <1>5, <1>6, <1>7 DEF Done, Goroutine
<1>9. \A f \in Goroutine : op'[f] = "adds" => ops'[f] # 0
  BY <1>2, <1>3, <1>7 DEF RoomInv
<1>10. logFields'.len <= Len(BaseFields) + Done'
  BY <1>1, <1>8 DEF RoomInv
<1>11. ASSUME NEW f \in Goroutine, Busy(f)'
       PROVE  view'[f].len <= Len(BaseFields) + Done' + Ahead(f)'
  <2>1. CASE f = g
    BY <1>1, <1>6, <1>8, <2>1 DEF RoomInv
  <2>2. CASE f # g
    <3>1. Busy(f) /\ view'[f] = view[f] /\ Ahead(f)' = Ahead(f) /\ Ahead(f) \in Nat
      BY <1>5, <1>11, <2>2 DEF Ahead
    <3>2. view[f].len <= Len(BaseFields) + Done + Ahead(f)
      BY <3>1 DEF RoomInv
    <3> QED
      BY <1>1, <1>8, <3>1, <3>2
  <2> QED
    BY <2>1, <2>2
<1> QED
  BY <1>8, <1>9, <1>10, <1>11 DEF RoomInv

\* ... and ends with the assignment of the fields, or with a line.
LEMMA RoomEnds ==
  ASSUME TypeOK, RoomInv, NEW g \in Goroutine, Does(g, "none"), ops' = ops,
         view' = [view EXCEPT ![g] = NoSlice],
         \/ op[g] = "adds" /\ logFields' = view[g]
         \/ op[g] = "requestId" /\ logFields' = logFields
  PROVE  RoomInv'
<1>1. /\ Len(BaseFields) = 3 /\ Done \in Nat
      /\ \A f \in Goroutine : ops[f] \in Nat /\ Adding(f) \in 0..ops[f]
  BY DoneType
<1>2. logFields.len \in 0..MaxFields /\ \A f \in Goroutine : view[f].len \in 0..MaxFields
  BY DEF TypeOK, StoreTypeOK, Slice
<1>3. /\ op'[g] = "none"
      /\ \A f \in Goroutine \ {g} : op'[f] = op[f] /\ view'[f] = view[f]
  BY DEF TypeOK, StoreTypeOK, Does
<1>4. ~Busy(g)' /\ Adding(g)' = 0
  BY <1>3 DEF Busy, Adding
<1>5. \A f \in Goroutine \ {g} :
         Adding(f)' = Adding(f) /\ Ahead(f)' = Ahead(f) /\ Busy(f)' = Busy(f)
  BY <1>3 DEF Adding, Ahead, Busy
<1>6. Done' = Done + Adding(g)
  BY <1>1, <1>4, <1>5 DEF Done, Goroutine
<1>7. \A f \in Goroutine : op'[f] = "adds" => ops'[f] # 0
  BY <1>3 DEF RoomInv
<1>8. logFields'.len <= Len(BaseFields) + Done'
  <2>1. CASE op[g] = "adds" /\ logFields' = view[g]
    <3>1. Busy(g) /\ Ahead(g) = 1 /\ Adding(g) = 1
      BY <2>1 DEF Busy, Ahead, Adding
    <3>2. view[g].len <= Len(BaseFields) + Done + 1
      BY <3>1 DEF RoomInv
    <3> QED
      BY <1>1, <1>2, <1>6, <2>1, <3>1, <3>2
  <2>2. CASE op[g] = "requestId" /\ logFields' = logFields
    BY <1>1, <1>2, <1>6, <2>2 DEF RoomInv, Adding
  <2> QED
    BY <2>1, <2>2
<1>9. ASSUME NEW f \in Goroutine, Busy(f)'
      PROVE  view'[f].len <= Len(BaseFields) + Done' + Ahead(f)'
  <2>1. f # g
    BY <1>4, <1>9
  <2>2. Busy(f) /\ view'[f] = view[f] /\ Ahead(f)' = Ahead(f) /\ Ahead(f) \in Nat
    BY <1>3, <1>5, <1>9, <2>1 DEF Ahead
  <2>3. view[f].len <= Len(BaseFields) + Done + Ahead(f)
    BY <2>2 DEF RoomInv
  <2> QED
    BY <1>1, <1>2, <1>6, <2>2, <2>3
<1> QED
  BY <1>7, <1>8, <1>9 DEF RoomInv

\* In between, the second field of a line is appended.
LEMMA RoomGoesOn ==
  ASSUME TypeOK, RoomInv, NEW g \in Goroutine, op[g] = "elapsed", Does(g, "requestId"),
         UNCHANGED <<ops, logFields>>, view'[g].len = view[g].len + 1,
         \A f \in Goroutine \ {g} : view'[f] = view[f]
  PROVE  RoomInv'
<1>1. Len(BaseFields) = 3 /\ Done \in Nat
  BY DoneType
<1>2. \A f \in Goroutine : view[f].len \in 0..MaxFields
  BY DEF TypeOK, StoreTypeOK, Slice
<1>3. op'[g] = "requestId" /\ \A f \in Goroutine \ {g} : op'[f] = op[f]
  BY DEF TypeOK, StoreTypeOK, Does
<1>4. Adding(g)' = 0 /\ Adding(g) = 0 /\ Ahead(g)' = 2 /\ Ahead(g) = 1 /\ Busy(g)
  BY <1>3 DEF Adding, Ahead, Busy
<1>5. \A f \in Goroutine \ {g} :
         Adding(f)' = Adding(f) /\ Ahead(f)' = Ahead(f) /\ Busy(f)' = Busy(f)
  BY <1>3 DEF Adding, Ahead, Busy
<1>6. Done' = Done
  BY <1>4, <1>5 DEF Done, Goroutine
<1>7. \A f \in Goroutine : op'[f] = "adds" => ops'[f] # 0
  BY <1>3 DEF RoomInv
<1>8. logFields'.len <= Len(BaseFields) + Done'
  BY <1>6 DEF RoomInv
<1>9. ASSUME NEW f \in Goroutine, Busy(f)'
      PROVE  view'[f].len <= Len(BaseFields) + Done' + Ahead(f)'
  <2>1. CASE f = g
    <3>1. view[g].len <= Len(BaseFields) + Done + 1
      BY <1>4 DEF RoomInv
    <3> QED
      BY <1>1, <1>2, <1>4, <1>6, <2>1, <3>1
  <2>2. CASE f # g
    BY <1>5, <1>6, <1>9, <2>2 DEF RoomInv
  <2> QED
    BY <2>1, <2>2
<1> QED
  BY <1>7, <1>8, <1>9 DEF RoomInv

\* Where the server goes from where.
LEMMA ServerMoves ==
  ASSUME Next \/ UNCHANGED vars
  PROVE  \/ server' = server
         \/ caller = "handling" /\ server' \in {"none", "incoming"} /\ UNCHANGED storeVars
         \/ basicUnaryServerInterceptor
         \/ server \in {"entered", "handler"} /\ server' \in {"handler", "handled"}
         \/ /\ server = "handled" /\ server' = "answered" /\ ~Busy("handler")
            /\ UNCHANGED storeVars
<1>1. CASE UNCHANGED vars
  BY <1>1 DEF vars, serverVars
<1>2. CASE CallerStep \/ ContextEnds
  BY <1>2 DEF CallerStep, basicHandlerFunc, Invoke, GivesUp, Returns, Rendered, ContextEnds,
              serverVars
<1>3. CASE ServerStep
  BY <1>3 DEF ServerStep, timeoutBefore, CopyContext, HandlerReturns, HandlerPanics,
              Answers, ServerGoes, serverVars
<1>4. CASE \E g \in Goroutine : Uses(g) \/ StoreStep(g)
  BY <1>4 DEF Uses, StoreStep, serverVars
<1> QED
  BY <1>1, <1>2, <1>3, <1>4 DEF Next

\* The invariant of the store and what it needs of the rest.
StoreIInv ==
    /\ TypeOK /\ RoomInv /\ StoreInv
    /\ server # "none" => caller \notin {"new", "handling"}

\* Who uses the store has one.
LEMMA StoreInUse ==
  ASSUME StoreInv
  PROVE  /\ server \notin {"none", "incoming"} => logFields # NoSlice
         /\ copied => logFields # NoSlice
         /\ \A g \in Goroutine : Busy(g) => logFields # NoSlice
         /\ logFields = NoSlice => \A g \in Goroutine : ~Busy(g) /\ view[g] = NoSlice
BY DEF StoreInv, Goroutine

\* An operation that begins keeps the invariant of the store.
LEMMA BeginStep ==
  ASSUME StoreIInv, NEW g \in Goroutine, NEW o \in {"adds", "elapsed"}, NEW x \in Field,
         ~Busy(g), Does(g, o), AppendTo(g, logFields, x), logFields # NoSlice,
         UNCHANGED <<serverLogs, logFields, copied, added, line, logged>>,
         ops' \in [Goroutine -> 0..MaxOps],
         \/ ops' = [ops EXCEPT ![g] = @ + 1]
         \/ ops' = ops /\ o = "elapsed",
         overlapped' \in BOOLEAN, owed' \in [Goroutine -> Seq(Goroutine)],
         g = "copy" => copied, g = "handler" => server' \in {"handler", "handled"},
         \/ server' = server
         \/ server \in {"entered", "handler"} /\ server' = "handled"
  PROVE  StoreTypeOK' /\ RoomInv' /\ StoreInv'
<1>1. Within(arrays, logFields) /\ logFields.len < MaxFields
  BY RoomForMore DEF StoreIInv
<1>2. /\ arrays' \in Arrays /\ view' \in [Goroutine -> Slice]
      /\ Within(arrays', view'[g]) /\ view'[g].len = logFields.len + 1
      /\ Within(arrays', logFields)
      /\ \A f \in Goroutine \ {g} :
            view'[f] = view[f] /\ (view[f] # NoSlice => Within(arrays', view[f]))
  BY <1>1, AppendStep DEF StoreIInv
<1>3. view'[g] # NoSlice
  BY <1>2 DEF Within, NoSlice
<1>4. op' \in [Goroutine -> {"none", "adds", "elapsed", "requestId"}] /\ op'[g] = o
      /\ \A f \in Goroutine \ {g} : op'[f] = op[f]
  BY DEF StoreIInv, TypeOK, StoreTypeOK, Does
<1>5. StoreTypeOK'
  <2>1. logFields' \in Slice
    BY DEF StoreIInv, TypeOK, StoreTypeOK
  <2>2. \A f \in Goroutine : view'[f] # NoSlice => Within(arrays', view'[f])
    BY <1>2
  <2>3. \A s \in {logFields', view'["handler"], view'["copy"]} :
            s = NoSlice \/ (s.array # 0 /\ s.len <= Len(arrays'[s.array]))
    BY <1>2, <2>1, <2>2, SlicesType
  <2> QED
    BY <1>2, <1>4, <2>1, <2>3 DEF StoreIInv, TypeOK, StoreTypeOK, Arrays
<1>6. RoomInv'
  BY <1>2, RoomBegins DEF StoreIInv
<1>7. StoreInv'
  <2>1. \A f \in Goroutine : view'[f] # NoSlice <=> Busy(f)'
    BY <1>2, <1>3, <1>4 DEF StoreIInv, StoreInv, Busy
  <2>2. Busy("handler")' => server' \in {"handler", "handled"}
    BY <1>4 DEF StoreIInv, StoreInv, Busy, Goroutine
  <2>3. Busy("copy")' => copied'
    BY <1>4 DEF StoreIInv, StoreInv, Busy, Goroutine
  <2> QED
    BY <2>1, <2>2, <2>3 DEF StoreIInv, StoreInv
<1> QED
  BY <1>5, <1>6, <1>7

\* So does one that ends.
LEMMA EndStep ==
  ASSUME StoreIInv, NEW g \in Goroutine, Does(g, "none"), Busy(g),
         view' = [view EXCEPT ![g] = NoSlice],
         UNCHANGED <<arrays, ops, copied, overlapped, owed, server>>,
         \/ op[g] = "adds" /\ logFields' = view[g]
         \/ op[g] = "requestId" /\ logFields' = logFields,
         serverLogs' \in Seq(Nat), logged' \in Nat, added' \in Seq(Goroutine),
         line' \in [Goroutine -> Seq(Field)]
  PROVE  StoreTypeOK' /\ RoomInv' /\ StoreInv'
<1>1. logFields # NoSlice /\ view[g] # NoSlice
  BY StoreInUse DEF StoreIInv, StoreInv
<1>2. logFields' # NoSlice /\ Within(arrays, logFields')
  BY <1>1, RoomForMore DEF StoreIInv
<1>3. /\ view' \in [Goroutine -> Slice] /\ view'[g] = NoSlice
      /\ \A f \in Goroutine \ {g} : view'[f] = view[f]
  <2>1. NoSlice \in Slice
    BY DoneType DEF StoreIInv, NoSlice, Slice
  <2> QED
    BY <2>1 DEF StoreIInv, TypeOK, StoreTypeOK
<1>4. op' \in [Goroutine -> {"none", "adds", "elapsed", "requestId"}] /\ op'[g] = "none"
      /\ \A f \in Goroutine \ {g} : op'[f] = op[f]
  BY DEF StoreIInv, TypeOK, StoreTypeOK, Does
<1>5. RoomInv'
  BY RoomEnds DEF StoreIInv
<1>6. StoreTypeOK'
  <2>1. logFields' \in Slice
    BY <1>2 DEF Within
  <2>2. \A f \in Goroutine : view'[f] # NoSlice => Within(arrays', view'[f])
    BY <1>3, RoomForMore DEF StoreIInv, StoreInv
  <2>3. arrays' \in Arrays
    BY DEF StoreIInv, TypeOK, StoreTypeOK, Arrays
  <2>4. \A s \in {logFields', view'["handler"], view'["copy"]} :
            s = NoSlice \/ (s.array # 0 /\ s.len <= Len(arrays'[s.array]))
    <3>1. logFields'.array # 0 /\ logFields'.len <= Len(arrays'[logFields'.array])
      BY <1>2 DEF Within
    <3>2. ASSUME NEW f \in Goroutine, view'[f] # NoSlice
          PROVE  view'[f].array # 0 /\ view'[f].len <= Len(arrays'[view'[f].array])
      BY <2>2, <3>2 DEF Within
    <3> QED
      BY <3>1, <3>2 DEF Goroutine
  <2>5. logFields'.len <= Len(BaseFields) + 2 * MaxOps
    <3>1. \A f \in Goroutine : ops[f] \in 0..MaxOps
      BY DEF StoreIInv, TypeOK, StoreTypeOK
    <3>2. \A f \in Goroutine : Adding(f)' \in {0, 1}
      BY DEF Adding
    <3>3. logFields'.len <= Len(BaseFields) + Done' /\ logFields'.len \in 0..MaxFields
      BY <1>5, <2>1 DEF RoomInv, Slice
    <3>4. Done' \in Int /\ Done' <= 2 * MaxOps
      <4>1. /\ ops["handler"] \in 0..MaxOps /\ ops["copy"] \in 0..MaxOps
            /\ Adding("handler")' \in {0, 1} /\ Adding("copy")' \in {0, 1}
        BY <3>1, <3>2 DEF Goroutine
      <4>2. Done' = (ops["handler"] - Adding("handler")') + (ops["copy"] - Adding("copy")')
        BY DEF Done
      <4>3. \A a, b \in 0..MaxOps, x, y \in {0, 1} :
               (a - x) + (b - y) \in Int /\ (a - x) + (b - y) <= 2 * MaxOps
        BY RequestsAssumption
      <4> QED
        BY <4>1, <4>2, <4>3
    <3> QED
      BY <3>3, <3>4, RequestsAssumption DEF BaseFields
  <2> QED
    BY <1>3, <1>4, <2>1, <2>3, <2>4, <2>5 DEF StoreIInv, TypeOK, StoreTypeOK, Arrays
<1>7. StoreInv'
  <2>1. \A f \in Goroutine : view'[f] # NoSlice <=> Busy(f)'
    BY <1>3, <1>4 DEF StoreIInv, StoreInv, Busy
  <2>2. Busy("handler")' => server' \in {"handler", "handled"}
    BY <1>4 DEF StoreIInv, StoreInv, Busy, Goroutine
  <2>3. Busy("copy")' => copied'
    BY <1>4 DEF StoreIInv, StoreInv, Busy, Goroutine
  <2> QED
    BY <1>1, <1>2, <2>1, <2>2, <2>3 DEF StoreIInv, StoreInv
<1> QED
  BY <1>5, <1>6, <1>7

\* Every step keeps the invariant of the store.
LEMMA StoreStepKeeps ==
  ASSUME StoreIInv, [Next]_vars
  PROVE  StoreTypeOK' /\ RoomInv' /\ StoreInv'
<1> USE DEF StoreIInv
<1>0. /\ "handler" \in Goroutine /\ Goroutine = {"handler", "copy"}
      /\ \A g \in Goroutine : g \in {"adds"} \/ g \in Field
      /\ "elapsed" \in Field /\ "requestId" \in Field
  BY DEF Goroutine, Field
<1>1. CASE UNCHANGED storeVars
  <2>1. UNCHANGED <<serverLogs, logFields, arrays, op, view, ops, copied,
                    overlapped, added, owed, line, logged>>
    BY <1>1 DEF storeVars
  <2>2. StoreTypeOK'
    BY <2>1 DEF TypeOK, StoreTypeOK
  <2>3. RoomInv'
    BY <2>1, RoomSame
  <2>4. ~basicUnaryServerInterceptor
    BY <2>1 DEF basicUnaryServerInterceptor, StoreInv, NoSlice
  <2>5. StoreInv'
    BY <2>1, <2>4, ServerMoves DEF StoreInv, Busy
  <2> QED
    BY <2>2, <2>3, <2>5
<1>2. CASE basicUnaryServerInterceptor
  <2>1. /\ server = "incoming" /\ server' = "entered" /\ logFields = NoSlice
        /\ UNCHANGED <<serverLogs, op, view, ops, copied, overlapped, added, owed, line,
                       logged>>
        /\ arrays' = [arrays EXCEPT ![1] = Padded(BaseFields)]
        /\ logFields' = [array |-> 1, len |-> 3]
    BY <1>2 DEF basicUnaryServerInterceptor, StoreInv, ServerGoes, BaseFields
  <2>2. /\ Len(BaseFields) = 3 /\ BaseFields \in Seq(Field) /\ 3 \in 1..MaxFields
        /\ MaxOps \in Nat
    BY RequestsAssumption DEF BaseFields, Field, MaxFields
  <2>3. Padded(BaseFields) \in Seq(Field) /\ 3 <= Len(Padded(BaseFields))
    BY <2>2, PaddedProperties
  <2>4. arrays' \in Arrays /\ arrays'[1] = Padded(BaseFields)
    <3> DEFINE q == Padded(BaseFields)
    <3>1. arrays \in [1..4 -> Seq(Field)] /\ 1 \in 1..4
      BY DEF TypeOK, StoreTypeOK
    <3>2. q \in Seq(Field) /\ arrays' = [arrays EXCEPT ![1] = q]
      BY <2>1, <2>3
    <3> HIDE DEF q
    <3>3. arrays' \in [1..4 -> Seq(Field)] /\ arrays'[1] = q
      BY <3>1, <3>2
    <3> QED
      BY <3>3 DEF Arrays, q
  <2>5. \A g \in Goroutine : ~Busy(g) /\ view[g] = NoSlice
    BY <2>1, StoreInUse
  <2>6. logFields' \in Slice /\ Within(arrays', logFields') /\ logFields' # NoSlice
    BY <2>1, <2>2, <2>3, <2>4 DEF Slice, Within, NoSlice
  <2>7. StoreTypeOK'
    <3>1. \A s \in {logFields', view'["handler"], view'["copy"]} :
             s = NoSlice \/ (s.array # 0 /\ s.len <= Len(arrays'[s.array]))
      BY <2>1, <2>5, <2>6 DEF Within, Goroutine
    <3>2. logFields'.len <= Len(BaseFields) + 2 * MaxOps
      BY <2>1, <2>2
    <3>3. arrays' \in [1..4 -> Seq(Field)] /\ logFields' \in Slice
      BY <2>4, <2>6 DEF Arrays
    <3> QED
      BY <2>1, <3>1, <3>2, <3>3 DEF TypeOK, StoreTypeOK
  <2>8. RoomInv'
    <3>1. Done' = Done /\ Done \in Nat
      BY <2>1, DoneType DEF Done, Adding
    <3> QED
      BY <2>1, <2>2, <2>5, <3>1 DEF RoomInv, Busy
  <2>9. StoreInv'
    BY <2>1, <2>5, <2>6 DEF StoreInv, Busy, Goroutine
  <2> QED
    BY <2>7, <2>8, <2>9
<1>3. CASE CopyContext
  <2>1. /\ server = "handler" /\ copied' = TRUE /\ server' = server
        /\ UNCHANGED <<serverLogs, logFields, arrays, op, view, ops, overlapped, added,
                       owed, line, logged>>
    BY <1>3 DEF CopyContext, serverVars
  <2>2. RoomInv'
    BY <2>1, RoomSame
  <2> QED
    BY <2>1, <2>2 DEF TypeOK, StoreTypeOK, StoreInv, Busy
<1>4. ASSUME NEW g \in Goroutine, Uses(g) PROVE
        /\ logFields # NoSlice /\ server' = server
        /\ ops' = [ops EXCEPT ![g] = @ + 1] /\ ops' \in [Goroutine -> 0..MaxOps]
        /\ (g = "copy" => copied) /\ (g = "handler" => server' \in {"handler", "handled"})
  <2>1. ops[g] < MaxOps /\ ops' = [ops EXCEPT ![g] = @ + 1] /\ server' = server
    BY <1>4 DEF Uses, serverVars
  <2>2. ops' \in [Goroutine -> 0..MaxOps]
    <3>1. ops \in [Goroutine -> 0..MaxOps]
      BY DEF TypeOK, StoreTypeOK
    <3>2. ops[g] + 1 \in 0..MaxOps
      BY <2>1, <3>1, RequestsAssumption
    <3> QED
      BY <2>1, <3>1, <3>2
  <2>3. (g = "copy" => copied) /\ (g = "handler" => server = "handler")
    BY <1>4 DEF Uses
  <2> QED
    BY <1>0, <2>1, <2>2, <2>3, StoreInUse
<1>5. ASSUME NEW g \in Goroutine, Uses(g), AddLogFields(g)
      PROVE  StoreTypeOK' /\ RoomInv' /\ StoreInv'
  <2>1. g \in Field
    BY DEF Field
  <2>2. /\ ~Busy(g) /\ Does(g, "adds") /\ AppendTo(g, logFields, g)
        /\ UNCHANGED <<serverLogs, logFields, copied, added, line, logged, owed>>
        /\ overlapped' \in BOOLEAN
    BY <1>5 DEF AddLogFields, Overlaps, TypeOK, StoreTypeOK
  <2>3. owed' \in [Goroutine -> Seq(Goroutine)]
    BY <2>2 DEF TypeOK, StoreTypeOK
  <2> QED
    BY <1>4, <1>5, <2>1, <2>2, <2>3, BeginStep
<1>6. ASSUME NEW g \in Goroutine, Logger(g)
      PROVE  /\ ~Busy(g) /\ Does(g, "elapsed") /\ AppendTo(g, logFields, "elapsed")
             /\ UNCHANGED <<serverLogs, logFields, copied, added, line, logged>>
             /\ overlapped' \in BOOLEAN /\ owed' \in [Goroutine -> Seq(Goroutine)]
  <2>1. owed' = [owed EXCEPT ![g] = added]
    BY <1>6 DEF Logger
  <2>2. owed' \in [Goroutine -> Seq(Goroutine)]
    BY <2>1 DEF TypeOK, StoreTypeOK
  <2> QED
    BY <1>6, <2>2 DEF Logger, Overlaps, TypeOK, StoreTypeOK
<1>7. ASSUME NEW g \in Goroutine, Uses(g), Logger(g)
      PROVE  StoreTypeOK' /\ RoomInv' /\ StoreInv'
  BY <1>0, <1>4, <1>6, <1>7, BeginStep
<1>8. CASE /\ server \in {"entered", "handler"} /\ server' = "handled"
           /\ Logger("handler") /\ UNCHANGED ops
  <2>1. logFields # NoSlice /\ ops' \in [Goroutine -> 0..MaxOps] /\ ops' = ops
    BY <1>8, StoreInUse DEF TypeOK, StoreTypeOK
  <2> QED
    BY <1>0, <1>6, <1>8, <2>1, BeginStep
<1>9. ASSUME NEW g \in Goroutine, FieldsAdded(g), UNCHANGED <<callerVars, serverVars>>
      PROVE  StoreTypeOK' /\ RoomInv' /\ StoreInv'
  <2>1. /\ Does(g, "none") /\ op[g] = "adds" /\ Busy(g) /\ logFields' = view[g]
        /\ view' = [view EXCEPT ![g] = NoSlice] /\ added' = Append(added, g)
        /\ UNCHANGED <<serverLogs, arrays, ops, copied, overlapped, owed, line, logged,
                       server>>
    BY <1>9 DEF FieldsAdded, Busy, serverVars
  <2>2. /\ added' \in Seq(Goroutine) /\ serverLogs' \in Seq(Nat) /\ logged' \in Nat
        /\ line' \in [Goroutine -> Seq(Field)]
    BY <2>1 DEF TypeOK, StoreTypeOK
  <2> QED
    BY <2>1, <2>2, EndStep
<1>10. ASSUME NEW g \in Goroutine, AppendsID(g), UNCHANGED <<callerVars, serverVars>>
       PROVE  StoreTypeOK' /\ RoomInv' /\ StoreInv'
  <2>1. /\ op[g] = "elapsed" /\ Busy(g) /\ Does(g, "requestId") /\ server' = server
        /\ AppendTo(g, view[g], "requestId")
        /\ UNCHANGED <<serverLogs, logFields, ops, copied, overlapped, added, owed, line, logged>>
    BY <1>10 DEF AppendsID, Busy, serverVars
  <2>2. Within(arrays, view[g]) /\ view[g].len < MaxFields /\ logFields # NoSlice
    BY <2>1, RoomForMore, StoreInUse
  <2>3. /\ arrays' \in Arrays /\ view' \in [Goroutine -> Slice]
        /\ Within(arrays', view'[g]) /\ view'[g].len = view[g].len + 1
        /\ Within(arrays', logFields)
        /\ \A f \in Goroutine \ {g} :
              view'[f] = view[f] /\ (view[f] # NoSlice => Within(arrays', view[f]))
    BY <1>0, <2>1, <2>2, AppendStep
  <2>4. view'[g] # NoSlice
    BY <2>3 DEF Within, NoSlice
  <2>5. op' \in [Goroutine -> {"none", "adds", "elapsed", "requestId"}]
        /\ op'[g] = "requestId" /\ \A f \in Goroutine \ {g} : op'[f] = op[f]
    BY <2>1 DEF TypeOK, StoreTypeOK, Does
  <2>6. StoreTypeOK'
    <3>1. logFields' \in Slice
      BY <2>1 DEF TypeOK, StoreTypeOK
    <3>2. \A f \in Goroutine : view'[f] # NoSlice => Within(arrays', view'[f])
      BY <2>3
    <3>3. \A s \in {logFields', view'["handler"], view'["copy"]} :
             s = NoSlice \/ (s.array # 0 /\ s.len <= Len(arrays'[s.array]))
      BY <2>1, <2>3, <3>1, <3>2, SlicesType
    <3> QED
      BY <2>1, <2>3, <2>5, <3>1, <3>3 DEF TypeOK, StoreTypeOK, Arrays
  <2>7. RoomInv'
    BY <2>1, <2>3, RoomGoesOn
  <2>8. StoreInv'
    <3>1. \A f \in Goroutine : view'[f] # NoSlice <=> Busy(f)'
      BY <2>3, <2>4, <2>5 DEF StoreInv, Busy
    <3>2. \A f \in Goroutine : Busy(f)' = Busy(f)
      BY <2>1, <2>5 DEF Busy
    <3> QED
      BY <1>0, <2>1, <3>1, <3>2 DEF StoreInv
  <2> QED
    BY <2>6, <2>7, <2>8
<1>11. ASSUME NEW g \in Goroutine, Logs(g), UNCHANGED <<callerVars, serverVars>>
       PROVE  StoreTypeOK' /\ RoomInv' /\ StoreInv'
  <2>1. /\ Does(g, "none") /\ op[g] = "requestId" /\ Busy(g)
        /\ view' = [view EXCEPT ![g] = NoSlice]
        /\ UNCHANGED <<logFields, arrays, ops, copied, overlapped, added, owed, server>>
    BY <1>11 DEF Logs, Busy, serverVars
  <2>2. line' = [line EXCEPT ![g] = Read(arrays, view[g])]
    BY <1>11 DEF Logs, Elems, Read
  <2>3. Read(arrays, view[g]) \in Seq(Field)
    BY <2>1, RoomForMore, ReadProperties DEF TypeOK, StoreTypeOK, Arrays
  <2>4. line' \in [Goroutine -> Seq(Field)] /\ added' \in Seq(Goroutine)
    BY <2>1, <2>2, <2>3 DEF TypeOK, StoreTypeOK
  <2>5. logged' \in Nat /\ serverLogs' \in Seq(Nat)
    <3>1. logged' \in {logged, logged + 1}
      BY <1>11 DEF Logs
    <3>2. logged' \in Nat /\ serverLogs \in Seq(Nat)
      BY <3>1 DEF TypeOK, StoreTypeOK
    <3>3. serverLogs' \in {serverLogs, Append(serverLogs, logged'), Append(serverLogs, 0)}
      BY <1>11 DEF Logs
    <3>4. /\ Append(serverLogs, logged') \in Seq(Nat)
          /\ Append(serverLogs, 0) \in Seq(Nat)
      BY <3>2, AppendProperties
    <3> QED
      BY <3>2, <3>3, <3>4
  <2> QED
    BY <2>1, <2>4, <2>5, EndStep
<1> QED
  BY <1>1, <1>2, <1>3, <1>5, <1>7, <1>8, <1>9, <1>10, <1>11, StoreSteps

(***************************************************************************)
(* Logs and answers.                                                       *)
(***************************************************************************)

\* InTurn, line by line.
LEMMA InTurnMeans ==
  ASSUME NEW logs \in Seq(Nat), NEW n \in Nat
  PROVE  InTurn(logs, n) <=>
           /\ \A k \in 1..Len(logs) : logs[k] > 0 => logs[k] \in 1..n
           /\ \A m \in 1..n : \E k \in 1..Len(logs) : logs[k] = m
           /\ \A j, k \in 1..Len(logs) :
                 logs[j] > 0 /\ logs[k] > 0 /\ j < k => logs[j] < logs[k]
<1> DEFINE lines == {k \in DOMAIN logs : logs[k] > 0}
<1>1. DOMAIN logs = 1..Len(logs) /\ Len(logs) \in Nat /\ \A k \in 1..Len(logs) : logs[k] \in Nat
  BY LenProperties, ElementOfSeq
<1>2. lines = {k \in 1..Len(logs) : logs[k] > 0}
  BY <1>1
<1>3. InTurn(logs, n) <=> /\ {logs[k] : k \in lines} = 1..n
                          /\ \A j, k \in lines : j < k => logs[j] < logs[k]
  BY DEF InTurn
<1> HIDE DEF lines
<1>4. ASSUME {logs[k] : k \in lines} = 1..n
      PROVE  /\ \A k \in 1..Len(logs) : logs[k] > 0 => logs[k] \in 1..n
             /\ \A m \in 1..n : \E k \in 1..Len(logs) : logs[k] = m
  BY <1>2, <1>4
<1>5. ASSUME \A k \in 1..Len(logs) : logs[k] > 0 => logs[k] \in 1..n,
             \A m \in 1..n : \E k \in 1..Len(logs) : logs[k] = m
      PROVE  {logs[k] : k \in lines} = 1..n
  <2>1. ASSUME NEW m \in 1..n PROVE m \in {logs[k] : k \in lines}
    BY <1>2, <1>5, <2>1
  <2>2. \A k \in lines : logs[k] \in 1..n
    BY <1>2, <1>5
  <2> QED
    BY <2>1, <2>2
<1> QED
  BY <1>2, <1>3, <1>4, <1>5

\* Without logs there are no lines.
LEMMA InTurnEmpty == InTurn(<<>>, 0)
<1>1. DOMAIN <<>> = {}
  OBVIOUS
<1>2. {k \in DOMAIN <<>> : <<>>[k] > 0} = {}
  BY <1>1
<1>3. 1..0 = {}
  OBVIOUS
<1> QED
  BY <1>2, <1>3 DEF InTurn

\* The next line of the handler keeps them in turn, and so does one that is not its own.
LEMMA InTurnAppend ==
  ASSUME NEW logs \in Seq(Nat), NEW n \in Nat, InTurn(logs, n)
  PROVE  InTurn(Append(logs, n + 1), n + 1) /\ InTurn(Append(logs, 0), n)
<1>1. /\ \A k \in 1..Len(logs) : logs[k] > 0 => logs[k] \in 1..n
      /\ \A m \in 1..n : \E k \in 1..Len(logs) : logs[k] = m
      /\ \A j, k \in 1..Len(logs) :
            logs[j] > 0 /\ logs[k] > 0 /\ j < k => logs[j] < logs[k]
  BY InTurnMeans
<1>2. Len(logs) \in Nat /\ \A k \in 1..Len(logs) : logs[k] \in Nat
  BY LenProperties, ElementOfSeq
<1>3. InTurn(Append(logs, n + 1), n + 1)
  <2> DEFINE more == Append(logs, n + 1)
  <2>1. /\ more \in Seq(Nat) /\ Len(more) = Len(logs) + 1
        /\ \A k \in 1..Len(logs) : more[k] = logs[k]
        /\ more[Len(logs) + 1] = n + 1
    BY AppendProperties
  <2> HIDE DEF more
  <2>2. \A k \in 1..Len(more) : k \in 1..Len(logs) \/ (k = Len(logs) + 1 /\ more[k] = n + 1)
    BY <1>2, <2>1
  <2>3. ASSUME NEW k \in 1..Len(more), more[k] > 0 PROVE more[k] \in 1..(n + 1)
    <3>1. CASE k = Len(logs) + 1
      BY <2>1, <3>1
    <3>2. CASE k # Len(logs) + 1
      <4>1. k \in 1..Len(logs) /\ more[k] = logs[k]
        BY <2>1, <2>2, <3>2
      <4>2. logs[k] \in 1..n
        BY <1>1, <2>3, <4>1
      <4> QED
        BY <4>1, <4>2
    <3> QED
      BY <3>1, <3>2
  <2>4. ASSUME NEW m \in 1..(n + 1) PROVE \E k \in 1..Len(more) : more[k] = m
    <3>1. CASE m = n + 1
      <4>1. Len(logs) + 1 \in 1..Len(more)
        BY <1>2, <2>1
      <4>2. more[Len(logs) + 1] = m
        BY <2>1, <3>1
      <4> QED
        BY <4>1, <4>2
    <3>2. CASE m # n + 1
      <4>0. m \in 1..n
        BY <3>2
      <4>1. PICK k \in 1..Len(logs) : logs[k] = m
        BY <1>1, <4>0
      <4>2. k \in 1..Len(more)
        BY <1>2, <2>1
      <4> QED
        BY <2>1, <4>1, <4>2
    <3> QED
      BY <3>1, <3>2
  <2>5. ASSUME NEW j \in 1..Len(more), NEW k \in 1..Len(more),
               more[j] > 0, more[k] > 0, j < k
        PROVE  more[j] < more[k]
    <3>1. j \in 1..Len(logs)
      BY <1>2, <2>1, <2>5
    <3>2. CASE k \in 1..Len(logs)
      BY <1>1, <2>1, <2>5, <3>1, <3>2
    <3>3. CASE k \notin 1..Len(logs)
      <4>1. more[j] \in 1..n /\ more[k] = n + 1
        BY <1>1, <2>1, <2>2, <2>5, <3>1, <3>3
      <4> QED
        BY <4>1
    <3> QED
      BY <3>2, <3>3
  <2>6. InTurn(more, n + 1)
    <3>1. \A k \in 1..Len(more) : more[k] > 0 => more[k] \in 1..(n + 1)
      BY <2>3
    <3>2. \A m \in 1..(n + 1) : \E k \in 1..Len(more) : more[k] = m
      BY <2>4
    <3>3. \A j, k \in 1..Len(more) :
             more[j] > 0 /\ more[k] > 0 /\ j < k => more[j] < more[k]
      BY <2>5
    <3>4. n + 1 \in Nat
      OBVIOUS
    <3> QED
      BY <2>1, <3>1, <3>2, <3>3, <3>4, InTurnMeans
  <2> QED
    BY <2>6 DEF more
<1>4. InTurn(Append(logs, 0), n)
  <2> DEFINE more == Append(logs, 0)
  <2>1. /\ more \in Seq(Nat) /\ Len(more) = Len(logs) + 1
        /\ \A k \in 1..Len(logs) : more[k] = logs[k]
        /\ more[Len(logs) + 1] = 0
    BY AppendProperties
  <2> HIDE DEF more
  <2>2. \A k \in 1..Len(more) : k \in 1..Len(logs) \/ more[k] = 0
    BY <1>2, <2>1
  <2>3. \A k \in 1..Len(more) : more[k] > 0 => k \in 1..Len(logs) /\ more[k] = logs[k]
    BY <2>1, <2>2
  <2>4. \A m \in 1..n : \E k \in 1..Len(more) : more[k] = m
    <3>1. ASSUME NEW m \in 1..n PROVE \E k \in 1..Len(more) : more[k] = m
      <4>1. PICK k \in 1..Len(logs) : logs[k] = m
        BY <1>1
      <4>2. k \in 1..Len(more)
        BY <1>2, <2>1
      <4> QED
        BY <2>1, <4>1, <4>2
    <3> QED
      BY <3>1
  <2>5. InTurn(more, n)
    BY <1>1, <2>1, <2>3, <2>4, InTurnMeans
  <2> QED
    BY <2>5 DEF more
<1> QED
  BY <1>3, <1>4

\* A line that comes first and is not the handler's changes nothing.
LEMMA InTurnAfter ==
  ASSUME NEW logs \in Seq(Nat), NEW n \in Nat, InTurn(logs, n)
  PROVE  <<0>> \o logs \in Seq(Nat) /\ InTurn(<<0>> \o logs, n)
<1> DEFINE more == <<0>> \o logs
<1>1. /\ \A k \in 1..Len(logs) : logs[k] > 0 => logs[k] \in 1..n
      /\ \A m \in 1..n : \E k \in 1..Len(logs) : logs[k] = m
      /\ \A j, k \in 1..Len(logs) :
            logs[j] > 0 /\ logs[k] > 0 /\ j < k => logs[j] < logs[k]
  BY InTurnMeans
<1>2. Len(logs) \in Nat
  BY LenProperties
<1>3. /\ more \in Seq(Nat) /\ Len(more) = 1 + Len(logs)
      /\ \A k \in 1..(1 + Len(logs)) : more[k] = IF k <= 1 THEN 0 ELSE logs[k - 1]
  <2>1. <<0>> \in Seq(Nat) /\ Len(<<0>>) = 1 /\ <<0>>[1] = 0
    OBVIOUS
  <2>2. /\ more \in Seq(Nat) /\ Len(more) = 1 + Len(logs)
        /\ \A k \in 1..(1 + Len(logs)) : more[k] = IF k <= 1 THEN <<0>>[k] ELSE logs[k - 1]
    BY <2>1, ConcatProperties
  <2> QED
    BY <2>1, <2>2
<1> HIDE DEF more
<1>4. \A k \in 1..Len(more) : more[k] > 0 => k - 1 \in 1..Len(logs) /\ more[k] = logs[k - 1]
  BY <1>2, <1>3
<1>5. ASSUME NEW m \in 1..n PROVE \E k \in 1..Len(more) : more[k] = m
  <2>1. PICK k \in 1..Len(logs) : logs[k] = m
    BY <1>1
  <2>2. /\ k + 1 \in 1..(1 + Len(logs)) /\ k + 1 \in 1..Len(more)
        /\ ~(k + 1 <= 1) /\ (k + 1) - 1 = k
    BY <1>2, <1>3
  <2>3. more[k + 1] = logs[k]
    BY <1>3, <2>2
  <2> QED
    BY <2>1, <2>2, <2>3
<1>6. \A j, k \in 1..Len(more) :
         more[j] > 0 /\ more[k] > 0 /\ j < k => more[j] < more[k]
  <2>1. ASSUME NEW j \in 1..Len(more), NEW k \in 1..Len(more),
               more[j] > 0, more[k] > 0, j < k
        PROVE  more[j] < more[k]
    <3>1. /\ j - 1 \in 1..Len(logs) /\ more[j] = logs[j - 1]
          /\ k - 1 \in 1..Len(logs) /\ more[k] = logs[k - 1]
      BY <1>4, <2>1
    <3>2. j - 1 < k - 1
      BY <2>1
    <3> QED
      BY <1>1, <2>1, <3>1, <3>2
  <2> QED
    BY <2>1
<1>7. InTurn(more, n)
  <2>1. \A k \in 1..Len(more) : more[k] > 0 => more[k] \in 1..n
    BY <1>1, <1>4
  <2>2. \A m \in 1..n : \E k \in 1..Len(more) : more[k] = m
    BY <1>5
  <2> QED
    BY <1>3, <1>6, <2>1, <2>2, InTurnMeans
<1> QED
  BY <1>3, <1>7 DEF more

\* What a step of the store does to the logs.
LEMMA LogSteps ==
  ASSUME StoreIInv, [Next]_vars
  PROVE  \/ UNCHANGED <<serverLogs, logged>>
         \/ /\ server \in {"handler", "handled"} /\ logged' = logged + 1
            /\ serverLogs' = IF serverDebug THEN Append(serverLogs, logged + 1)
                             ELSE serverLogs
            /\ UNCHANGED <<callerVars, serverVars>>
         \/ /\ logged' = logged
            /\ serverLogs' = IF serverDebug THEN Append(serverLogs, 0) ELSE serverLogs
            /\ UNCHANGED <<callerVars, serverVars>>
<1>1. ASSUME NEW g \in Goroutine, Logs(g), UNCHANGED <<callerVars, serverVars>>
      PROVE  \/ /\ server \in {"handler", "handled"} /\ logged' = logged + 1
                /\ serverLogs' = IF serverDebug THEN Append(serverLogs, logged + 1)
                                 ELSE serverLogs
             \/ /\ logged' = logged
                /\ serverLogs' = IF serverDebug THEN Append(serverLogs, 0) ELSE serverLogs
  <2>1. CASE g = "handler"
    <3>1. server \in {"handler", "handled"}
      BY <1>1, <2>1 DEF Logs, StoreIInv, StoreInv, Busy
    <3> QED
      BY <1>1, <2>1, <3>1 DEF Logs
  <2>2. CASE g # "handler"
    BY <1>1, <2>2 DEF Logs
  <2> QED
    BY <2>1, <2>2
<1> QED
  BY <1>1, StoreSteps DEF storeVars, basicUnaryServerInterceptor, CopyContext, AddLogFields,
                          Logger, FieldsAdded, AppendsID

\* The invariant of the logs and answers and what it needs of the rest.
CallIInv == StoreIInv /\ ServerInv /\ AnswerInv

\* Lines that are written keep the logs in turn.
LEMMA LogsStayInTurn ==
  ASSUME CallIInv, [Next]_vars, serverDebug' = serverDebug
  PROVE  IF serverDebug THEN InTurn(serverLogs', logged') ELSE serverLogs' = <<>>
<1>1. /\ serverLogs \in Seq(Nat) /\ logged \in Nat
      /\ IF serverDebug THEN InTurn(serverLogs, logged) ELSE serverLogs = <<>>
  BY DEF CallIInv, StoreIInv, TypeOK, StoreTypeOK, ServerInv
<1>2. CASE serverDebug
  <2>1. \/ serverLogs' = serverLogs /\ logged' = logged
        \/ serverLogs' = Append(serverLogs, logged + 1) /\ logged' = logged + 1
        \/ serverLogs' = Append(serverLogs, 0) /\ logged' = logged
    BY <1>2, LogSteps DEF CallIInv
  <2> QED
    BY <1>1, <1>2, <2>1, InTurnAppend
<1>3. CASE ~serverDebug
  BY <1>1, <1>3, LogSteps DEF CallIInv
<1> QED
  BY <1>2, <1>3

\* Steps of the goroutines of the handler leave the call alone.
LEMMA CallSteps ==
  ASSUME [Next]_vars
  PROVE  \/ UNCHANGED <<callerVars, serverVars>>
         \/ CallerStep \/ ContextEnds \/ basicUnaryServerInterceptor \/ timeoutBefore
         \/ HandlerReturns \/ HandlerPanics \/ Answers
BY DEF Next, ServerStep, Uses, StoreStep, CopyContext, vars

\* Every step keeps what the server knows.
LEMMA ServerStepKeeps ==
  ASSUME CallIInv, [Next]_vars
  PROVE  ServerInv'
<1>1. ServerInv
  BY DEF CallIInv
<1>2. CASE basicUnaryServerInterceptor
  <2>1. /\ server = "incoming" /\ server' = "entered" /\ UNCHANGED callerVars
        /\ serverDebug' = callerDebug
        /\ UNCHANGED <<ctxErr, err, outcome, serverLogs, logged>>
    BY <1>2 DEF basicUnaryServerInterceptor, ServerGoes
  <2>2. serverLogs = <<>> /\ logged = 0
    BY <2>1 DEF CallIInv, StoreIInv, StoreInv
  <2>3. InTurn(serverLogs', logged')
    BY <2>1, <2>2, InTurnEmpty
  <2> QED
    BY <1>1, <2>1, <2>2, <2>3 DEF ServerInv, callerVars
<1>3. CASE ~basicUnaryServerInterceptor
  <2>1. serverDebug' = serverDebug
    BY <1>3, CallSteps DEF callerVars, serverVars, CallerStep, basicHandlerFunc, Invoke,
       GivesUp, Returns, Rendered, ContextEnds, timeoutBefore, HandlerReturns, HandlerPanics,
       Answers
  <2>2. IF serverDebug' THEN InTurn(serverLogs', logged') ELSE serverLogs' = <<>>
    BY <2>1, LogsStayInTurn
  <2>3. CASE basicHandlerFunc
    <3>1. /\ server = "none" /\ server' = "none"
          /\ UNCHANGED <<err, outcome, ctxErr>>
      BY <1>1, <2>3 DEF basicHandlerFunc, ServerInv, serverVars, CallIInv, StoreIInv
    <3> QED
      BY <1>1, <2>2, <3>1 DEF ServerInv
  <2>4. CASE Invoke
    <3>1. /\ server = "none" /\ server' \in {"none", "incoming"} /\ caller' = "waiting"
          /\ UNCHANGED <<err, outcome, ctxErr>>
      BY <1>1, <2>4 DEF Invoke, Goes, ServerInv
    <3> QED
      BY <1>1, <2>2, <3>1 DEF ServerInv
  <2>5. CASE ~basicHandlerFunc /\ ~Invoke
    <3>1. /\ UNCHANGED <<callerID, callerDebug>>
          /\ caller' \notin {"new", "handling", "waiting"} \/ caller' = caller
      BY <1>3, <2>5, CallSteps DEF callerVars, serverVars, CallerStep,
         GivesUp, Returns, Rendered, ContextEnds, timeoutBefore, HandlerReturns, HandlerPanics,
         Answers, Goes
    <3>2. \/ ctxErr' = ctxErr
          \/ ContextEnds /\ UNCHANGED <<caller, server, err, outcome>>
      BY <1>3, <2>5, CallSteps DEF serverVars, callerVars, CallerStep, GivesUp, Returns,
         Rendered, ContextEnds, timeoutBefore, HandlerReturns, HandlerPanics, Answers
    <3>3. ContextEnds => /\ server # "none" /\ ctxErr = "none"
                         /\ ctxErr' = "canceled" => caller # "waiting"
      BY DEF ContextEnds
    <3>4. \/ /\ server' = server \/ (server = "handled" /\ server' = "answered")
                \/ (server = "entered" /\ server' = "handler")
             /\ err' = err /\ outcome' = outcome
          \/ /\ server \in {"entered", "handler"} /\ server' = "handled"
             /\ err' # "none"
             /\ err' = outcome' \/ outcome' = "panic" \/ ctxErr' = "canceled"
      <4>1. CASE timeoutBefore
        BY <4>1 DEF timeoutBefore, ServerGoes
      <4>2. CASE HandlerReturns
        BY <4>2 DEF HandlerReturns, ServerGoes
      <4>3. CASE HandlerPanics
        BY <4>3 DEF HandlerPanics, ServerGoes
      <4>4. CASE Answers
        BY <4>4 DEF Answers, ServerGoes
      <4>5. CASE UNCHANGED <<callerVars, serverVars>> \/ CallerStep \/ ContextEnds
        BY <2>5, <4>5 DEF serverVars, CallerStep, GivesUp, Returns, Rendered, ContextEnds
      <4> QED
        BY <1>3, <4>1, <4>2, <4>3, <4>4, <4>5, CallSteps
    <3> QED
      BY <1>1, <2>1, <2>2, <3>1, <3>2, <3>3, <3>4 DEF ServerInv
  <2> QED
    BY <2>3, <2>4, <2>5
<1> QED
  BY <1>2, <1>3

\* What the caller has in the end, of what it had at the beginning.
LEMMA AppendedInTurn ==
  ASSUME callerLogs = <<>>, NEW logs \in Seq(Nat), NEW n \in Nat, InTurn(logs, n)
  PROVE  InTurn(Appended(logs), n)
<1>1. <<>> \o <<0>> = <<0>>
  BY <<0>> \in Seq(Nat), ConcatEmptySeq
<1>2. Appended(logs) = <<0>> \o logs
  BY <1>1 DEF Appended
<1> QED
  BY <1>2, InTurnAfter

\* Every step keeps the answer true.
LEMMA AnswerStepKeeps ==
  ASSUME CallIInv, [Next]_vars
  PROVE  AnswerInv'
<1>1. AnswerInv /\ ServerInv /\ TypeOK /\ CallTypeOK
  BY DEF CallIInv, StoreIInv, TypeOK
<1>2. server = "answered" => logged' = logged
  BY LogSteps DEF CallIInv, StoreIInv
<1>3. answer # Nothing => server = "answered"
  BY <1>1 DEF AnswerInv
<1>4. CASE UNCHANGED <<caller, callerLogs, result, answer, callerID, callerDebug>>
           /\ (server = "answered" <=> server' = "answered")
           /\ (server = "answered" => UNCHANGED <<err, outcome, serverDebug>>)
  <2>1. \/ result \notin {"nil", "failed", "canceled"}
        \/ server = "answered"
    BY <1>1, <1>3 DEF AnswerInv
  <2>2. AnswersAreTrue'
    <3>1. CASE result \notin {"nil", "failed", "canceled"}
      BY <1>1, <1>4, <3>1 DEF AnswerInv, AnswersAreTrue
    <3>2. CASE server = "answered"
      BY <1>1, <1>2, <1>4, <3>2 DEF AnswerInv, AnswersAreTrue
    <3> QED
      BY <2>1, <3>1, <3>2
  <2> QED
    BY <1>1, <1>2, <1>4, <2>2 DEF AnswerInv
<1>5. CASE basicHandlerFunc
  <2>1. /\ caller = "new" /\ caller' = "handling"
        /\ UNCHANGED <<callerLogs, result, server, answer, logged>>
    BY <1>5 DEF basicHandlerFunc, Goes, serverVars, storeVars
  <2>2. server = "none" /\ answer = Nothing /\ result = "none" /\ callerLogs = <<>>
    BY <1>1, <2>1 DEF ServerInv, AnswerInv
  <2> QED
    BY <2>1, <2>2, InTurnEmpty DEF AnswerInv, AnswersAreTrue
<1>6. CASE Invoke
  <2>1. /\ caller = "handling" /\ caller' = "waiting" /\ server' \in {"none", "incoming"}
        /\ UNCHANGED <<callerLogs, result, answer, logged>>
    BY <1>6 DEF Invoke, Goes, storeVars
  <2>2. answer = Nothing /\ result = "none" /\ callerLogs = <<>>
    BY <1>1, <2>1 DEF ServerInv, AnswerInv
  <2> QED
    BY <2>1, <2>2, InTurnEmpty DEF AnswerInv, AnswersAreTrue
<1>7. CASE GivesUp
  <2>1. /\ caller = "waiting" /\ caller' = "returned" /\ result' = "timeout"
        /\ callerLogs' = IF callerDebug THEN Appended(<<>>) ELSE callerLogs
        /\ UNCHANGED <<serverVars, logged>>
    BY <1>7 DEF GivesUp, Goes, storeVars
  <2>2. callerLogs = <<>>
    BY <1>1, <2>1 DEF AnswerInv
  <2>3. InTurn(callerLogs', 0)
    <3>1. <<>> \in Seq(Nat) /\ 0 \in Nat
      OBVIOUS
    <3> QED
      BY <2>1, <2>2, <3>1, InTurnEmpty, AppendedInTurn
  <2> QED
    BY <1>1, <2>1, <2>3 DEF AnswerInv, AnswersAreTrue, serverVars
<1>8. CASE Returns
  <2>1. /\ caller = "waiting" /\ answer # Nothing
        /\ caller' = "returned" /\ result' = answer.err
        /\ callerLogs' = IF callerDebug THEN Appended(answer.logs) ELSE callerLogs
        /\ UNCHANGED <<serverVars, logged, callerID, callerDebug>>
    BY <1>8 DEF Returns, Goes, storeVars
  <2>2. /\ callerLogs = <<>> /\ server = "answered" /\ answer.err = err
        /\ InTurn(answer.logs, IF serverDebug THEN logged ELSE 0)
    BY <1>1, <1>3, <2>1 DEF AnswerInv
  <2>3. /\ serverDebug = callerDebug
        /\ err # "none" /\ (outcome # "panic" => err = outcome)
    BY <1>1, <2>1, <2>2 DEF ServerInv
  <2>4. result' \in {"nil", "failed", "canceled"}
    BY <1>1, <2>1, <2>2, <2>3 DEF CallTypeOK
  <2>5. InTurn(callerLogs', IF callerDebug THEN logged ELSE 0)
    <3>1. answer.logs \in Seq(Nat) /\ logged \in Nat
      BY <1>1 DEF TypeOK, CallTypeOK, StoreTypeOK
    <3>2. CASE callerDebug
      BY <2>1, <2>2, <2>3, <3>1, <3>2, AppendedInTurn
    <3>3. CASE ~callerDebug
      BY <2>1, <2>2, <3>3, InTurnEmpty
    <3> QED
      BY <3>2, <3>3
  <2>6. AnswersAreTrue'
    <3>1. InTurn(callerLogs', IF callerDebug' /\ result' \in {"nil", "failed", "canceled"}
                              THEN logged' ELSE 0)
      BY <2>1, <2>4, <2>5
    <3> QED
      BY <2>1, <2>2, <2>3, <3>1 DEF AnswersAreTrue, serverVars
  <2> QED
    BY <1>1, <2>1, <2>2, <2>6 DEF AnswerInv, serverVars
<1>9. CASE Rendered
  <2>1. /\ caller = "returned" /\ caller' \in {"rendered", "recovered"}
        /\ UNCHANGED <<callerID, callerDebug, callerLogs, result, serverVars, logged>>
    BY <1>9 DEF Rendered, storeVars
  <2> QED
    BY <1>1, <2>1 DEF AnswerInv, AnswersAreTrue, serverVars
<1>10. CASE Answers
  <2>1. /\ server = "handled" /\ server' = "answered"
        /\ answer' = [err |-> err, logs |-> Trailer]
        /\ UNCHANGED <<callerVars, err, serverDebug, outcome, logged>>
    BY <1>10 DEF Answers, ServerGoes, storeVars
  <2>2. answer = Nothing /\ result \notin {"nil", "failed", "canceled"}
    BY <1>1, <2>1 DEF AnswerInv
  <2>3. InTurn(Trailer, IF serverDebug THEN logged ELSE 0)
    BY <1>1, InTurnEmpty DEF ServerInv, Trailer
  <2>4. AnswersAreTrue'
    BY <1>1, <2>1, <2>2 DEF AnswerInv, AnswersAreTrue, callerVars
  <2> QED
    BY <1>1, <2>1, <2>2, <2>3, <2>4 DEF AnswerInv, callerVars
<1>11. CASE ContextEnds \/ basicUnaryServerInterceptor \/ timeoutBefore
            \/ HandlerReturns \/ HandlerPanics \/ UNCHANGED <<callerVars, serverVars>>
  <2>1. UNCHANGED <<caller, callerLogs, result, answer, callerID, callerDebug>>
    BY <1>11 DEF callerVars, serverVars, ContextEnds, basicUnaryServerInterceptor,
       timeoutBefore, HandlerReturns, HandlerPanics
  <2>2. /\ server = "answered" <=> server' = "answered"
        /\ server = "answered" => UNCHANGED <<err, outcome, serverDebug>>
    BY <1>11 DEF serverVars, ContextEnds, basicUnaryServerInterceptor, timeoutBefore,
       HandlerReturns, HandlerPanics, ServerGoes
  <2> QED
    BY <1>4, <2>1, <2>2
<1> QED
  BY <1>5, <1>6, <1>7, <1>8, <1>9, <1>10, <1>11, CallSteps DEF CallerStep

(***************************************************************************)
(* Lines.                                                                  *)
(***************************************************************************)

\* What is appended to a line of fields.
LEMMA Appendings ==
  ASSUME NEW q \in Seq(Field), NEW f \in Field
  PROVE  /\ BaseFields \in Seq(Field)
         /\ Append(BaseFields \o q, f) = BaseFields \o Append(q, f)
         /\ Append(BaseFields \o q, "elapsed") = BaseFields \o q \o <<"elapsed">>
         /\ Append(BaseFields \o q \o <<"elapsed">>, "requestId")
               = BaseFields \o q \o <<"elapsed", "requestId">>
<1> DEFINE p == BaseFields \o q
<1>1. /\ BaseFields \in Seq(Field) /\ "elapsed" \in Field /\ "requestId" \in Field
      /\ <<f>> \in Seq(Field) /\ <<"elapsed">> \in Seq(Field) /\ <<"requestId">> \in Seq(Field)
  BY DEF BaseFields, Field
<1>2. p \in Seq(Field)
  BY <1>1, ConcatProperties
<1>3. Append(p, f) = BaseFields \o Append(q, f)
  <2>1. Append(p, f) = p \o <<f>> /\ Append(q, f) = q \o <<f>>
    BY <1>2, AppendIsConcat
  <2> QED
    BY <1>1, <2>1, ConcatAssociative
<1> HIDE DEF p
<1>4. Append(p, "elapsed") = p \o <<"elapsed">>
  BY <1>1, <1>2, AppendIsConcat
<1>5. Append(p \o <<"elapsed">>, "requestId") = p \o <<"elapsed", "requestId">>
  <2>1. p \o <<"elapsed">> \in Seq(Field)
    BY <1>1, <1>2, ConcatProperties
  <2>2. Append(p \o <<"elapsed">>, "requestId") = (p \o <<"elapsed">>) \o <<"requestId">>
    BY <1>1, <2>1, AppendIsConcat
  <2>3. <<"elapsed">> \o <<"requestId">> = <<"elapsed", "requestId">>
    <3> DEFINE a == <<"elapsed">>
    <3> DEFINE b == <<"requestId">>
    <3> DEFINE c == <<"elapsed", "requestId">>
    <3>1. c \in Seq(Field) /\ Len(c) = 2 /\ c[1] = "elapsed" /\ c[2] = "requestId"
      BY <1>1
    <3>2. /\ a \in Seq(Field) /\ Len(a) = 1 /\ a[1] = "elapsed"
          /\ b \in Seq(Field) /\ Len(b) = 1 /\ b[1] = "requestId"
      BY <1>1
    <3> HIDE DEF a, b, c
    <3>3. /\ a \o b \in Seq(Field) /\ Len(a \o b) = 2
          /\ \A i \in 1..2 : (a \o b)[i] = IF i <= 1 THEN a[i] ELSE b[i - 1]
      BY <3>2, ConcatProperties
    <3>4. \A i \in 1..2 : (a \o b)[i] = c[i]
      <4>1. (a \o b)[1] = c[1] /\ (a \o b)[2] = c[2]
        BY <3>1, <3>2, <3>3
      <4>2. \A i \in 1..2 : i = 1 \/ i = 2
        OBVIOUS
      <4> QED
        BY <4>1, <4>2
    <3>5. a \o b = c
      BY <3>1, <3>3, <3>4, SeqEqual
    <3> QED
      BY <3>5 DEF a, b, c
  <2> QED
    BY <1>1, <1>2, <2>2, <2>3, ConcatAssociative
<1> QED
  BY <1>1, <1>3, <1>4, <1>5 DEF p

\* The invariants that lines need.
LineIInv == StoreIInv /\ AloneInv

\* Goroutines that do nothing but what is proved here.
LEMMA AloneSame ==
  ASSUME AloneInv, UNCHANGED <<logFields, arrays, op, view, overlapped, added, owed, line>>
  PROVE  AloneInv'
BY DEF AloneInv, Busy, Elems, Appending

\* An operation that begins alone finds the fields of the store, and leaves them.
LEMMA AloneBegins ==
  ASSUME LineIInv, NEW g \in Goroutine, NEW o \in {"adds", "elapsed"}, NEW x \in Field,
         ~Busy(g), Does(g, o), Overlaps(g), AppendTo(g, logFields, x), logFields # NoSlice,
         UNCHANGED <<logFields, added, line>>,
         \/ o = "adds" /\ x = g /\ owed' = owed
         \/ o = "elapsed" /\ x = "elapsed" /\ owed' = [owed EXCEPT ![g] = added]
  PROVE  AloneInv'
<1> SUFFICES ASSUME ~overlapped' PROVE AloneInv'
  BY DEF AloneInv
<1>1. ~overlapped /\ \A f \in Goroutine : ~Busy(f)
  BY DEF Overlaps
<1>2. /\ StoreIInv /\ TypeOK /\ StoreTypeOK
      /\ Read(arrays, logFields) = BaseFields \o added
      /\ \A f \in Goroutine : op[f] \in {"none", "adds"} /\ line[f] # <<>> =>
            line[f] = BaseFields \o owed[f] \o <<"elapsed", "requestId">>
  BY <1>1 DEF LineIInv, AloneInv, Elems, Read, StoreIInv, TypeOK
<1>3. Within(arrays, logFields) /\ logFields.len < MaxFields
  BY <1>2, RoomForMore DEF StoreIInv
<1>4. /\ Read(arrays', view'[g]) = Append(BaseFields \o added, x)
      /\ Read(arrays', logFields) = BaseFields \o added
  <2>1. /\ Read(arrays', view'[g]) = Append(Read(arrays, logFields), x)
        /\ \A t : /\ Within(arrays, t) /\ t.array \in InUse(g)
                  /\ t.array = logFields.array => t.len <= logFields.len
                  => Read(arrays', t) = Read(arrays, t)
    BY <1>2, <1>3, AppendToAppends
  <2>2. logFields.array \in InUse(g) /\ logFields.len <= logFields.len
    BY <1>2, RequestsAssumption DEF InUse, StoreTypeOK, Slice, MaxFields, BaseFields
  <2> QED
    BY <1>2, <1>3, <2>1, <2>2
<1>5. op'[g] = o /\ \A f \in Goroutine \ {g} : op'[f] = op[f] /\ ~Busy(f)'
  BY <1>1, <1>2 DEF StoreTypeOK, Does, Busy
<1>6. added \in Seq(Field) /\ g \in Field
  BY <1>2, SeqMonotonic DEF StoreTypeOK, Field
<1>7. Read(arrays', view'[g]) = Appending(g)'
  <2>1. CASE o = "adds"
    BY <1>4, <1>5, <1>6, <2>1, Appendings DEF Appending
  <2>2. CASE o = "elapsed"
    BY <1>4, <1>5, <1>6, <2>2, Appendings DEF Appending
  <2> QED
    BY <2>1, <2>2
<1>8. \A f \in Goroutine : op'[f] \in {"elapsed", "requestId"} => owed'[f] = added'
  BY <1>2, <1>5 DEF Busy, StoreTypeOK
<1>9. ASSUME NEW f \in Goroutine, op'[f] \in {"none", "adds"}, line'[f] # <<>>
      PROVE  line'[f] = BaseFields \o owed'[f] \o <<"elapsed", "requestId">>
  <2>1. op[f] \in {"none", "adds"} /\ owed'[f] = owed[f]
    <3>1. CASE f = g
      BY <1>5, <1>9, <3>1 DEF Busy
    <3>2. CASE f # g
      BY <1>2, <1>5, <1>9, <3>2 DEF StoreTypeOK
    <3> QED
      BY <3>1, <3>2
  <2> QED
    BY <1>2, <1>9, <2>1
<1> QED
  BY <1>4, <1>5, <1>7, <1>8, <1>9 DEF AloneInv, Elems, Read

\* Every step keeps the lines whole as long as no two goroutines use the store at a time.
LEMMA AloneStepKeeps ==
  ASSUME LineIInv, [Next]_vars
  PROVE  AloneInv'
<1>0. /\ StoreIInv /\ TypeOK /\ StoreTypeOK /\ AloneInv /\ RoomInv /\ StoreInv
      /\ "handler" \in Goroutine
  BY DEF LineIInv, StoreIInv, TypeOK, Goroutine
<1>1. CASE UNCHANGED storeVars
  BY <1>0, <1>1, AloneSame DEF storeVars
<1>2. CASE basicUnaryServerInterceptor
  <2>1. /\ logFields = NoSlice
        /\ UNCHANGED <<op, view, overlapped, added, owed, line>>
        /\ arrays' = [arrays EXCEPT ![1] = Padded(BaseFields)]
        /\ logFields' = [array |-> 1, len |-> Len(BaseFields)]
    BY <1>0, <1>2 DEF basicUnaryServerInterceptor, StoreInv
  <2>2. /\ added = <<>> /\ \A g \in Goroutine : ~Busy(g)
    BY <1>0, <2>1, StoreInUse DEF StoreInv
  <2>3. /\ BaseFields \in Seq(Field) /\ Len(BaseFields) = 3 /\ 3 \in 1..MaxFields
    BY RequestsAssumption DEF BaseFields, Field, MaxFields
  <2>4. /\ Padded(BaseFields) \in Seq(Field) /\ 3 <= Len(Padded(BaseFields))
        /\ \A i \in 1..3 : Padded(BaseFields)[i] = BaseFields[i]
    BY <2>3, PaddedProperties
  <2>5. arrays' \in Arrays /\ arrays'[1] = Padded(BaseFields)
    <3> DEFINE q == Padded(BaseFields)
    <3>1. arrays \in [1..4 -> Seq(Field)] /\ 1 \in 1..4
      BY <1>0 DEF StoreTypeOK
    <3>2. q \in Seq(Field) /\ arrays' = [arrays EXCEPT ![1] = q]
      BY <2>1, <2>4
    <3> HIDE DEF q
    <3>3. arrays' \in [1..4 -> Seq(Field)] /\ arrays'[1] = q
      BY <3>1, <3>2
    <3> QED
      BY <3>3 DEF Arrays, q
  <2>6. Within(arrays', logFields')
    BY <2>1, <2>3, <2>4, <2>5 DEF Slice, Within
  <2>7. /\ Read(arrays', logFields') \in Seq(Field) /\ Len(Read(arrays', logFields')) = 3
        /\ \A i \in 1..3 : Read(arrays', logFields')[i] = Padded(BaseFields)[i]
    <3>1. logFields'.len = 3 /\ logFields'.array = 1
      BY <2>1, <2>3
    <3>2. /\ Read(arrays', logFields') \in Seq(Field)
          /\ Len(Read(arrays', logFields')) = logFields'.len
          /\ \A i \in 1..logFields'.len :
                Read(arrays', logFields')[i] = arrays'[logFields'.array][i]
      BY <2>5, <2>6, ReadProperties
    <3> QED
      BY <2>5, <3>1, <3>2
  <2>8. Read(arrays', logFields') = BaseFields
    BY <2>3, <2>4, <2>7, SeqEqual
  <2>9. BaseFields \o added' = BaseFields
    BY <2>1, <2>2, <2>3, ConcatEmptySeq
  <2> QED
    BY <1>0, <2>1, <2>2, <2>8, <2>9 DEF AloneInv, Elems, Read, Busy
<1>3. CASE CopyContext
  BY <1>0, <1>3, AloneSame DEF CopyContext
<1>4. ASSUME NEW g \in Goroutine, Uses(g) PROVE logFields # NoSlice
  BY <1>0, <1>4, StoreInUse DEF Uses
<1>5. ASSUME NEW g \in Goroutine, Uses(g), AddLogFields(g) PROVE AloneInv'
  <2>1. g \in Field
    BY DEF Field
  <2> QED
    BY <1>4, <1>5, <2>1, AloneBegins DEF AddLogFields
<1>6. ASSUME NEW g \in Goroutine, Logger(g), logFields # NoSlice PROVE AloneInv'
  <2>1. "elapsed" \in Field
    BY DEF Field
  <2> QED
    BY <1>6, <2>1, AloneBegins DEF Logger
<1>7. CASE /\ server \in {"entered", "handler"} /\ server' = "handled"
           /\ Logger("handler") /\ UNCHANGED ops
  BY <1>0, <1>6, <1>7, StoreInUse
<1>8. ASSUME NEW g \in Goroutine, FieldsAdded(g) PROVE AloneInv'
  <2> SUFFICES ASSUME ~overlapped' PROVE AloneInv'
    BY DEF AloneInv
  <2>1. /\ op[g] = "adds" /\ Busy(g) /\ Does(g, "none") /\ logFields' = view[g]
        /\ view' = [view EXCEPT ![g] = NoSlice] /\ added' = Append(added, g)
        /\ UNCHANGED <<arrays, overlapped, owed, line>>
    BY <1>8 DEF FieldsAdded, Busy
  <2>2. /\ \A f \in Goroutine \ {g} : ~Busy(f)
        /\ Elems(view[g]) = BaseFields \o Append(added, g)
        /\ \A f \in Goroutine : op[f] \in {"none", "adds"} /\ line[f] # <<>> =>
              line[f] = BaseFields \o owed[f] \o <<"elapsed", "requestId">>
    BY <1>0, <2>1 DEF AloneInv, Appending
  <2>3. op'[g] = "none" /\ \A f \in Goroutine \ {g} : op'[f] = op[f]
    BY <1>0, <2>1 DEF StoreTypeOK, Does
  <2>4. \A f \in Goroutine : op'[f] = "none"
    BY <2>2, <2>3 DEF Busy
  <2>5. Elems(logFields)' = BaseFields \o added'
    BY <2>1, <2>2 DEF Elems
  <2>6. \A f \in Goroutine : line'[f] # <<>> =>
            line'[f] = BaseFields \o owed'[f] \o <<"elapsed", "requestId">>
    BY <2>1, <2>2, <2>4 DEF Busy
  <2> QED
    BY <2>4, <2>5, <2>6 DEF AloneInv, Busy
<1>9. ASSUME NEW g \in Goroutine, AppendsID(g) PROVE AloneInv'
  <2> SUFFICES ASSUME ~overlapped' PROVE AloneInv'
    BY DEF AloneInv
  <2>1. /\ op[g] = "elapsed" /\ Busy(g) /\ Does(g, "requestId")
        /\ AppendTo(g, view[g], "requestId") /\ "requestId" \in Field
        /\ UNCHANGED <<logFields, overlapped, added, owed, line>>
    BY <1>9 DEF AppendsID, Busy, Field
  <2>2. /\ Within(arrays, view[g]) /\ view[g].len < MaxFields
        /\ logFields # NoSlice /\ Within(arrays, logFields)
    BY <1>0, <2>1, RoomForMore, StoreInUse
  <2>3. /\ \A f \in Goroutine \ {g} : ~Busy(f)
        /\ Read(arrays, view[g]) = BaseFields \o added \o <<"elapsed">>
        /\ Read(arrays, logFields) = BaseFields \o added
        /\ owed[g] = added
        /\ \A f \in Goroutine : op[f] \in {"none", "adds"} /\ line[f] # <<>> =>
              line[f] = BaseFields \o owed[f] \o <<"elapsed", "requestId">>
    BY <1>0, <2>1, <2>2 DEF AloneInv, Appending, Elems, Read
  <2>4. added \in Seq(Field)
    BY <1>0, SeqMonotonic DEF StoreTypeOK, Field
  <2>5. logFields.len <= view[g].len
    <3>1. BaseFields \o added \in Seq(Field)
      BY <2>1, <2>4, Appendings, ConcatProperties
    <3>2. <<"elapsed">> \in Seq(Field) /\ Len(<<"elapsed">>) = 1
      BY DEF Field
    <3>3. Len(BaseFields \o added \o <<"elapsed">>) = Len(BaseFields \o added) + 1
      BY <3>1, <3>2, ConcatProperties
    <3>4. arrays \in Arrays
      BY <1>0 DEF StoreTypeOK, Arrays
    <3>5. Len(BaseFields \o added) = logFields.len /\ Len(BaseFields \o added) \in Nat
      BY <2>2, <2>3, <3>1, <3>4, ReadProperties, LenProperties
    <3>6. Len(BaseFields \o added \o <<"elapsed">>) = view[g].len
      BY <2>2, <2>3, <3>4, ReadProperties
    <3> QED
      BY <3>3, <3>5, <3>6
  <2>6. /\ Read(arrays', view'[g]) = BaseFields \o added \o <<"elapsed", "requestId">>
        /\ Read(arrays', logFields) = BaseFields \o added
    <3>1. /\ Read(arrays', view'[g]) = Append(Read(arrays, view[g]), "requestId")
          /\ \A t : /\ Within(arrays, t) /\ t.array \in InUse(g)
                    /\ t.array = view[g].array => t.len <= view[g].len
                    => Read(arrays', t) = Read(arrays, t)
      BY <1>0, <2>1, <2>2, AppendToAppends
    <3>2. logFields.array \in InUse(g)
      BY DEF InUse
    <3>3. Append(BaseFields \o added \o <<"elapsed">>, "requestId")
             = BaseFields \o added \o <<"elapsed", "requestId">>
      BY <2>1, <2>4, Appendings
    <3> QED
      BY <2>2, <2>3, <2>5, <3>1, <3>2, <3>3
  <2>7. op'[g] = "requestId" /\ \A f \in Goroutine \ {g} : op'[f] = op[f]
    BY <1>0, <2>1 DEF StoreTypeOK, Does
  <2>8. \A f \in Goroutine \ {g} : op'[f] = "none"
    BY <2>3, <2>7 DEF Busy
  <2>9. Read(arrays', view'[g]) = Appending(g)'
    BY <2>1, <2>6, <2>7 DEF Appending
  <2>10. \A f \in Goroutine : op'[f] \in {"none", "adds"} /\ line'[f] # <<>> =>
            line'[f] = BaseFields \o owed'[f] \o <<"elapsed", "requestId">>
    BY <2>1, <2>3, <2>7
  <2> QED
    BY <2>1, <2>3, <2>6, <2>7, <2>8, <2>9, <2>10 DEF AloneInv, Busy, Elems, Read
<1>10. ASSUME NEW g \in Goroutine, Logs(g) PROVE AloneInv'
  <2> SUFFICES ASSUME ~overlapped' PROVE AloneInv'
    BY DEF AloneInv
  <2>1. /\ op[g] = "requestId" /\ Busy(g) /\ Does(g, "none")
        /\ line' = [line EXCEPT ![g] = Elems(view[g])]
        /\ UNCHANGED <<logFields, arrays, overlapped, added, owed>>
    BY <1>10 DEF Logs, Busy
  <2>2. /\ \A f \in Goroutine \ {g} : ~Busy(f)
        /\ Elems(view[g]) = BaseFields \o added \o <<"elapsed", "requestId">>
        /\ owed[g] = added
        /\ logFields # NoSlice => Elems(logFields) = BaseFields \o added
        /\ \A f \in Goroutine : op[f] \in {"none", "adds"} /\ line[f] # <<>> =>
              line[f] = BaseFields \o owed[f] \o <<"elapsed", "requestId">>
    BY <1>0, <2>1 DEF AloneInv, Appending
  <2>3. op'[g] = "none" /\ \A f \in Goroutine \ {g} : op'[f] = op[f]
    BY <1>0, <2>1 DEF StoreTypeOK, Does
  <2>4. \A f \in Goroutine : op'[f] = "none"
    BY <2>2, <2>3 DEF Busy
  <2>5. Elems(logFields)' = Elems(logFields)
    BY <2>1 DEF Elems
  <2>6. ASSUME NEW f \in Goroutine, line'[f] # <<>>
        PROVE  line'[f] = BaseFields \o owed'[f] \o <<"elapsed", "requestId">>
    <3>1. CASE f = g
      BY <1>0, <2>1, <2>2, <3>1 DEF StoreTypeOK
    <3>2. CASE f # g
      BY <1>0, <2>1, <2>2, <2>6, <3>2 DEF StoreTypeOK, Busy
    <3> QED
      BY <3>1, <3>2
  <2> QED
    BY <2>1, <2>2, <2>4, <2>5, <2>6 DEF AloneInv, Busy
<1> QED
  BY <1>1, <1>2, <1>3, <1>4, <1>5, <1>6, <1>7, <1>8, <1>9, <1>10, StoreSteps

(***************************************************************************)
(* The theorems.                                                           *)
(***************************************************************************)

\* The invariant of it all.
IInv == TypeOK /\ RoomInv /\ StoreInv /\ AloneInv /\ ServerInv /\ AnswerInv

\* It holds at the beginning.
LEMMA IInvInit == Init => IInv
<1> SUFFICES ASSUME Init PROVE IInv
  OBVIOUS
<1>1. MaxOps \in Nat /\ MaxFields \in Nat /\ NoSlice \in Slice
  BY RequestsAssumption DEF MaxFields, BaseFields, NoSlice, Slice
<1>2. CallTypeOK
  <2>1. <<>> \in Seq(Nat)
    OBVIOUS
  <2>2. Nothing.err = "none" /\ Nothing.logs = <<>>
    BY DEF Nothing
  <2> QED
    BY <2>1, <2>2 DEF Init, CallTypeOK, Nothing, NoID
<1>3. StoreTypeOK
  <2>1. <<>> \in Seq(Nat) /\ <<>> \in Seq(Field) /\ <<>> \in Seq(Goroutine)
    BY EmptySeq
  <2>2. /\ op \in [Goroutine -> {"none", "adds", "elapsed", "requestId"}]
        /\ ops \in [Goroutine -> 0..MaxOps] /\ view \in [Goroutine -> Slice]
    BY <1>1 DEF Init
  <2>3. /\ arrays \in [1..4 -> Seq(Field)] /\ owed \in [Goroutine -> Seq(Goroutine)]
        /\ line \in [Goroutine -> Seq(Field)]
    BY <2>1 DEF Init
  <2>4. /\ logFields = NoSlice /\ view["handler"] = NoSlice /\ view["copy"] = NoSlice
    BY DEF Init, Goroutine
  <2>5. logFields \in Slice /\ logFields.len <= Len(BaseFields) + 2 * MaxOps
    BY <1>1, <2>4 DEF NoSlice, BaseFields
  <2>6. /\ serverLogs \in Seq(Nat) /\ logged \in Nat /\ copied \in BOOLEAN
        /\ overlapped \in BOOLEAN /\ added \in Seq(Goroutine)
    BY <2>1 DEF Init
  <2> QED
    BY <2>2, <2>3, <2>4, <2>5, <2>6 DEF StoreTypeOK
<1>4. RoomInv
  BY <1>1 DEF Init, RoomInv, Done, Adding, Busy, Goroutine, NoSlice, BaseFields
<1>5. StoreInv
  BY DEF Init, StoreInv, Busy, Goroutine
<1>6. AloneInv
  BY DEF Init, AloneInv, Busy, Goroutine
<1>7. ServerInv
  BY DEF Init, ServerInv
<1>8. AnswerInv
  BY InTurnEmpty DEF Init, AnswerInv, AnswersAreTrue
<1> QED
  BY <1>2, <1>3, <1>4, <1>5, <1>6, <1>7, <1>8 DEF IInv, TypeOK

\* Every step keeps it.
LEMMA IInvStep == IInv /\ [Next]_vars => IInv'
<1> SUFFICES ASSUME IInv, [Next]_vars PROVE IInv'
  OBVIOUS
<1>1. StoreIInv /\ LineIInv /\ CallIInv
  BY DEF IInv, StoreIInv, LineIInv, CallIInv, ServerInv
<1>2. CallTypeOK'
  BY CallTypeStep DEF IInv
<1> QED
  BY <1>1, <1>2, StoreStepKeeps, AloneStepKeeps, ServerStepKeeps, AnswerStepKeeps
     DEF IInv, TypeOK

\* It is an invariant.
LEMMA Invariant == Spec => []IInv
BY IInvInit, IInvStep, PTL DEF Spec

\* Every variable has its type: no slice of the store ends outside of its array, and
\* lines never become fields of the store (context.go:35-41, 111-137).
THEOREM TypeCorrect == Spec => []TypeOK
<1>1. IInv => TypeOK
  BY DEF IInv
<1> QED
  BY <1>1, Invariant, PTL

\* A line has its own fields, all of them and no others, unless two goroutines used the
\* store at a time, however the array behind it grows (context.go:123-125).
THEOREM LinesWhole == Spec => []LinesAreWhole
<1>1. IInv => LinesAreWhole
  BY DEF IInv, AloneInv, LinesAreWhole, Busy
<1> QED
  BY <1>1, Invariant, PTL

\* What the caller gets is what happened on the server: the lines that were written, and
\* the error of the handler unless that panicked, although an interceptor replaces it when
\* the context is canceled (grpc/server.go:204-223, client.go:126-150).
THEOREM AnswersTrue == Spec => []AnswersAreTrue
<1>1. IInv => AnswersAreTrue
  BY DEF IInv, AnswerInv
<1> QED
  BY <1>1, Invariant, PTL

=============================================================================
