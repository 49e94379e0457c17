----------------------------- MODULE MCRequests -----------------------------
(***************************************************************************)
(* Small instances of Requests for TLC.                                    *)
(***************************************************************************)
EXTENDS Requests

\* An array is made for four fields and then doubled.
Doubling == [n \in 1..MaxFields |-> CHOOSE c \in {4, 8, 16} :
                c >= n /\ \A d \in {4, 8, 16} : d >= n => c <= d]

\* InTurn says of logs what picking the handler's lines from them would.
ASSUME InTurnPicksLines ==
    \A l \in 0..5, n \in 0..3 : \A logs \in [1..l -> 0..3] :
        InTurn(logs, n) <=>
            SelectSeq(logs, LAMBDA k : k > 0) = [i \in 1..n |-> i]
=============================================================================
