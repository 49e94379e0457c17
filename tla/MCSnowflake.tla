---------------------------- MODULE MCSnowflake ----------------------------
(***************************************************************************)
(* Small instances of Snowflake for TLC.                                   *)
(***************************************************************************)
EXTENDS Snowflake, TLC

CONSTANTS p1, p2, p3, c1, c2

ProcSymmetry == Permutations(Proc) \cup Permutations(Caller)

\* Worker ids given to InitIDGenerator: none, or two the code accepts.
NoManual  == {}
TwoManual == {1, 5}
=============================================================================
