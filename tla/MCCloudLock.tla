---------------------------- MODULE MCCloudLock ----------------------------
(***************************************************************************)
(* Small instances of CloudLock for TLC.                                   *)
(***************************************************************************)
EXTENDS CloudLock

CONSTANTS c1, c2
=============================================================================
