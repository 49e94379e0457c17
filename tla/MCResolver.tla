----------------------------- MODULE MCResolver -----------------------------
(***************************************************************************)
(* Small instances of Resolver with its ServiceRegister for TLC.           *)
(***************************************************************************)
EXTENDS Resolver

CONSTANT h1
=============================================================================
