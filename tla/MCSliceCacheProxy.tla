-------------------------- MODULE MCSliceCacheProxy --------------------------
(***************************************************************************)
(* Small instances of SliceCacheProxy for TLC.                             *)
(***************************************************************************)
EXTENDS SliceCacheProxy

CONSTANTS i1, p1, j1, k1, k2

Symmetry == Permutations(Reloader)
=============================================================================
