------------------------- MODULE MCObjectCacheProxy -------------------------
(***************************************************************************)
(* Small instances of ObjectCacheProxy for TLC.                            *)
(***************************************************************************)
EXTENDS ObjectCacheProxy

CONSTANTS i1, i2, p1, p2, j1, j2, r1, r2, s1, s2

Symmetry == Permutations(Id) \cup Permutations(Publisher) \cup Permutations(Job)
            \cup Permutations(Reader) \cup Permutations(Saver)

\* The bounds of the liveness run cut off changes, reads and the beginning of a shutdown
\* only, none of which has to happen.

NothingRead == reading[r1] = {} /\ saves[s1] = {} /\ \A i \in Id : cache[i] = Absent

\* bound: three changes, of which one is of the second record; all three before the end of
\* a shutdown only if nothing is cached
FewChanges == /\ db[i2] <= 1
              /\ shutdown # "no" => db[i1] + db[i2] <= 2 \/ NothingRead

\* bound: nothing is read while something is saved
FewReads == reading[r1] = {} \/ saves[s1] = {}
=============================================================================
