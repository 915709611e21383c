------------------------- MODULE MCGarbageCollection --------------------------
(***************************************************************************)
(* TLC instances of GarbageCollection.                                      *)
(***************************************************************************)
EXTENDS GarbageCollection, TLC

OneObjectRuns == {{k} : k \in Objects}

Symmetry == Permutations(Objects) \cup Permutations(Writers)
===============================================================================
