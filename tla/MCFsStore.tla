------------------------------ MODULE MCFsStore -------------------------------
(***************************************************************************)
(* TLC instances of FsStore.                                                *)
(***************************************************************************)
EXTENDS FsStore, TLC

\* Every object in a directory of its own, as two different digests usually are.
OwnDirectory == [k \in Objects |-> k]

WriterSymmetry == Permutations(Writers)
===============================================================================
