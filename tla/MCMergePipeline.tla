--------------------------- MODULE MCMergePipeline ----------------------------
(***************************************************************************)
(* TLC instances of MergePipeline: three interleaved runs, and two that     *)
(* hold the same version.                                                    *)
(***************************************************************************)
EXTENDS MergePipeline

Interleaved == <<<<1, 5, 6, 8, 9>>, <<2, 4, 7>>, <<3>>>>
Same == <<<<1, 2>>, <<2, 3>>>>
TwoInputs == {Interleaved, Same}
===============================================================================
