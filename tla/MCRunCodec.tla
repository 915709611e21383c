------------------------------ MODULE MCRunCodec ------------------------------
(***************************************************************************)
(* TLC instances of RunCodec: keys alternate between the partitions, and    *)
(* one key is long, so that its fence takes two units.                      *)
(***************************************************************************)
EXTENDS RunCodec

Alternate == [k \in Keys |-> 1 + (k % PARTITIONS)]
LongFirst == [k \in Keys |-> IF k = 1 THEN 2 ELSE 1]
===============================================================================
