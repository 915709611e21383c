----------------------------- MODULE MCRunSummary -----------------------------
(***************************************************************************)
(* TLC instances of RunSummary: an account of one key, an account of three  *)
(* keys, which is heavy, and hashes that spread over two shards.            *)
(***************************************************************************)
EXTENDS RunSummary

TwoGroups == [k \in Keys |-> IF k = 1 THEN "g1" ELSE "g2"]
Routes == [g \in Groups |-> IF g = "g1" THEN 0 ELSE 1]
Spills == [k \in Keys |-> k]
===============================================================================
