----------------------------- MODULE CascadeLoop ------------------------------
(***************************************************************************)
(* The planning loop of `compact_once` as it is written: take level after   *)
(* level while the accumulated weight fills them exactly.  TieredHead       *)
(* describes its outcome in closed form (StopsAt, WeightAt, Taken), which   *)
(* proofs can use; CascadeIsLoop compares the two on every reachable head.  *)
(***************************************************************************)
EXTENDS TieredArchive, SequencesExt

\* One iteration at `target`, then the next; `deeper` lists the runs taken so
\* far, shallowest first.
RECURSIVE cascade(_, _, _, _)
cascade(h, target, weight, deeper) ==
    IF target >= MAX_LEVELS
    THEN [result |-> "level count"]
    ELSE LET run == h.levels[target]
             heavier == IF run = None THEN weight ELSE weight + run.weight
             longer == IF run = None THEN deeper ELSE Append(deeper, run)
             capacity == unit(target) * FANOUT
         IN  CASE heavier < capacity ->
                    [result |-> "planned", target |-> target, weight |-> heavier,
                     inputs |-> Reverse(longer) \o SubSeq(h.l0, 1, L0_TRIGGER)]
               [] heavier > capacity -> [result |-> "capacity exceeded"]
               [] heavier = capacity -> cascade(h, target + 1, heavier, longer)

plan(h) == cascade(h, 0, L0_TRIGGER, << >>)

\* The loop and its closed form agree on the target, the weight, the inputs and
\* their contiguity, and the loop fails exactly when there is no target.
CascadeIsLoop ==
    CompactionDue(head) =>
        LET outcome == plan(head) IN
        /\ (outcome.result = "planned") <=> HasTarget(head)
        /\ outcome.result # "capacity exceeded"
        /\ HasTarget(head) =>
             LET inputs == outcome.inputs IN
             /\ outcome.target = Target(head)
             /\ outcome.weight = MergedRun(head).weight
             /\ inputs[1].start = MergedRun(head).start
             /\ inputs[Len(inputs)].end = MergedRun(head).end
             /\ UNION {inputs[k].pkgs : k \in 1 .. Len(inputs)} = MergedRun(head).pkgs
             /\ InputsContiguous(head) <=>
                    \A k \in 2 .. Len(inputs) : inputs[k - 1].end + 1 = inputs[k].start
===============================================================================
