--------------------------- MODULE MCTieredArchive ----------------------------
(***************************************************************************)
(* TLC instances of TieredArchive: a canonical chain, cut into an anchor of *)
(* two blocks and packages of one block, and packages that compete with it. *)
(* A run starts without an archive, or with one that has been growing.      *)
(***************************************************************************)
EXTENDS CascadeLoop, TLC

CONSTANTS
    LastBlock,   \* the chain's last block
    Compactions  \* compactions an archive has behind it in GrownInit

Hash(n) == <<n, "canonical">>

Cut(first, last, label) ==
    [first |-> first, last |-> last,
     preceding |-> IF first = 0 THEN None ELSE Hash(first - 1),
     hash |-> Hash(last), input |-> <<first, last, label>>, gate |-> Hash(last)]

\* The k-th package of the chain.
Nth(k) == Cut(IF k = 1 THEN 0 ELSE k, k, "epoch")

Chain == {Nth(k) : k \in 1 .. LastBlock}

\* The same blocks cut into another epoch, the same epoch exported to another
\* file, a fork its gate took for canonical, and one whose gate disagrees.
Rivals ==
    {Cut(2, 3, "epoch"), Cut(3, 3, "again"),
     [Cut(2, 2, "fork") EXCEPT !.hash = <<2, "fork">>, !.gate = <<2, "fork">>],
     [Cut(3, 3, "stale") EXCEPT !.hash = <<3, "fork">>]}

MCHashes == {Hash(n) : n \in 0 .. LastBlock} \cup {<<2, "fork">>, <<3, "fork">>}
MCInputs == {p.input : p \in Chain \cup Rivals}
ChainAndRivals == Chain \cup Rivals

\* The head after c compactions, each of them made as soon as it was due.
RECURSIVE Grown(_)
Grown(c) ==
    IF c = 0 THEN None
    ELSE LET next == [k \in 1 .. L0_TRIGGER |-> Nth((c - 1) * L0_TRIGGER + k)]
             due == FoldLeft(Published, Grown(c - 1), next)
         IN  Compacted(due, due)

\* Writers come to an archive that earlier ones have grown.
GrownInit ==
    /\ head = Grown(Compactions)
    /\ objects = IF head = None THEN {} ELSE {r.pkgs : r \in runs(head)}
    /\ acked = Contents
    /\ inflight = {} /\ faults = 0
    /\ pub = [w \in Publishers |-> IdlePublisher]
    /\ cmp = [c \in Compactors |-> IdleCompactor]

GrownSpec == GrownInit /\ [][Next]_vars /\ Fairness

Symmetry == Permutations(Publishers) \cup Permutations(Compactors)
===============================================================================
