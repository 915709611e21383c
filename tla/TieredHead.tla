------------------------------ MODULE TieredHead ------------------------------
(***************************************************************************)
(* The head manifest of one chain (codec/src/head.rs) and the two ways a    *)
(* writer derives its successor (src/tiered.rs): `publish` appends one L0   *)
(* run, `compact_once` folds the oldest L0 runs into a level.               *)
(*                                                                         *)
(* A run is abstracted to its block interval, its weight and the set of     *)
(* packages whose records it holds.  The digest of a run's root is a        *)
(* function of its records, so that set also names the run's objects.       *)
(***************************************************************************)
EXTENDS Integers, Sequences, FiniteSetsExt

CONSTANTS
    L0_TRIGGER,      \* L0 runs folded by one compaction (4 in the code)
    MAX_L0_BACKLOG,  \* L0 runs after which publication is refused (16)
    FANOUT,          \* capacity of a level in units of that level (8)
    MAX_LEVELS,      \* levels of a head (8)
    Hashes,          \* block hashes
    Inputs,          \* digests of package files
    Packages,        \* normalized packages a publisher may be given
    None             \* Rust's Option::None

LevelIndex == 0 .. (MAX_LEVELS - 1)

\* The weight of one unit of a level, head.rs `unit`.
unit(level) == L0_TRIGGER * FANOUT ^ level

ASSUME BoundsAssumption ==
    /\ L0_TRIGGER \in Nat \ {0}
    /\ MAX_L0_BACKLOG \in Nat /\ MAX_L0_BACKLOG >= L0_TRIGGER
    /\ FANOUT \in Nat /\ FANOUT >= 2
    /\ MAX_LEVELS \in Nat \ {0}

\* Powers are positive; the proofs need no more about them.
ASSUME UnitAssumption == \A i \in LevelIndex : unit(i) \in Nat \ {0}

\* A package: its block interval, the hash before it (None for an anchor at
\* genesis), the hash of its last block, the digest of its file, and the hash
\* its publication gate observed at the last block.  SHA-256 is taken to be
\* injective: a digest names one package file.
ASSUME PackagesAssumption ==
    /\ Packages \subseteq [first : Nat, last : Nat, preceding : Hashes \cup {None},
                           hash : Hashes, input : Inputs, gate : Hashes]
    /\ \A p \in Packages : p.first <= p.last
    /\ \A p, q \in Packages : p.input = q.input => p = q

-----------------------------------------------------------------------------

Run == [start : Nat, end : Nat, weight : Nat, pkgs : SUBSET Packages]

\* The struct Head.  `levels` is a Vec<Option<Run>> without trailing None entries; here it is a
\* function on all level indices, None beyond the vector's end.
Manifest == [number : Nat, hash : Hashes, input : Inputs,
             l0 : Seq(Run), levels : [LevelIndex -> Run \cup {None}]]

ASSUME NoneAssumption ==
    /\ None \notin Run /\ None \notin Manifest /\ None \notin Hashes
    /\ None \notin [number : Nat, hash : Hashes, input : Inputs]

NoLevels == [i \in LevelIndex |-> None]

Occupied(h) == {i \in LevelIndex : h.levels[i] # None}

\* head.rs `runs`, as a set: Contiguous below gives the order, deepest level
\* first and the L0 runs last.
runs(h) == {h.levels[i] : i \in Occupied(h)} \cup {h.l0[k] : k \in 1 .. Len(h.l0)}

\* Everything a head makes reachable, package by package.
Archived(h) == UNION {r.pkgs : r \in runs(h)}

\* The first block that level i and the deeper ones leave uncovered.
Boundary(h, i) == Max({0} \cup {h.levels[j].end + 1 : j \in {j \in Occupied(h) : j >= i}})

LevelWeightOk(h, i) ==
    \E k \in 1 .. (FANOUT - 1) : h.levels[i].weight = k * unit(i)

\* The loop over runs() in `decode`: every run starts where the older ones end.
Contiguous(h) ==
    /\ \A i \in Occupied(h) : /\ h.levels[i].start = Boundary(h, i + 1)
                              /\ h.levels[i].start <= h.levels[i].end
    /\ \A k \in 1 .. Len(h.l0) :
         /\ h.l0[k].start = IF k = 1 THEN Boundary(h, 0) ELSE h.l0[k - 1].end + 1
         /\ h.l0[k].start <= h.l0[k].end
    /\ h.number + 1 = IF h.l0 = << >> THEN Boundary(h, 0) ELSE h.l0[Len(h.l0)].end + 1

\* head.rs `decode`: what every reader and writer requires of a stored head.
\* A weight that is nonzero, a multiple of unit(i) and below unit(i) * FANOUT
\* is k units for some 0 < k < FANOUT.
Decode(h) ==
    /\ Len(h.l0) <= MAX_L0_BACKLOG
    /\ \A k \in 1 .. Len(h.l0) : h.l0[k].weight = 1
    /\ \A i \in Occupied(h) : LevelWeightOk(h, i)
    /\ Contiguous(h)

-----------------------------------------------------------------------------
(* publish *)

\* The gate names the package's last block, or publication is refused.
Admitted(p) == p.gate = p.hash

\* Variant: a package counts as published once its last block is the head's.
is_published_ByNumber(h, p) == h # None /\ h.number = p.last

is_published(h, p) ==
    /\ h # None
    /\ h.number = p.last /\ h.hash = p.hash /\ h.input = p.input

\* Variant: the hash before the package is not compared with the head's.
Extends_AnyParent(h, p) ==
    \/ h = None /\ p.preceding = None /\ p.first = 0
    \/ h # None /\ p.preceding # None /\ p.first = h.number + 1

\* An anchor starts an archive; a delta continues the head it was cut after.
Extends(h, p) ==
    \/ h = None /\ p.preceding = None /\ p.first = 0
    \/ /\ h # None /\ p.preceding # None
       /\ p.first = h.number + 1
       /\ p.preceding = h.hash

\* Variant: the limit is noticed one run too late.
BacklogFull_Late(h) == h # None /\ Len(h.l0) > MAX_L0_BACKLOG

BacklogFull(h) == h # None /\ Len(h.l0) >= MAX_L0_BACKLOG

L0Run(p) == [start |-> p.first, end |-> p.last, weight |-> 1, pkgs |-> {p}]

\* The head `publish` puts in place of h.
Published(h, p) ==
    [number |-> p.last, hash |-> p.hash, input |-> p.input,
     l0 |-> IF h = None THEN <<L0Run(p)>> ELSE Append(h.l0, L0Run(p)),
     levels |-> IF h = None THEN NoLevels ELSE h.levels]

-----------------------------------------------------------------------------
(* compact_once *)

\* The weight the cascade holds once it has taken level i.  The loop enters
\* level i with exactly unit(i): L0_TRIGGER is unit(0), and it passes a level
\* only when its weight equals unit(i) * FANOUT, which is unit(i + 1).
WeightAt(h, i) == unit(i) + (IF h.levels[i] = None THEN 0 ELSE h.levels[i].weight)

Full(h, i) == WeightAt(h, i) = unit(i) * FANOUT

\* The cascade stops at t: the levels before it are full, level t has room.
StopsAt(h, t) ==
    /\ \A i \in 0 .. (t - 1) : Full(h, i)
    /\ WeightAt(h, t) < unit(t) * FANOUT

HasTarget(h) == \E t \in LevelIndex : StopsAt(h, t)

Target(h) == CHOOSE t \in LevelIndex : StopsAt(h, t)

\* The levels the cascade takes runs from.
Taken(h) == {i \in Occupied(h) : i <= Target(h)}

\* Variant: the runs of the levels stay in the order they were taken in.
InputStart_Unreversed(h) ==
    IF Taken(h) = {} THEN h.l0[1].start
    ELSE h.levels[Min(Taken(h))].start

\* inputs[0].start: the deepest run taken, or the oldest L0 run.
InputStart(h) ==
    IF Taken(h) = {} THEN h.l0[1].start
    ELSE h.levels[Max(Taken(h))].start

\* The windows(2) check over the inputs: each ends where the next one starts.
InputsContiguous(h) ==
    /\ \A i \in Taken(h) :
         LET shallower == {j \in Taken(h) : j < i}
         IN  h.levels[i].end + 1 =
                 IF shallower = {} THEN h.l0[1].start
                 ELSE h.levels[Max(shallower)].start
    /\ \A k \in 2 .. L0_TRIGGER : h.l0[k - 1].end + 1 = h.l0[k].start

\* The records of the merged run are those of its inputs.
MergedPkgs(h) ==
    (UNION {h.levels[i].pkgs : i \in Taken(h)})
        \cup (UNION {h.l0[k].pkgs : k \in 1 .. L0_TRIGGER})

\* Variant: the merged run ends where its oldest L0 input does.
MergedRun_FirstEnd(h) ==
    [start |-> InputStart(h), end |-> h.l0[1].end,
     weight |-> WeightAt(h, Target(h)), pkgs |-> MergedPkgs(h)]

MergedRun(h) ==
    [start |-> InputStart(h), end |-> h.l0[L0_TRIGGER].end,
     weight |-> WeightAt(h, Target(h)), pkgs |-> MergedPkgs(h)]

MergedLevels(h) ==
    [i \in LevelIndex |-> IF i = Target(h) THEN MergedRun(h)
                          ELSE IF i < Target(h) THEN None ELSE h.levels[i]]

\* current is still what `planned` was merged from, up to later L0 runs.
Compatible(current, planned) ==
    /\ current.levels = planned.levels
    /\ Len(current.l0) >= L0_TRIGGER
    /\ \A k \in 1 .. L0_TRIGGER : current.l0[k] = planned.l0[k]

\* Variant: the last merged L0 run stays.
Compacted_KeepsOne(current, planned) ==
    [current EXCEPT !.l0 = SubSeq(current.l0, L0_TRIGGER, Len(current.l0)),
                    !.levels = MergedLevels(planned)]

\* The head `compact_once` puts in place of current.
Compacted(current, planned) ==
    [current EXCEPT !.l0 = SubSeq(current.l0, L0_TRIGGER + 1, Len(current.l0)),
                    !.levels = MergedLevels(planned)]

CompactionDue(h) == h # None /\ Len(h.l0) >= L0_TRIGGER
===============================================================================
