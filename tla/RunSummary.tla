------------------------------ MODULE RunSummary ------------------------------
(***************************************************************************)
(* Membership summaries of runs (codec/src/summary.rs): sizing, the         *)
(* streaming builder with its spill of heavy groups, the shard paths, and   *)
(* the reader's probe; and the two places that build them, write_sorted and *)
(* merge_runs (src/compact.rs), over a store of create-only paths.          *)
(*                                                                         *)
(* A Bloom shard is the set of items inserted and its length.  A reader may *)
(* see any superset of the items: false positives are arbitrary.            *)
(***************************************************************************)
EXTENDS Integers, SequencesExt

CONSTANTS
    Keys,            \* state keys, ordered as numbers
    group,           \* tag and address of each key
    route,           \* the number an address hashes to, by group
    spill,           \* the number a key hashes to
    SHARD_KEYS,      \* target keys per shard (32 Ki)
    MIN_SHARD_KEYS,  \* least keys a shard is sized for (64)
    HEAVY_GROUP,     \* keys of a group that fit an address shard (4096)
    MaxBlock         \* bound: packages published

Groups == {group[k] : k \in Keys}

ASSUME SummaryAssumption ==
    /\ Keys \subseteq Nat
    /\ \A k, l, m \in Keys : k < l /\ l < m /\ group[k] = group[m] => group[l] = group[k]
    /\ route \in [Groups -> Nat] /\ spill \in [Keys -> Nat]
    /\ SHARD_KEYS \in Nat \ {0} /\ MIN_SHARD_KEYS \in Nat \ {0}
    /\ HEAVY_GROUP \in Nat /\ MaxBlock \in Nat

VARIABLES
    runs,       \* runs of the head, oldest first: records, keys, shards
    summaries,  \* stored shards: their path and contents
    collided,   \* a build found other bytes at a path it writes
    block

vars == <<runs, summaries, collided, block>>

Item(k) == <<"key", k>>
marker(g) == <<"marker", g>>

div_ceil(a, b) == (a + b - 1) \div b
AtLeast(a, b) == IF a < b THEN b ELSE a

shard_count(keys) ==
    LET needed == AtLeast(div_ceil(keys, SHARD_KEYS), 1)
    IN  CHOOSE n \in {2 ^ i : i \in 0 .. needed} :
            n >= needed /\ \A m \in {2 ^ i : i \in 0 .. needed} : m >= needed => n <= m

shard_length(keys) == AtLeast(div_ceil(keys, shard_count(keys)), MIN_SHARD_KEYS)

shard_index(g, shards) == route[g] % shards
spill_index(k, shards) == spill[k] % shards

\* The shard count is part of the path, its length is not.
shard_path(root, shards, kind, index) == <<root, shards, kind, index>>

-----------------------------------------------------------------------------
(* SummaryBuilder, on its state st *)

NewBuilder(expected) ==
    LET shards == shard_count(expected)
        empty == [i \in 0 .. (shards - 1) |-> {}]
    IN  [shards |-> shards, length |-> shard_length(expected), address |-> empty,
         spill |-> empty, group |-> "none", pending |-> {}, heavy |-> FALSE, keys |-> 0]

Spilled(st, keys) ==
    [st EXCEPT !.spill = [i \in DOMAIN st.spill |->
        st.spill[i] \cup {Item(k) : k \in {x \in keys : spill_index(x, st.shards) = i}}]]

flush(st) ==
    LET index == shard_index(st.group, st.shards)
        kept == IF st.heavy \/ st.pending = {} THEN st
                ELSE [st EXCEPT !.address[index] = @ \cup {Item(k) : k \in st.pending}]
    IN  [kept EXCEPT !.pending = {}, !.heavy = FALSE]

\* Variant: the keys seen before a group turned heavy are not spilled.
add_Forgets(st, k) ==
    LET begun == IF group[k] = st.group THEN st ELSE [flush(st) EXCEPT !.group = group[k]]
        counted == [begun EXCEPT !.keys = @ + 1]
        pending == counted.pending \cup {k}
    IN  IF counted.heavy THEN Spilled(counted, {k})
        ELSE IF Cardinality(pending) <= HEAVY_GROUP THEN [counted EXCEPT !.pending = pending]
        ELSE [Spilled(counted, {k}) EXCEPT
                 !.heavy = TRUE, !.pending = {},
                 !.address[shard_index(group[k], st.shards)] = @ \cup {marker(group[k])}]

add(st, k) ==
    LET begun == IF group[k] = st.group THEN st ELSE [flush(st) EXCEPT !.group = group[k]]
        counted == [begun EXCEPT !.keys = @ + 1]
        pending == counted.pending \cup {k}
    IN  IF counted.heavy THEN Spilled(counted, {k})
        ELSE IF Cardinality(pending) <= HEAVY_GROUP THEN [counted EXCEPT !.pending = pending]
        ELSE [Spilled(counted, pending) EXCEPT
                 !.heavy = TRUE, !.pending = {},
                 !.address[shard_index(group[k], st.shards)] = @ \cup {marker(group[k])}]

\* The summary of a record set, for an expected number of keys.
built(records, expected) ==
    flush(FoldLeft(add, NewBuilder(expected),
                   SetToSortSeq({r.key : r \in records}, LAMBDA a, b : a < b)))

\* Its shards, at their paths; the root is the records.
finish(st, root) ==
    {[path |-> shard_path(root, st.shards, "address", i), bits |-> st.address[i],
      length |-> st.length] : i \in DOMAIN st.address}
    \cup {[path |-> shard_path(root, st.shards, "spill", i), bits |-> st.spill[i],
           length |-> st.length] : i \in DOMAIN st.spill}

Collides(objects) ==
    \E o \in objects, s \in summaries : o.path = s.path /\ o # s

-----------------------------------------------------------------------------

Init ==
    /\ runs = << >>
    /\ summaries = {}
    /\ collided = FALSE
    /\ block = 0

NewRun(records, st) == [records |-> records, keys |-> st.keys, shards |-> st.shards]

\* write_sorted: the expected number of keys is exact.
Publish(keys) ==
    LET records == {[key |-> k, block |-> block + 1] : k \in keys}
        st == built(records, Cardinality(keys))
    IN
    /\ block < MaxBlock
    /\ ~Collides(finish(st, records))
    /\ block' = block + 1
    /\ summaries' = summaries \cup finish(st, records)
    /\ runs' = Append(runs, NewRun(records, st))
    /\ UNCHANGED collided

MergedRecords(i) == runs[i].records \cup runs[i + 1].records
Merged(i) == built(MergedRecords(i), runs[i].keys + runs[i + 1].keys)

\* merge_runs of two neighbours: the expected number of keys is their sum.
Merge(i) ==
    LET objects == finish(Merged(i), MergedRecords(i)) IN
    /\ ~Collides(objects)
    /\ summaries' = summaries \cup objects
    /\ runs' = SubSeq(runs, 1, i - 1) \o <<NewRun(MergedRecords(i), Merged(i))>>
               \o SubSeq(runs, i + 2, Len(runs))
    /\ UNCHANGED <<collided, block>>

\* put_immutable finds other bytes at a path: the merge fails.
MergeCollides(i) ==
    /\ Collides(finish(Merged(i), MergedRecords(i)))
    /\ collided' = TRUE
    /\ UNCHANGED <<runs, summaries, block>>

Next ==
    \/ \E keys \in SUBSET Keys : Publish(keys)
    \/ \E i \in 1 .. (Len(runs) - 1) : Merge(i)
    \/ \E i \in 1 .. (Len(runs) - 1) : MergeCollides(i)

Spec == Init /\ [][Next]_vars

-----------------------------------------------------------------------------
(* The reader's probe *)

shard(run, kind, index) ==
    CHOOSE s \in summaries : s.path = shard_path(run.records, run.shards, kind, index)

contains(s, item, false_positives) == item \in s.bits \cup false_positives

may_contain(run, k, false_positives) ==
    LET address == shard(run, "address", shard_index(group[k], run.shards))
        spilled == shard(run, "spill", spill_index(k, run.shards))
    IN  IF contains(address, Item(k), false_positives) THEN TRUE
        ELSE IF ~contains(address, marker(group[k]), false_positives) THEN FALSE
        ELSE contains(spilled, Item(k), false_positives)

\* A summary never denies a key its run holds: not in a group at the edge of
\* heavy, not with shards sized for another number of keys, and whatever the
\* false positives of the other items.
NoFalseNegative ==
    \A i \in 1 .. Len(runs), g \in SUBSET {marker(x) : x \in Groups} :
        \A r \in runs[i].records : may_contain(runs[i], r.key, g)

\* "identical run roots built with different summary sizing must not collide
\* under create-only puts"
SizingDistinct == ~collided
===============================================================================
