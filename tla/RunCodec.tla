------------------------------- MODULE RunCodec -------------------------------
(***************************************************************************)
(* One sorted run (codec/src/run.rs): RunBuilder::build streams records     *)
(* into data pages, fence leaves and at most one internal fence root per    *)
(* partition; RunReader::lookup reads one path of that tree, `walk` lists   *)
(* it, and RunScanner streams the records back.                             *)
(*                                                                         *)
(* An object is its contents and a reference to it is the object itself:    *)
(* SHA-256 is taken to be injective and compression to be invisible.        *)
(***************************************************************************)
EXTENDS Integers, SequencesExt

CONSTANTS
    Keys,             \* state keys, ordered as numbers
    Blocks,           \* block numbers
    Sizes,            \* encoded sizes of a record
    PARTITIONS,       \* hash partitions of a run (16)
    partition,        \* the partition of each key
    MAX_PAGE_BYTES,   \* bound on the records of a data page
    MAX_INDEX_BYTES,  \* bound on the fences of an index object
    FenceBytes,       \* encoded size of a fence, by key
    None

Partitions == 1 .. PARTITIONS

ASSUME CodecAssumption ==
    /\ Keys \subseteq Nat /\ Blocks \subseteq Nat
    /\ Sizes \subseteq Nat \ {0}
    /\ PARTITIONS \in Nat \ {0}
    /\ partition \in [Keys -> Partitions]
    /\ MAX_PAGE_BYTES \in Nat /\ MAX_INDEX_BYTES \in Nat
    /\ FenceBytes \in [Keys -> Nat]

Record == [key : Keys, block : Blocks, size : Sizes]

\* The order of (key, block) pairs.
Before(a, b) == a.key < b.key \/ (a.key = b.key /\ a.block < b.block)
AtOrBefore(a, b) == ~Before(b, a)

StrictlySorted(s) == \A i \in 1 .. (Len(s) - 1) : Before(s[i], s[i + 1])

DataPage(records) == [kind |-> "page", content |-> records]
FenceLeaf(fences) == [kind |-> "leaf", content |-> fences]
InternalRoot(fences) == [kind |-> "internal", content |-> fences]
Fence(first, object) == [key |-> first.key, block |-> first.block, data |-> object]

page_size(records) == FoldLeft(LAMBDA sum, r : sum + r.size, 0, records)
index_size(fences) == FoldLeft(LAMBDA sum, f : sum + FenceBytes[f.key], 0, fences)

VARIABLES
    bld,   \* the builder: open pages, leaves and parents, and what it emitted
    root,  \* the emitted run root: an index object or None per partition
    scan,  \* the scanner: a cursor per partition, what it returned, its flag
    phase

vars == <<bld, root, scan, phase>>

-----------------------------------------------------------------------------
(* RunBuilder::build, on the builder's state st *)

Bail(st) == [st EXCEPT !.failed = TRUE]

emit(st, object) == [st EXCEPT !.emitted = Append(@, object)]

emit_leaf(st, p) ==
    LET leaf == FenceLeaf(st.leaves[p])
        entry == Fence(st.leaves[p][1], leaf)
        parents == Append(st.parents[p], entry)
    IN  IF \/ st.parents[p] # << >> /\ ~Before(Last(st.parents[p]), entry)
           \/ index_size(parents) > MAX_INDEX_BYTES
        THEN Bail(st)
        ELSE emit([st EXCEPT !.parents[p] = parents, !.leaves[p] = << >>], leaf)

\* Variant: the fence that did not fit is forgotten.
append_leaf_fence_Lost(st, p, fence) ==
    LET pushed == Append(st.leaves[p], fence)
    IN  IF index_size(pushed) <= MAX_INDEX_BYTES THEN [st EXCEPT !.leaves[p] = pushed]
        ELSE IF st.leaves[p] = << >> THEN Bail(st)
        ELSE emit_leaf(st, p)

\* A leaf that would grow beyond its bound is emitted without the new fence.
append_leaf_fence(st, p, fence) ==
    LET pushed == Append(st.leaves[p], fence)
        closed == emit_leaf(st, p)
    IN  IF index_size(pushed) <= MAX_INDEX_BYTES THEN [st EXCEPT !.leaves[p] = pushed]
        ELSE IF st.leaves[p] = << >> THEN Bail(st)
        ELSE IF closed.failed \/ index_size(<<fence>>) > MAX_INDEX_BYTES THEN Bail(closed)
        ELSE [closed EXCEPT !.leaves[p] = <<fence>>]

\* Variant: the leaf with the page's fence is emitted before the page.
flush_page_FenceFirst(st, p) ==
    LET page == DataPage(st.pages[p])
        fenced == append_leaf_fence(st, p, Fence(st.pages[p][1], page))
        closed == IF fenced.leaves[p] = << >> THEN fenced ELSE emit_leaf(fenced, p)
    IN  [emit(closed, page) EXCEPT !.pages[p] = << >>]

flush_page(st, p) ==
    LET page == DataPage(st.pages[p])
        fenced == append_leaf_fence(emit(st, page), p, Fence(st.pages[p][1], page))
    IN  [fenced EXCEPT !.pages[p] = << >>]

\* One turn of the loop over the records.
add(st, r) ==
    LET p == partition[r.key]
        fits == page_size(st.pages[p]) + r.size <= MAX_PAGE_BYTES
        opened == IF fits THEN st ELSE flush_page(st, p)
    IN  IF \/ st.added # << >> /\ ~Before(Last(st.added), r)
           \/ r.size > MAX_PAGE_BYTES
        THEN Bail(st)
        ELSE IF opened.failed THEN opened
        ELSE [opened EXCEPT !.pages[p] = Append(@, r), !.added = Append(@, r)]

\* What is still open in a partition when the records end.
close(st, p) ==
    LET flushed == IF st.pages[p] = << >> THEN st ELSE flush_page(st, p)
    IN  IF flushed.failed \/ flushed.leaves[p] = << >> THEN flushed ELSE emit_leaf(flushed, p)

closed_all(st) ==
    FoldLeft(LAMBDA s, p : IF s.failed THEN s ELSE close(s, p), st, [p \in Partitions |-> p])

\* The root refers to a partition's only leaf, or to an internal fence root.
root_of(st) ==
    [p \in Partitions |->
        CASE Len(st.parents[p]) = 0 -> None
          [] Len(st.parents[p]) = 1 -> st.parents[p][1].data
          [] OTHER -> InternalRoot(st.parents[p])]

emit_roots(st) ==
    FoldLeft(LAMBDA s, p : IF Len(s.parents[p]) > 1 THEN emit(s, InternalRoot(s.parents[p]))
                           ELSE s,
             st, [p \in Partitions |-> p])

-----------------------------------------------------------------------------
(* RunReader *)

\* decode_index and parse_data_payload accept sorted entries of one partition.
Decodes(object, p) ==
    /\ object.content # << >>
    /\ StrictlySorted(object.content)
    /\ \A i \in 1 .. Len(object.content) : partition[object.content[i].key] = p

\* Variant: entries equal to the target are not counted.
partition_point_Strict(entries, target) ==
    Cardinality({i \in 1 .. Len(entries) : Before(entries[i], target)})

partition_point(entries, target) ==
    Cardinality({i \in 1 .. Len(entries) : AtOrBefore(entries[i], target)})

\* The entry to follow from an index object or page, None before the first.
descend(object, target) ==
    LET position == partition_point(object.content, target)
    IN  IF position = 0 THEN None ELSE object.content[position]

\* What the reader requires of a child it follows entry to.
Matches(entry, child, p) ==
    /\ Decodes(child, p)
    /\ child.content[1].key = entry.key /\ child.content[1].block = entry.block

\* The newest record of key at or before block, None, or "error".
lookup(key, block) ==
    LET p == partition[key]
        target == [key |-> key, block |-> block]
        top == root[p]
        parent == IF top.kind = "internal" THEN descend(top, target)
                  ELSE [key |-> top.content[1].key, block |-> top.content[1].block, data |-> top]
        fence == descend(parent.data, target)
        candidate == descend(fence.data, target)
    IN  IF top = None THEN None
        ELSE IF ~Decodes(top, p) THEN "error"
        ELSE IF parent = None THEN None
        ELSE IF ~Matches(parent, parent.data, p) THEN "error"
        ELSE IF fence = None THEN None
        ELSE IF ~Matches(fence, fence.data, p) THEN "error"
        ELSE IF candidate # None /\ candidate.key = key THEN candidate ELSE None

\* Index objects and data pages of a run, as `walk` lists them.
walk ==
    LET tops == {root[p] : p \in Partitions} \ {None}
        children(objects) == {f.data : f \in UNION {ToSet(o.content) : o \in objects}}
        leaves == {o \in tops : o.kind = "leaf"}
                  \cup children({o \in tops : o.kind = "internal"})
    IN  tops \cup leaves \cup children(leaves)

-----------------------------------------------------------------------------
(* RunScanner *)

NewCursor == [initialized |-> FALSE, parents |-> << >>, parent_pos |-> 0,
              leaf |-> << >>, fence_pos |-> 0, page |-> << >>]

initialized(c, p) ==
    IF c.initialized THEN c
    ELSE [c EXCEPT !.initialized = TRUE,
                   !.parents = IF root[p] # None /\ root[p].kind = "internal"
                               THEN root[p].content ELSE << >>,
                   !.leaf = IF root[p] # None /\ root[p].kind = "leaf"
                            THEN root[p].content ELSE << >>]

\* Load the next leaf when the current one is used up and there is another.
with_leaf(c) ==
    IF c.fence_pos < Len(c.leaf) THEN c
    ELSE IF c.parent_pos = Len(c.parents)
    THEN [c EXCEPT !.leaf = << >>, !.fence_pos = 0]
    ELSE [c EXCEPT !.leaf = c.parents[c.parent_pos + 1].data.content,
                   !.fence_pos = 0, !.parent_pos = @ + 1]

\* The cursor has moved past the fence when it asks for the page.
past_fence(c) == [c EXCEPT !.fence_pos = @ + 1]

\* A cursor with a record at hand, or at the end of its partition.
ready(c, p) ==
    LET c0 == initialized(c, p)
        c1 == IF c0.page # << >> THEN c0 ELSE with_leaf(c0)
    IN  IF c1.page # << >> \/ c1.leaf = << >> THEN c1
        ELSE [past_fence(c1) EXCEPT !.page = c1.leaf[c1.fence_pos + 1].data.content]

AllReady == [p \in Partitions |-> ready(scan.cursors[p], p)]

\* The partition whose next record comes first.
chosen(cursors) ==
    CHOOSE p \in Partitions :
        /\ cursors[p].page # << >>
        /\ \A q \in Partitions :
               cursors[q].page # << >> => AtOrBefore(cursors[p].page[1], cursors[q].page[1])

-----------------------------------------------------------------------------

Init ==
    /\ bld = [pages |-> [p \in Partitions |-> << >>], leaves |-> [p \in Partitions |-> << >>],
              parents |-> [p \in Partitions |-> << >>], emitted |-> << >>,
              added |-> << >>, failed |-> FALSE]
    /\ root = [p \in Partitions |-> None]
    /\ scan = [cursors |-> [p \in Partitions |-> NewCursor], out |-> << >>, failed |-> FALSE]
    /\ phase = "build"

BuildAdd(r) ==
    /\ phase = "build"
    /\ bld' = add(bld, r)
    /\ phase' = IF add(bld, r).failed THEN "failed" ELSE "build"
    /\ UNCHANGED <<root, scan>>

BuildFinish ==
    LET st == closed_all(bld) IN
    /\ phase = "build"
    /\ IF st.failed
       THEN bld' = st /\ phase' = "failed" /\ UNCHANGED root
       ELSE bld' = emit_roots(st) /\ root' = root_of(st) /\ phase' = "scan"
    /\ UNCHANGED scan

\* next() returns a record.
ScanNext ==
    LET cursors == AllReady
        p == chosen(cursors)
    IN
    /\ phase = "scan" /\ ~scan.failed
    /\ \E q \in Partitions : cursors[q].page # << >>
    /\ scan' = [scan EXCEPT !.cursors = [cursors EXCEPT ![p].page = Tail(@)],
                            !.out = Append(@, cursors[p].page[1])]
    /\ UNCHANGED <<bld, root, phase>>

\* next() returns None.
ScanEnd ==
    /\ phase = "scan" /\ ~scan.failed
    /\ \A q \in Partitions : AllReady[q].page = << >>
    /\ phase' = "scanned"
    /\ UNCHANGED <<bld, root, scan>>

\* Variant: a failed scanner may be asked again.
ScanFetchFails_Again(p) ==
    LET c == with_leaf(initialized(scan.cursors[p], p)) IN
    /\ phase = "scan" /\ ~scan.failed
    /\ scan.cursors[p].page = << >> /\ c.leaf # << >>
    /\ scan' = [scan EXCEPT !.cursors[p] = past_fence(c)]
    /\ UNCHANGED <<bld, root, phase>>

\* The page a cursor needs cannot be read: next() fails, with the cursor already
\* past the fence, and so does every later call.
ScanFetchFails(p) ==
    LET c == with_leaf(initialized(scan.cursors[p], p)) IN
    /\ phase = "scan" /\ ~scan.failed
    /\ scan.cursors[p].page = << >> /\ c.leaf # << >>
    /\ scan' = [scan EXCEPT !.cursors[p] = past_fence(c), !.failed = TRUE]
    /\ UNCHANGED <<bld, root, phase>>

Next ==
    \/ \E r \in Record : BuildAdd(r)
    \/ BuildFinish
    \/ ScanNext
    \/ ScanEnd
    \/ \E p \in Partitions : ScanFetchFails(p)

Spec == Init /\ [][Next]_vars

-----------------------------------------------------------------------------

Built == phase \in {"scan", "scanned"}

\* The newest record of a key at or before a block, from the records themselves.
newest(key, block) ==
    LET versions == {r \in ToSet(bld.added) : r.key = key /\ r.block <= block}
    IN  IF versions = {} THEN None
        ELSE CHOOSE r \in versions : \A s \in versions : s.block <= r.block

\* lookup finds, for every key and block, the newest version at or before the
\* block, wherever pages and leaves happen to be cut, and never reports a
\* mismatch in a run the builder wrote.
LookupExact ==
    Built => \A key \in Keys, block \in Blocks : lookup(key, block) = newest(key, block)

\* Objects come out in dependency order, as `build` promises its sink: what an
\* index refers to was emitted before it.  The uploads are concurrent and keep no
\* such order; it is the swap of the head that waits for all of them.
DependencyOrder ==
    \A i \in 1 .. Len(bld.emitted) :
        bld.emitted[i].kind # "page" =>
            \A f \in ToSet(bld.emitted[i].content) :
                \E j \in 1 .. (i - 1) : bld.emitted[j] = f.data

\* walk lists exactly the objects the builder emitted below the root: garbage
\* collection keeps all of a live run, and nothing else.
WalkComplete == Built => walk = ToSet(bld.emitted)

\* A scan returns the records in order, all of them if it ends, and after a
\* failed read nothing more, in particular nothing past a gap.
ScanExact ==
    /\ IsPrefix(scan.out, bld.added)
    /\ phase = "scanned" => scan.out = bld.added
===============================================================================
