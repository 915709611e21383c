---------------------------- MODULE TieredArchive -----------------------------
(***************************************************************************)
(* Publishers and compactors of one chain sharing an object store           *)
(* (src/tiered.rs publish, compact_once, swap, read_head).  Each action is  *)
(* one access to shared state: a read of the head, an upload, or a          *)
(* compare-and-swap of the head.                                            *)
(*                                                                         *)
(* A store's head version is the digest of its bytes (file store) or its    *)
(* ETag (object store), so a compare-and-swap compares contents.  A swap    *)
(* whose answer is lost stays in flight and may still land later, for as    *)
(* long as the head has the contents it expects.                            *)
(***************************************************************************)
EXTENDS TieredHead

CONSTANTS
    Publishers, Compactors,
    CAS_ATTEMPTS,   \* 32 in the code
    MaxFaults       \* bound on crashes and lost answers in a behaviour

ASSUME ArchiveAssumption == CAS_ATTEMPTS \in Nat \ {0} /\ MaxFaults \in Nat

VARIABLES
    head,      \* the mutable head object, None before the anchor
    objects,   \* runs whose objects are all stored, named by their packages
    inflight,  \* head swaps sent, whose answer the sender gave up on
    pub,       \* each publisher's call of `publish`
    cmp,       \* each compactor's call of `compact_once`
    acked,     \* packages for which a `publish` returned Ok
    faults

vars == <<head, objects, inflight, pub, cmp, acked, faults>>

IdlePublisher == [pc |-> "idle", pkg |-> None, previous |-> None, tries |-> 0]
IdleCompactor == [pc |-> "idle", planned |-> None, current |-> None, tries |-> 0]

TypeOK ==
    /\ head \in Manifest \cup {None}
    /\ objects \subseteq SUBSET Packages
    /\ inflight \subseteq [expected : Manifest \cup {None}, next : Manifest]
    /\ pub \in [Publishers -> [pc : {"idle", "upload", "swap", "reread"},
                               pkg : Packages \cup {None},
                               previous : Manifest \cup {None},
                               tries : 0 .. (CAS_ATTEMPTS - 1)]]
    /\ cmp \in [Compactors -> [pc : {"idle", "merge", "read", "swap"},
                               planned : Manifest \cup {None},
                               current : Manifest \cup {None},
                               tries : 0 .. (CAS_ATTEMPTS - 1)]]
    /\ acked \subseteq Packages
    /\ faults \in 0 .. MaxFaults

Init ==
    /\ head = None
    /\ objects = {}
    /\ inflight = {}
    /\ pub = [w \in Publishers |-> IdlePublisher]
    /\ cmp = [c \in Compactors |-> IdleCompactor]
    /\ acked = {}
    /\ faults = 0

Fault == faults < MaxFaults /\ faults' = faults + 1

-----------------------------------------------------------------------------
(* publish.  An early error return leaves everything unchanged. *)

\* The package is already the head: success without a write.
PublishAgain(w, p) ==
    /\ pub[w].pc = "idle"
    /\ Admitted(p)
    /\ is_published(head, p)
    /\ acked' = acked \cup {p}
    /\ UNCHANGED <<head, objects, inflight, pub, cmp, faults>>

\* Read the head; the package must continue it and the backlog have room.
PublishBegin(w, p) ==
    /\ pub[w].pc = "idle"
    /\ Admitted(p)
    /\ ~is_published(head, p)
    /\ Extends(head, p)
    /\ ~BacklogFull(head)
    /\ pub' = [pub EXCEPT ![w] = [pc |-> "upload", pkg |-> p, previous |-> head, tries |-> 0]]
    /\ UNCHANGED <<head, objects, inflight, cmp, acked, faults>>

\* Variant: the swap does not wait for the uploads.
PublishUpload_NotAwaited(w) ==
    /\ pub[w].pc = "upload"
    /\ pub' = [pub EXCEPT ![w].pc = "swap"]
    /\ UNCHANGED <<head, objects, inflight, cmp, acked, faults>>

\* write_sorted: pages, fences and root, then the summary shards.
PublishUpload(w) ==
    /\ pub[w].pc = "upload"
    /\ objects' = objects \cup {L0Run(pub[w].pkg).pkgs}
    /\ pub' = [pub EXCEPT ![w].pc = "swap"]
    /\ UNCHANGED <<head, inflight, cmp, acked, faults>>

\* The swap succeeds and its sender learns so.
PublishSwap(w) ==
    /\ pub[w].pc = "swap"
    /\ head = pub[w].previous
    /\ head' = Published(pub[w].previous, pub[w].pkg)
    /\ acked' = acked \cup {pub[w].pkg}
    /\ pub' = [pub EXCEPT ![w] = IdlePublisher]
    /\ UNCHANGED <<objects, inflight, cmp, faults>>

\* Variant: the same swap is sent again, without another look at the head.
PublishSwapLost_Again(w) ==
    /\ pub[w].pc = "swap"
    /\ head # pub[w].previous
    /\ UNCHANGED vars

\* The store refuses the swap: the head is no longer the one that was read.
PublishSwapLost(w) ==
    /\ pub[w].pc = "swap"
    /\ head # pub[w].previous
    /\ pub' = [pub EXCEPT ![w].pc = "reread"]
    /\ UNCHANGED <<head, objects, inflight, cmp, acked, faults>>

\* The answer does not arrive; the store may or may not apply the swap.
PublishSwapTimeout(w) ==
    /\ pub[w].pc = "swap"
    /\ Fault
    /\ inflight' = inflight \cup {[expected |-> pub[w].previous,
                                   next |-> Published(pub[w].previous, pub[w].pkg)]}
    /\ pub' = [pub EXCEPT ![w].pc = "reread"]
    /\ UNCHANGED <<head, objects, cmp, acked>>

\* Read the head again: the package may be there after all.
PublishConfirm(w) ==
    /\ pub[w].pc = "reread"
    /\ is_published(head, pub[w].pkg)
    /\ acked' = acked \cup {pub[w].pkg}
    /\ pub' = [pub EXCEPT ![w] = IdlePublisher]
    /\ UNCHANGED <<head, objects, inflight, cmp, faults>>

\* A compactor replaced runs under the same chain head.
SameTip(now, before) ==
    /\ now # None /\ before # None
    /\ now.number = before.number /\ now.hash = before.hash

\* Rebase onto the head as it is now, while attempts are left.
PublishRebase(w) ==
    /\ pub[w].pc = "reread"
    /\ ~is_published(head, pub[w].pkg)
    /\ SameTip(head, pub[w].previous)
    /\ pub[w].tries + 1 < CAS_ATTEMPTS
    /\ pub' = [pub EXCEPT ![w].pc = "swap", ![w].previous = head, ![w].tries = @ + 1]
    /\ UNCHANGED <<head, objects, inflight, cmp, acked, faults>>

\* Another package took the place, or the attempts are used up: an error.
PublishFail(w) ==
    /\ pub[w].pc = "reread"
    /\ ~is_published(head, pub[w].pkg)
    /\ ~SameTip(head, pub[w].previous) \/ pub[w].tries + 1 >= CAS_ATTEMPTS
    /\ pub' = [pub EXCEPT ![w] = IdlePublisher]
    /\ UNCHANGED <<head, objects, inflight, cmp, acked, faults>>

\* The process dies, or a store request fails, in the middle of the call.
PublisherStops(w) ==
    /\ pub[w].pc # "idle"
    /\ Fault
    /\ pub' = [pub EXCEPT ![w] = IdlePublisher]
    /\ UNCHANGED <<head, objects, inflight, cmp, acked>>

-----------------------------------------------------------------------------
(* compact_once.  A refused plan returns an error and changes nothing. *)

\* Read the head and plan the cascade.
CompactPlan(c) ==
    /\ cmp[c].pc = "idle"
    /\ CompactionDue(head)
    /\ HasTarget(head)
    /\ InputsContiguous(head)
    /\ cmp' = [cmp EXCEPT ![c] = [pc |-> "merge", planned |-> head, current |-> None, tries |-> 0]]
    /\ UNCHANGED <<head, objects, inflight, pub, acked, faults>>

\* merge_runs: stream the inputs into one run and upload it.
CompactMerge(c) ==
    /\ cmp[c].pc = "merge"
    /\ objects' = objects \cup {MergedPkgs(cmp[c].planned)}
    /\ cmp' = [cmp EXCEPT ![c].pc = "read"]
    /\ UNCHANGED <<head, inflight, pub, acked, faults>>

\* Variant: the plan is committed over whatever the head is now.
CompactRead_Unchecked(c) ==
    /\ cmp[c].pc = "read"
    /\ head # None
    /\ cmp' = [cmp EXCEPT ![c].pc = "swap", ![c].current = head]
    /\ UNCHANGED <<head, objects, inflight, pub, acked, faults>>

\* Read the head again: only L0 runs may have been added since the plan.
CompactRead(c) ==
    /\ cmp[c].pc = "read"
    /\ head # None
    /\ Compatible(head, cmp[c].planned)
    /\ cmp' = [cmp EXCEPT ![c].pc = "swap", ![c].current = head]
    /\ UNCHANGED <<head, objects, inflight, pub, acked, faults>>

\* Variant: the compactor waits for the head to fit its plan again.
CompactAbandon_Waits(c) ==
    /\ cmp[c].pc = "read"
    /\ head # None
    /\ ~Compatible(head, cmp[c].planned)
    /\ UNCHANGED vars

\* The head changed incompatibly: the merged run is left as garbage.
CompactAbandon(c) ==
    /\ cmp[c].pc = "read"
    /\ head # None
    /\ ~Compatible(head, cmp[c].planned)
    /\ cmp' = [cmp EXCEPT ![c] = IdleCompactor]
    /\ UNCHANGED <<head, objects, inflight, pub, acked, faults>>

CompactSwap(c) ==
    /\ cmp[c].pc = "swap"
    /\ head = cmp[c].current
    /\ head' = Compacted(cmp[c].current, cmp[c].planned)
    /\ cmp' = [cmp EXCEPT ![c] = IdleCompactor]
    /\ UNCHANGED <<objects, inflight, pub, acked, faults>>

\* One attempt is used up; the call fails when it was the last.
Retried(c) ==
    IF cmp[c].tries + 1 < CAS_ATTEMPTS
    THEN [cmp[c] EXCEPT !.pc = "read", !.tries = @ + 1]
    ELSE IdleCompactor

CompactSwapLost(c) ==
    /\ cmp[c].pc = "swap"
    /\ head # cmp[c].current
    /\ cmp' = [cmp EXCEPT ![c] = Retried(c)]
    /\ UNCHANGED <<head, objects, inflight, pub, acked, faults>>

CompactSwapTimeout(c) ==
    /\ cmp[c].pc = "swap"
    /\ Fault
    /\ inflight' = inflight \cup {[expected |-> cmp[c].current,
                                   next |-> Compacted(cmp[c].current, cmp[c].planned)]}
    /\ cmp' = [cmp EXCEPT ![c] = Retried(c)]
    /\ UNCHANGED <<head, objects, pub, acked>>

\* The process dies, a request fails, or the merge misses MERGE_DEADLINE.
CompactorStops(c) ==
    /\ cmp[c].pc # "idle"
    /\ Fault
    /\ cmp' = [cmp EXCEPT ![c] = IdleCompactor]
    /\ UNCHANGED <<head, objects, inflight, pub, acked>>

-----------------------------------------------------------------------------

\* Variant: an unconditional put.
LateSwap_Blind(m) ==
    /\ head' = m.next
    /\ inflight' = inflight \ {m}
    /\ UNCHANGED <<objects, pub, cmp, acked, faults>>

\* A swap nobody waits for any more reaches the store.
LateSwap(m) ==
    /\ head = m.expected
    /\ head' = m.next
    /\ inflight' = inflight \ {m}
    /\ UNCHANGED <<objects, pub, cmp, acked, faults>>

\* What a publisher does on its own once `publish` has been called.
PublisherStep(w) ==
    \/ PublishUpload(w)
    \/ PublishSwap(w)
    \/ PublishSwapLost(w)
    \/ PublishConfirm(w)
    \/ PublishRebase(w)
    \/ PublishFail(w)

CompactorStep(c) ==
    \/ CompactPlan(c)
    \/ CompactMerge(c)
    \/ CompactRead(c)
    \/ CompactAbandon(c)
    \/ CompactSwap(c)
    \/ CompactSwapLost(c)

Next ==
    \/ \E w \in Publishers :
         \/ \E p \in Packages : PublishAgain(w, p) \/ PublishBegin(w, p)
         \/ PublisherStep(w)
         \/ PublishSwapTimeout(w)
         \/ PublisherStops(w)
    \/ \E c \in Compactors :
         \/ CompactorStep(c)
         \/ CompactSwapTimeout(c)
         \/ CompactorStops(c)
    \/ \E m \in inflight : LateSwap(m)

Spec == Init /\ [][Next]_vars

\* A publisher that has been called, and a running compactor, keep going.
\* Callers hand over packages again after an error (export.py retries, and is
\* started again after a crash).
Fairness ==
    /\ \A w \in Publishers : /\ WF_vars(PublisherStep(w))
                              /\ WF_vars(\E p \in Packages : PublishBegin(w, p))
    /\ \A c \in Compactors : WF_vars(CompactorStep(c))

-----------------------------------------------------------------------------
(* Safety *)

Contents == IF head = None THEN {} ELSE Archived(head)

\* Every head any interleaving stores passes `Head::decode`: the runs cover
\* genesis to the head without a gap, each level weighs what its depth allows
\* and the L0 runs stay within the backlog, although a rebased publication
\* does not look at the backlog again.
HeadDecodes == head # None => Decode(head)

\* "All objects are durable before the head CAS": every run the head names has
\* been uploaded, whoever swapped the head in and however late.
HeadDurable == head # None => \A r \in runs(head) : r.pkgs \in objects

\* A run holds packages inside its own interval only and no package is in two
\* runs, so a lookup may skip a run by its interval and stop at the first hit.
RunsPartitionHistory ==
    head # None =>
        /\ \A r \in runs(head) : \A p \in r.pkgs : r.start <= p.first /\ p.last <= r.end
        /\ \A r, s \in runs(head) : r # s => r.pkgs \cap s.pkgs = {}

\* The archived packages form one hash-linked chain from the anchor to the
\* head, whichever publishers won the races.
ChainLinked ==
    \A p \in Contents :
        \/ p.first = 0
        \/ \E q \in Contents : q.last + 1 = p.first /\ q.hash = p.preceding

\* When a compaction is due, compact_once never bails out with "tiered level
\* capacity exceeded" or "noncontiguous tiered compaction inputs"; it finds a
\* target level unless every level is full.
CompactionPossible ==
    CompactionDue(head) =>
        \/ HasTarget(head) /\ InputsContiguous(head)
        \/ \A i \in LevelIndex : Full(head, i)

\* `publish` returns Ok only for a package the archive holds, and no later
\* publication, compaction or late swap takes it away again.
AckedArchived == acked \subseteq Contents

\* The head never returns to earlier contents, so a content-based version
\* cannot mistake a newer head for the one it expects: a step moves to a later
\* block, or keeps the block and shortens L0.
Advances(now, next) ==
    \/ next.number > now.number
    \/ next.number = now.number /\ Len(next.l0) < Len(now.l0)

HeadAdvances == [][head # None => head' # None /\ Advances(head, head')]_head

History == INSTANCE PublishedHistory WITH
    published <- Contents,
    tip <- IF head = None THEN None
           ELSE [number |-> head.number, hash |-> head.hash, input |-> head.input]

\* Publishers, compactors, retries and late swaps together implement the
\* append-only history: publication appends, everything else is invisible.
ImplementsHistory == History!Spec

-----------------------------------------------------------------------------
(* Liveness *)

\* Where packages do not compete, each of them is published in the end: the
\* backlog, lost races and crashes only delay it.
EventuallyPublished == <>[](Packages \subseteq Contents)

\* A call of `publish` always returns.
PublishReturns == \A w \in Publishers : (pub[w].pc # "idle") ~> (pub[w].pc = "idle")
===============================================================================
