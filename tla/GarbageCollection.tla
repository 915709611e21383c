-------------------------- MODULE GarbageCollection ---------------------------
(***************************************************************************)
(* Garbage collection beside publishers and compactors (src/tiered.rs       *)
(* collect_garbage and reachable, src/store.rs put_immutable and stale).    *)
(*                                                                         *)
(* Time is a counter.  A stored object carries the time it was last         *)
(* written; a writer that meets an identical object re-stamps it only when  *)
(* it is older than REFRESH_AFTER, and a collector deletes an unreachable   *)
(* object only when it is at least MIN_AGE older than the pass.  How a      *)
(* writer derives its next head is the subject of TieredArchive; here a     *)
(* head is a set of runs, a run the set of its objects (pages, fences, root *)
(* and summary shards), and writers differ in the runs they replace.        *)
(***************************************************************************)
EXTENDS Integers, FiniteSets

CONSTANTS
    Objects,         \* content-addressed objects a run may consist of
    Runs,            \* the runs writers may build, each a set of objects
    Chains,          \* chains archived in the store
    Writers, Collectors,
    REFRESH_AFTER,   \* age beyond which a reused object is re-stamped (1 h)
    MERGE_DEADLINE,  \* age beyond which a merge abandons its output (2 h)
    MIN_AGE,         \* age below which nothing is deleted (GC_MIN_AGE, 3 h)
    KEEP_HEADS,      \* copies of replaced heads a pass keeps
    PublishTime,     \* longest time a publication takes, upload to swap
    CommitTime,      \* longest time a compaction takes after its deadline
    Absent,          \* the stamp of an object that is not stored
    MaxTime, MaxCommits

ASSUME TimeAssumption ==
    /\ REFRESH_AFTER \in Nat /\ MERGE_DEADLINE \in Nat /\ MIN_AGE \in Nat
    /\ PublishTime \in Nat /\ CommitTime \in Nat
    /\ KEEP_HEADS \in Nat /\ MaxTime \in Nat /\ MaxCommits \in Nat
    /\ Absent \notin Int

\* Copies of the heads of each chain, numbered by head version.
Copies == Chains \X (1 .. MaxCommits)
Keys == Objects \cup Copies

ASSUME KeysAssumption ==
    /\ Objects \cap Copies = {}
    /\ Runs \subseteq (SUBSET Objects) \ {{}}

VARIABLES
    now,      \* the clock every participant reads
    stamp,    \* modification time of each stored key, or Absent
    head,     \* the runs of each chain's head
    version,  \* how often each chain's head was swapped
    wr,       \* each writer's call of publish or compact_once
    gc,       \* each collector's pass
    torn      \* keys deleted although written after their last age check

vars == <<now, stamp, head, version, wr, gc, torn>>

Times == 0 .. MaxTime

IdleWriter(c) == [pc |-> "idle", chain |-> c, started |-> 0, inputs |-> {},
                  output |-> {}, stored |-> {}, basis |-> 0]
IdleCollector(c) == [pc |-> "idle", chain |-> c, started |-> 0, live |-> {},
                     doomed |-> {}, checked |-> {}]

Init ==
    /\ now = 0
    /\ stamp = [k \in Keys |-> Absent]
    /\ head = [c \in Chains |-> {}]
    /\ version = [c \in Chains |-> 0]
    /\ wr \in [Writers -> {IdleWriter(c) : c \in Chains}]
    /\ gc \in [Collectors -> {IdleCollector(c) : c \in Chains}]
    /\ torn = {}

Needed(c) == UNION head[c]

-----------------------------------------------------------------------------
(* Writers *)

stale(modified) == now - modified > REFRESH_AFTER

\* Variant: an object that exists keeps its age.
Restamped_Never(k) == IF stamp[k] = Absent THEN now ELSE stamp[k]

\* The stamp put_immutable leaves on key k.
Restamped(k) ==
    IF stamp[k] = Absent \/ stale(stamp[k]) THEN now ELSE stamp[k]

put_immutable(k) ==
    /\ stamp' = [stamp EXCEPT ![k] = Restamped(k)]
    /\ torn' = torn \ {k}

\* A publication replaces no run; a compaction replaces at least one.
IsCompaction(w) == wr[w].inputs # {}

\* How long after its start a call may still swap the head.  The code bounds
\* only a compaction, and only up to its deadline check.
Limit(w) == IF IsCompaction(w) THEN MERGE_DEADLINE + CommitTime ELSE PublishTime

\* A merge itself may take any time: it is given up afterwards.
Timed(w) == wr[w].pc # "idle" /\ ~(IsCompaction(w) /\ wr[w].pc = "upload")

\* Read the head, plan the runs to replace and start building `output`.
WriteBegin(w, inputs, output) ==
    /\ wr[w].pc = "idle"
    /\ inputs \subseteq head[wr[w].chain]
    /\ version[wr[w].chain] < MaxCommits
    /\ wr' = [wr EXCEPT ![w] = [@ EXCEPT !.pc = "upload", !.started = now, !.inputs = inputs,
                                         !.output = output, !.stored = {}]]
    /\ UNCHANGED <<now, stamp, head, version, gc, torn>>

\* Upload one object of the new run.
WritePut(w, k) ==
    /\ wr[w].pc = "upload"
    /\ k \in wr[w].output \ wr[w].stored
    /\ put_immutable(k)
    /\ wr' = [wr EXCEPT ![w].stored = @ \cup {k}]
    /\ UNCHANGED <<now, head, version, gc>>

\* The run is complete.  A merge that took too long is abandoned.
WriteBuilt(w) ==
    /\ wr[w].pc = "upload"
    /\ wr[w].stored = wr[w].output
    /\ wr' = [wr EXCEPT ![w] =
                 IF IsCompaction(w) /\ now - wr[w].started > MERGE_DEADLINE
                 THEN IdleWriter(@.chain) ELSE [@ EXCEPT !.pc = "commit"]]
    /\ UNCHANGED <<now, stamp, head, version, gc, torn>>

\* Read the head the swap will replace and store a copy of it.
WriteStage(w) ==
    LET c == wr[w].chain IN
    /\ wr[w].pc = "commit"
    /\ wr[w].inputs \subseteq head[c]
    /\ version[c] < MaxCommits
    /\ IF version[c] = 0 THEN UNCHANGED <<stamp, torn>> ELSE put_immutable(<<c, version[c]>>)
    /\ wr' = [wr EXCEPT ![w].pc = "swap", ![w].basis = version[c]]
    /\ UNCHANGED <<now, head, version, gc>>

WriteSwap(w) ==
    LET c == wr[w].chain IN
    /\ wr[w].pc = "swap"
    /\ version[c] = wr[w].basis
    /\ version' = [version EXCEPT ![c] = @ + 1]
    /\ head' = [head EXCEPT ![c] = (@ \ wr[w].inputs) \cup {wr[w].output}]
    /\ wr' = [wr EXCEPT ![w] = IdleWriter(@.chain)]
    /\ UNCHANGED <<now, stamp, gc, torn>>

\* The swap is refused; read the head again.
WriteSwapLost(w) ==
    /\ wr[w].pc = "swap"
    /\ version[wr[w].chain] # wr[w].basis
    /\ wr' = [wr EXCEPT ![w].pc = "commit"]
    /\ UNCHANGED <<now, stamp, head, version, gc, torn>>

\* An error, an incompatible head, a crash: what was uploaded stays behind.
WriteStop(w) ==
    /\ wr[w].pc # "idle"
    /\ wr' = [wr EXCEPT ![w] = IdleWriter(@.chain)]
    /\ UNCHANGED <<now, stamp, head, version, gc, torn>>

-----------------------------------------------------------------------------
(* collect_garbage *)

\* Variant: one copy too few.
KeptCopies_OneLess(c) ==
    {k \in {c} \X (1 .. (version[c] - 1)) :
        /\ k[2] > version[c] - KEEP_HEADS
        /\ \A v \in k[2] .. (version[c] - 1) : stamp[<<c, v>>] # Absent}

\* The copies the walk along `parent` keeps: the newest KEEP_HEADS, up to the
\* first that is gone.
KeptCopies(c) ==
    {k \in {c} \X (1 .. (version[c] - 1)) :
        /\ k[2] >= version[c] - KEEP_HEADS
        /\ \A v \in k[2] .. (version[c] - 1) : stamp[<<c, v>>] # Absent}

reachable(c) == Needed(c) \cup KeptCopies(c)

cutoff(g) == gc[g].started - MIN_AGE

\* Read the head and walk everything it reaches.  The walk fails, and with it
\* the pass, when an object is missing.
GcStart(g) ==
    LET c == gc[g].chain IN
    /\ gc[g].pc = "idle"
    /\ version[c] > 0
    /\ \A k \in Needed(c) : stamp[k] # Absent
    /\ gc' = [gc EXCEPT ![g] = [pc |-> "list", chain |-> c, started |-> now,
                                live |-> reachable(c), doomed |-> {}, checked |-> {}]]
    /\ UNCHANGED <<now, stamp, head, version, wr, torn>>

\* Variant: only the summary shards and pages are listed, not the head copies.
GcList_Objects(g) ==
    /\ gc[g].pc = "list"
    /\ gc' = [gc EXCEPT ![g].pc = "reread",
                        ![g].doomed = {k \in Objects : /\ stamp[k] # Absent
                                                       /\ stamp[k] <= cutoff(g)}]
    /\ UNCHANGED <<now, stamp, head, version, wr, torn>>

\* List every stored key; the ones young at the cutoff are never candidates.
GcList(g) ==
    /\ gc[g].pc = "list"
    /\ gc' = [gc EXCEPT ![g].pc = "reread",
                        ![g].doomed = {k \in Keys : /\ stamp[k] # Absent
                                                    /\ stamp[k] <= cutoff(g)}]
    /\ UNCHANGED <<now, stamp, head, version, wr, torn>>

\* Read the head again; what it reaches is live as well.
GcReread(g) ==
    LET live == gc[g].live \cup reachable(gc[g].chain) IN
    /\ gc[g].pc = "reread"
    /\ \A k \in Needed(gc[g].chain) : stamp[k] # Absent
    /\ gc' = [gc EXCEPT ![g].pc = "delete", ![g].live = live, ![g].doomed = @ \ live]
    /\ UNCHANGED <<now, stamp, head, version, wr, torn>>

\* Ask for a candidate's age once more: it may have been re-stamped or deleted.
GcCheck(g, k) ==
    /\ gc[g].pc = "delete"
    /\ k \in gc[g].doomed
    /\ gc' = [gc EXCEPT ![g].doomed = @ \ {k},
                        ![g].checked = IF stamp[k] = Absent \/ stamp[k] > cutoff(g) THEN @
                                       ELSE @ \cup {[key |-> k, seen |-> stamp[k]]}]
    /\ UNCHANGED <<now, stamp, head, version, wr, torn>>

\* Delete it: a second request, which names no expected age.
GcDelete(g, entry) ==
    LET k == entry.key IN
    /\ gc[g].pc = "delete"
    /\ entry \in gc[g].checked
    /\ gc' = [gc EXCEPT ![g].checked = @ \ {entry}]
    /\ stamp' = [stamp EXCEPT ![k] = Absent]
    /\ torn' = IF stamp[k] \in {Absent, entry.seen} THEN torn ELSE torn \cup {k}
    /\ UNCHANGED <<now, head, version, wr>>

GcFinish(g) ==
    /\ gc[g].pc = "delete"
    /\ gc[g].doomed = {} /\ gc[g].checked = {}
    /\ gc' = [gc EXCEPT ![g] = IdleCollector(gc[g].chain)]
    /\ UNCHANGED <<now, stamp, head, version, wr, torn>>

\* A request fails or the process dies in the middle of a pass.
GcStop(g) ==
    /\ gc[g].pc # "idle"
    /\ gc' = [gc EXCEPT ![g] = IdleCollector(gc[g].chain)]
    /\ UNCHANGED <<now, stamp, head, version, wr, torn>>

-----------------------------------------------------------------------------
(* Time *)

\* Time passes, but not beyond what the calls in progress are assumed to take.
Tick ==
    /\ now < MaxTime
    /\ \A w \in Writers : Timed(w) => now < wr[w].started + Limit(w)
    /\ now' = now + 1
    /\ UNCHANGED <<stamp, head, version, wr, gc, torn>>

Next ==
    \/ Tick
    \/ \E w \in Writers :
         \/ \E inputs \in SUBSET head[wr[w].chain], output \in Runs :
                WriteBegin(w, inputs, output)
         \/ \E k \in Objects : WritePut(w, k)
         \/ WriteBuilt(w)
         \/ WriteStage(w)
         \/ WriteSwap(w)
         \/ WriteSwapLost(w)
         \/ WriteStop(w)
    \/ \E g \in Collectors :
         \/ GcStart(g)
         \/ GcList(g)
         \/ GcReread(g)
         \/ \E k \in Keys : GcCheck(g, k)
         \/ \E entry \in gc[g].checked : GcDelete(g, entry)
         \/ GcFinish(g)
         \/ GcStop(g)

Spec == Init /\ [][Next]_vars

-----------------------------------------------------------------------------
(* Safety *)

\* No object the head needs is deleted, except one that a writer re-stamped
\* between a collector's last age check and its delete.
HeadObjectsKept ==
    \A c \in Chains : \A k \in Needed(c) : stamp[k] = Absent => k \in torn

\* The newest KEEP_HEADS copies of replaced heads stay, unless the walk to
\* them is cut by a newer copy lost in that same window.
HeadCopiesKept ==
    \A c \in Chains : \A v \in 1 .. (version[c] - 1) :
        v >= version[c] - KEEP_HEADS /\ stamp[<<c, v>>] = Absent
            => \E u \in v .. (version[c] - 1) : <<c, u>> \in torn

\* A pass that completes leaves no key that was old when it started and that
\* neither of its two walks reached.
PassComplete ==
    [][\A g \in Collectors :
        GcFinish(g) => \A k \in Keys :
            stamp[k] # Absent /\ stamp[k] <= cutoff(g) => k \in gc[g].live]_vars
===============================================================================
