----------------------- MODULE GarbageCollectionProofs -----------------------
(***************************************************************************)
(* The collector is safe for any number of writers, collectors and         *)
(* objects and for any durations that leave a margin, as long as one       *)
(* chain owns the store: the inductive invariant, that no writer and no    *)
(* tick of the clock breaks it, the steps of a pass, and the theorems.     *)
(***************************************************************************)
EXTENDS GarbageCollection, TLAPS

\* An object just too young to be re-stamped at the start of the longest call is
\* still too young to be deleted at its end.
Margin ==
    /\ REFRESH_AFTER + MERGE_DEADLINE + CommitTime < MIN_AGE
    /\ REFRESH_AFTER + PublishTime < MIN_AGE

OneChain == \A c, d \in Chains : c = d

WriterState == [pc : {"idle", "upload", "commit", "swap"}, chain : Chains, started : Nat,
                inputs : SUBSET SUBSET Objects, output : SUBSET Objects,
                stored : SUBSET Objects, basis : Nat]
CollectorState == [pc : {"idle", "list", "reread", "delete"}, chain : Chains, started : Nat,
                   live : SUBSET Keys, doomed : SUBSET Keys,
                   checked : SUBSET [key : Keys, seen : Int]]

TypeOK ==
    /\ now \in Nat
    /\ stamp \in [Keys -> Int \cup {Absent}]
    /\ head \in [Chains -> SUBSET SUBSET Objects]
    /\ version \in [Chains -> 0 .. MaxCommits]
    /\ wr \in [Writers -> WriterState]
    /\ \A w \in Writers : wr[w].pc = "swap" => wr[w].basis < MaxCommits
    /\ gc \in [Collectors -> CollectorState]

\* Deleted, and not in the window the code admits.
Lost(k) == stamp[k] = Absent /\ k \notin torn

\* A call that may still swap the head; a merge past its deadline may not.
Viable(w) ==
    /\ wr[w].pc # "idle"
    /\ IsCompaction(w) /\ wr[w].pc = "upload" => now - wr[w].started <= MERGE_DEADLINE

ClockInv ==
    /\ \A w \in Writers : wr[w].pc # "idle" => wr[w].started <= now
    /\ \A w \in Writers : Timed(w) => now <= wr[w].started + Limit(w)
    /\ \A g \in Collectors : gc[g].pc # "idle" => gc[g].started <= now

\* What a viable call has stored is there, and not much older than the call.
StoredAt(w) ==
    /\ wr[w].pc \in {"commit", "swap"} => wr[w].stored = wr[w].output
    /\ Viable(w) => \A k \in wr[w].stored :
           /\ ~Lost(k)
           /\ stamp[k] # Absent => stamp[k] >= wr[w].started - REFRESH_AFTER
StoredInv == \A w \in Writers : StoredAt(w)

Candidates(g) == gc[g].doomed \cup {e.key : e \in gc[g].checked}

\* Stored, and old enough for pass g to delete.
Old(g, k) == stamp[k] # Absent /\ stamp[k] <= cutoff(g)

\* A candidate that the head came to need after the second walk is young, and
\* what is old was reached by a walk or is still a candidate.
PassAt(g) ==
    /\ gc[g].pc # "delete" => gc[g].checked = {}
    /\ \A e \in gc[g].checked : e.seen <= cutoff(g)
    /\ gc[g].pc = "delete" => \A k \in Candidates(g) \cap Needed(gc[g].chain) :
           stamp[k] # Absent => stamp[k] > cutoff(g)
    /\ gc[g].pc \in {"reread", "delete"} => \A k \in Keys :
           Old(g, k) => k \in gc[g].live \cup Candidates(g)
PassInv == \A g \in Collectors : PassAt(g)

IInv == TypeOK /\ ClockInv /\ StoredInv /\ PassInv /\ HeadObjectsKept

-----------------------------------------------------------------------------
(* Types *)

\* One writer's call, or one collector's pass, changes.
LEMMA WriterStep ==
    ASSUME wr \in [Writers -> WriterState], NEW w \in Writers, NEW state \in WriterState,
           wr' = [wr EXCEPT ![w] = state]
    PROVE  /\ wr' \in [Writers -> WriterState]
           /\ wr'[w] = state
           /\ \A v \in Writers : v # w => wr'[v] = wr[v]
BY Zenon

\* One collector's pass changes.
LEMMA CollectorStep ==
    ASSUME gc \in [Collectors -> CollectorState], NEW g \in Collectors, NEW state \in CollectorState,
           gc' = [gc EXCEPT ![g] = state]
    PROVE  /\ gc' \in [Collectors -> CollectorState]
           /\ gc'[g] = state
           /\ \A f \in Collectors : f # g => gc'[f] = gc[f]
BY Zenon

\* A call or pass that ends leaves a well-typed record.
LEMMA IdleTyped ==
    ASSUME NEW c \in Chains
    PROVE  IdleWriter(c) \in WriterState /\ IdleCollector(c) \in CollectorState
BY Zenon DEF IdleWriter, IdleCollector, WriterState, CollectorState

\* What is live is a set of keys.
LEMMA ReachableKeys ==
    ASSUME TypeOK, NEW c \in Chains
    PROVE  reachable(c) \subseteq Keys /\ Needed(c) \subseteq Objects
<1>1. Needed(c) \subseteq Objects
  BY Zenon DEF TypeOK, Needed
<1>2. ASSUME NEW k \in KeptCopies(c) PROVE k \in Keys
  <2>1. k \in {c} \X (1 .. (version[c] - 1)) /\ version[c] \in 0 .. MaxCommits
    BY Zenon, <1>2 DEF KeptCopies, TypeOK
  <2>2. (1 .. (version[c] - 1)) \subseteq 1 .. MaxCommits
    BY <2>1, TimeAssumption
  <2> QED BY Zenon, <2>1, <2>2 DEF Keys, Copies
<1> QED BY Zenon, <1>1, <1>2 DEF reachable, Keys

-----------------------------------------------------------------------------
(* Frames: what a step that deletes nothing leaves alone *)

\* No key is deleted, and a stamp only changes to the present time.
Calm == \A j \in Keys : stamp'[j] \in {stamp[j], now} /\ (Lost(j)' => Lost(j))

\* A put leaves its key stored and no older than REFRESH_AFTER.
LEMMA PutStamp ==
    ASSUME TypeOK, NEW k \in Keys, put_immutable(k)
    PROVE  /\ stamp' \in [Keys -> Int \cup {Absent}]
           /\ Calm
           /\ stamp'[k] # Absent /\ stamp'[k] >= now - REFRESH_AFTER
<1>1. Restamped(k) \in Int /\ Restamped(k) \in {stamp[k], now} /\ Restamped(k) >= now - REFRESH_AFTER
  BY TimeAssumption DEF TypeOK, Restamped, stale
<1>2. stamp' = [stamp EXCEPT ![k] = Restamped(k)] /\ torn' = torn \ {k}
  BY Zenon DEF put_immutable
<1> QED BY Zenon, <1>1, <1>2, TimeAssumption DEF TypeOK, Calm, Lost

\* A step that touches no object is calm.
LEMMA QuietCalm ==
    ASSUME stamp' = stamp, torn' = torn
    PROVE  Calm
BY Zenon DEF Calm, Lost

\* A call that the step does not touch keeps what it has stored.
LEMMA StoredFrame ==
    ASSUME TypeOK, ClockInv, Calm, now' \in Nat, now' >= now,
           NEW v \in Writers, StoredAt(v), wr'[v] = wr[v]
    PROVE  StoredAt(v)'
<1>1. wr[v].started \in Nat /\ wr[v].stored \subseteq Keys /\ now \in Nat
  BY Zenon DEF TypeOK, WriterState, Keys
<1>2. Viable(v)' => Viable(v)
  BY <1>1, TimeAssumption DEF Viable, IsCompaction
<1>3. ASSUME Viable(v), NEW k \in wr[v].stored
      PROVE  ~Lost(k)' /\ (stamp'[k] # Absent => stamp'[k] >= wr[v].started - REFRESH_AFTER)
  <2>1. k \in Keys /\ ~Lost(k) /\ wr[v].started <= now
    BY Zenon, <1>1, <1>3 DEF StoredAt, ClockInv, Viable
  <2>2. stamp[k] # Absent => stamp[k] >= wr[v].started - REFRESH_AFTER
    BY Zenon, <1>3 DEF StoredAt
  <2> QED BY <1>1, <2>1, <2>2, TimeAssumption DEF Calm
<1> QED BY Zenon, <1>2, <1>3 DEF StoredAt

\* What is not much older than a viable call is too young for any pass.
LEMMA ViableYoung ==
    ASSUME Margin, TypeOK, ClockInv, NEW v \in Writers, Viable(v),
           NEW g \in Collectors, gc[g].pc # "idle",
           NEW t \in Int, t >= wr[v].started - REFRESH_AFTER
    PROVE  t > cutoff(g)
<1>1. wr[v].started \in Nat /\ gc[g].started \in Nat /\ gc[g].started <= now /\ now \in Nat
  BY Zenon DEF TypeOK, WriterState, CollectorState, ClockInv
<1>2. Limit(v) \in Nat /\ REFRESH_AFTER + Limit(v) < MIN_AGE
  BY TimeAssumption DEF Limit, Margin
<1>3. now <= wr[v].started + Limit(v)
  <2>1. CASE Timed(v)
    BY Zenon, <2>1 DEF ClockInv
  <2>2. CASE ~Timed(v)
    <3>1. IsCompaction(v) /\ now - wr[v].started <= MERGE_DEADLINE
      BY Zenon, <2>2 DEF Viable, Timed
    <3> QED BY <1>1, <3>1, TimeAssumption DEF Limit
  <2> QED BY Zenon, <2>1, <2>2
<1> QED BY <1>1, <1>2, <1>3, TimeAssumption DEF cutoff

\* A pass that the step does not touch, beside a head that needs nothing new.
LEMMA PassFrame ==
    ASSUME Margin, TypeOK, ClockInv, Calm, NEW g \in Collectors, PassAt(g), gc'[g] = gc[g],
           Needed(gc[g].chain)' \subseteq Needed(gc[g].chain)
    PROVE  PassAt(g)'
<1>1. gc[g].started \in Nat /\ now \in Nat /\ Candidates(g) \subseteq Keys
  BY DEF TypeOK, CollectorState, Candidates
<1>2. cutoff(g)' = cutoff(g) /\ Candidates(g)' = Candidates(g)
  BY Zenon DEF cutoff, Candidates
<1>3. gc[g].pc # "idle" => cutoff(g) < now
  BY <1>1, TimeAssumption DEF ClockInv, Margin, cutoff
<1>4. ASSUME gc[g].pc = "delete", NEW k \in Candidates(g) \cap Needed(gc[g].chain)', stamp'[k] # Absent
      PROVE  stamp'[k] > cutoff(g)
  <2>1. k \in Keys /\ k \in Candidates(g) \cap Needed(gc[g].chain)
    BY Zenon, <1>1, <1>4
  <2>2. stamp[k] # Absent => stamp[k] > cutoff(g)
    BY Zenon, <1>4, <2>1 DEF PassAt
  <2> QED BY Zenon, <1>1, <1>3, <1>4, <2>1, <2>2 DEF Calm, cutoff
<1>5. ASSUME gc[g].pc # "idle", NEW k \in Keys, Old(g, k)' PROVE Old(g, k)
  BY <1>1, <1>2, <1>3, <1>5, TimeAssumption DEF Calm, Old, cutoff
<1>6. PassAt(g)!4'
  BY Zenon, <1>2, <1>5 DEF PassAt
<1> QED BY Zenon, <1>2, <1>4, <1>6 DEF PassAt

\* A step of one call that deletes nothing and leaves the heads alone.
LEMMA CallKeeps ==
    ASSUME Margin, IInv, NEW w \in Writers, NEW state \in WriterState,
           wr' = [wr EXCEPT ![w] = state], UNCHANGED <<now, head, version, gc>>,
           stamp' \in [Keys -> Int \cup {Absent}], Calm,
           state.pc = "swap" => state.basis < MaxCommits,
           state.pc # "idle" => state.started <= now,
           Timed(w)' => now <= state.started + Limit(w)',
           StoredAt(w)'
    PROVE  IInv'
<1> USE DEF IInv
<1>1. /\ wr' \in [Writers -> WriterState]
      /\ wr'[w] = state
      /\ \A v \in Writers : v # w => wr'[v] = wr[v]
  BY Zenon, WriterStep DEF TypeOK
<1>2. TypeOK'
  BY Zenon, <1>1 DEF TypeOK
<1>3. ClockInv'
  BY Zenon, <1>1 DEF ClockInv, Timed, Limit, IsCompaction
<1>4. StoredInv'
  <2>1. now' \in Nat /\ now' >= now
    BY DEF TypeOK
  <2> QED BY Zenon, <1>1, <2>1, StoredFrame DEF StoredInv
<1>5. PassInv'
  <2>1. ASSUME NEW g \in Collectors PROVE PassAt(g)'
    <3>1. Needed(gc[g].chain)' \subseteq Needed(gc[g].chain) /\ gc'[g] = gc[g] /\ PassAt(g)
      BY Zenon DEF Needed, PassInv
    <3> QED BY Zenon, <3>1, PassFrame
  <2> QED BY Zenon, <2>1 DEF PassInv
<1>6. HeadObjectsKept'
  <2>1. ASSUME NEW c \in Chains, NEW k \in Needed(c)' PROVE ~Lost(k)'
    <3>1. k \in Needed(c) /\ k \in Keys
      BY Zenon, <2>1, ReachableKeys DEF Needed, Keys
    <3> QED BY Zenon, <3>1 DEF HeadObjectsKept, Calm, Lost
  <2> QED BY Zenon, <2>1 DEF HeadObjectsKept, Lost
<1> QED BY Zenon, <1>2, <1>3, <1>4, <1>5, <1>6

\* A step of one pass that deletes nothing.
LEMMA PassKeeps ==
    ASSUME Margin, IInv, NEW g \in Collectors, NEW state \in CollectorState,
           gc' = [gc EXCEPT ![g] = state], UNCHANGED <<now, stamp, head, version, wr, torn>>,
           state.pc # "idle" => state.started <= now,
           PassAt(g)'
    PROVE  IInv'
<1> USE DEF IInv
<1>1. /\ gc' \in [Collectors -> CollectorState]
      /\ gc'[g] = state
      /\ \A f \in Collectors : f # g => gc'[f] = gc[f]
  BY Zenon, CollectorStep DEF TypeOK
<1>2. TypeOK'
  BY Zenon, <1>1 DEF TypeOK
<1>3. ClockInv'
  BY Zenon, <1>1 DEF ClockInv, Timed, Limit, IsCompaction
<1>4. StoredInv' /\ HeadObjectsKept'
  BY Zenon DEF StoredInv, StoredAt, Viable, IsCompaction, Lost, HeadObjectsKept, Needed
<1>5. PassInv'
  <2>1. ASSUME NEW f \in Collectors, f # g PROVE PassAt(f)'
    <3>1. Needed(gc[f].chain)' \subseteq Needed(gc[f].chain) /\ gc'[f] = gc[f] /\ PassAt(f)
      BY Zenon, <1>1, <2>1 DEF Needed, PassInv
    <3> QED BY Zenon, <3>1, PassFrame, QuietCalm
  <2> QED BY Zenon, <2>1 DEF PassInv
<1> QED BY Zenon, <1>2, <1>3, <1>4, <1>5

-----------------------------------------------------------------------------
(* Writers *)

\* A call begins with nothing stored.
LEMMA BeginKeeps ==
    ASSUME Margin, IInv, NEW w \in Writers, NEW inputs \in SUBSET head[wr[w].chain],
           NEW output \in Runs, WriteBegin(w, inputs, output)
    PROVE  IInv'
<1> DEFINE state == [wr[w] EXCEPT !.pc = "upload", !.started = now, !.inputs = inputs,
                                  !.output = output, !.stored = {}]
<1>1. wr[w] \in WriterState /\ now \in Nat /\ inputs \subseteq SUBSET Objects /\ output \subseteq Objects
      /\ stamp \in [Keys -> Int \cup {Absent}]
  BY KeysAssumption DEF IInv, TypeOK, WriterState
<1>2. state \in WriterState
  BY Zenon, <1>1 DEF WriterState
<1>3. wr' = [wr EXCEPT ![w] = state]
  BY Zenon DEF WriteBegin
<1>4. wr'[w] = state
  BY Zenon, <1>3 DEF IInv, TypeOK
<1>5. Timed(w)' => now <= state.started + Limit(w)'
  BY <1>1, <1>4, TimeAssumption DEF Timed, Limit, WriterState
<1>6. StoredAt(w)'
  BY Zenon, <1>1, <1>4 DEF StoredAt, WriterState
<1>7. state.pc = "upload" /\ state.started <= now
  BY <1>1 DEF WriterState
<1>8. UNCHANGED <<now, head, version, gc>> /\ stamp' \in [Keys -> Int \cup {Absent}] /\ Calm
  BY Zenon, <1>1, QuietCalm DEF WriteBegin
<1> HIDE DEF state
<1> QED BY Zenon, <1>2, <1>3, <1>5, <1>6, <1>7, <1>8, CallKeeps

\* A call ends, in whatever way.
LEMMA EndKeeps ==
    ASSUME Margin, IInv, NEW w \in Writers, wr' = [wr EXCEPT ![w] = IdleWriter(wr[w].chain)],
           UNCHANGED <<now, stamp, head, version, gc, torn>>
    PROVE  IInv'
<1>1. wr[w].chain \in Chains /\ now \in Nat /\ stamp \in [Keys -> Int \cup {Absent}]
  BY Zenon DEF IInv, TypeOK, WriterState
<1>2. IdleWriter(wr[w].chain) \in WriterState
  BY Zenon, <1>1, IdleTyped
<1>3. wr'[w].pc = "idle" /\ IdleWriter(wr[w].chain).pc = "idle"
  BY Zenon DEF IInv, TypeOK, IdleWriter
<1>4. StoredAt(w)' /\ ~Timed(w)'
  BY Zenon, <1>3 DEF StoredAt, Viable, Timed
<1> QED BY Zenon, <1>1, <1>2, <1>3, <1>4, QuietCalm, CallKeeps

\* A call uploads one object.
LEMMA PutKeeps ==
    ASSUME Margin, IInv, NEW w \in Writers, NEW k \in Objects, WritePut(w, k)
    PROVE  IInv'
<1> DEFINE state == [wr[w] EXCEPT !.stored = @ \cup {k}]
<1>1. wr[w] \in WriterState /\ now \in Nat /\ k \in Keys /\ wr[w].pc = "upload"
      /\ wr[w].started \in Nat /\ wr[w].stored \subseteq Keys /\ wr[w].started <= now
  BY Zenon DEF IInv, TypeOK, WritePut, Keys, ClockInv, WriterState
<1>2. state \in WriterState /\ state.pc = "upload" /\ state.started = wr[w].started
      /\ state.stored = wr[w].stored \cup {k} /\ state.inputs = wr[w].inputs
  BY Zenon, <1>1 DEF WriterState
<1>3. wr' = [wr EXCEPT ![w] = state]
  BY Zenon DEF WritePut
<1>4. wr'[w] = state
  BY Zenon, <1>3 DEF IInv, TypeOK
<1> HIDE DEF state
<1>5. /\ stamp' \in [Keys -> Int \cup {Absent}]
      /\ Calm
      /\ stamp'[k] # Absent /\ stamp'[k] >= now - REFRESH_AFTER
  BY Zenon, <1>1, PutStamp DEF IInv, WritePut
<1>6. Timed(w)' => now <= state.started + Limit(w)'
  BY Zenon, <1>1, <1>2, <1>4 DEF IInv, ClockInv, Timed, Limit, IsCompaction
<1>7. Viable(w)' => Viable(w)
  BY Zenon, <1>1, <1>2, <1>4 DEF Viable, IsCompaction, WritePut
<1>8. ASSUME Viable(w), NEW j \in wr[w].stored \cup {k}
      PROVE  ~Lost(j)' /\ (stamp'[j] # Absent => stamp'[j] >= wr[w].started - REFRESH_AFTER)
  <2>1. CASE j = k
    BY <1>1, <1>5, <2>1, TimeAssumption DEF Lost
  <2>2. CASE j \in wr[w].stored
    <3>1. ~Lost(j) /\ (stamp[j] # Absent => stamp[j] >= wr[w].started - REFRESH_AFTER) /\ j \in Keys
      BY Zenon, <1>1, <1>8, <2>2 DEF IInv, StoredInv, StoredAt
    <3> QED BY <1>1, <1>5, <3>1, TimeAssumption DEF Calm
  <2> QED BY Zenon, <2>1, <2>2
<1>9. StoredAt(w)'
  BY Zenon, <1>2, <1>4, <1>7, <1>8 DEF StoredAt
<1> QED BY Zenon, <1>1, <1>2, <1>3, <1>5, <1>6, <1>9, CallKeeps DEF WritePut

\* The run is complete.
LEMMA BuiltKeeps ==
    ASSUME Margin, IInv, NEW w \in Writers, WriteBuilt(w)
    PROVE  IInv'
<1> DEFINE state == [wr[w] EXCEPT !.pc = "commit"]
<1>1. wr[w] \in WriterState /\ now \in Nat /\ wr[w].pc = "upload" /\ wr[w].stored = wr[w].output
      /\ wr[w].started \in Nat /\ wr[w].started <= now /\ stamp \in [Keys -> Int \cup {Absent}]
  BY Zenon DEF IInv, TypeOK, WriteBuilt, ClockInv, WriterState
<1>2. UNCHANGED <<now, stamp, head, version, gc, torn>>
  BY Zenon DEF WriteBuilt
<1>3. CASE IsCompaction(w) /\ now - wr[w].started > MERGE_DEADLINE
  BY Zenon, <1>2, <1>3, EndKeeps DEF WriteBuilt
<1>4. CASE ~(IsCompaction(w) /\ now - wr[w].started > MERGE_DEADLINE)
  <2>0. wr' = [wr EXCEPT ![w] = state]
    BY Zenon, <1>4 DEF WriteBuilt
  <2>1. Viable(w)
    BY <1>1, <1>4, TimeAssumption DEF Viable
  <2>2. state \in WriterState /\ state.pc = "commit" /\ state.started = wr[w].started
        /\ state.stored = wr[w].stored /\ state.output = wr[w].output /\ state.inputs = wr[w].inputs
    BY Zenon, <1>1 DEF WriterState
  <2>3. wr'[w] = state
    BY Zenon, <2>0 DEF IInv, TypeOK
  <2> HIDE DEF state
  <2>4. StoredAt(w)'
    BY Zenon, <1>1, <1>2, <2>1, <2>2, <2>3 DEF IInv, StoredInv, StoredAt, Lost
  <2>5. now <= state.started + Limit(w)'
    <3>1. CASE IsCompaction(w)
      BY <1>1, <1>4, <2>2, <2>3, <3>1, TimeAssumption DEF Limit, IsCompaction
    <3>2. CASE ~IsCompaction(w)
      <4>1. now <= wr[w].started + Limit(w)
        BY Zenon, <1>1, <3>2 DEF IInv, ClockInv, Timed
      <4> QED BY Zenon, <2>2, <2>3, <4>1 DEF Limit, IsCompaction
    <3> QED BY Zenon, <3>1, <3>2
  <2> QED BY Zenon, <1>1, <1>2, <2>0, <2>2, <2>4, <2>5, QuietCalm, CallKeeps
<1> QED BY Zenon, <1>3, <1>4

\* A call between its build and its end moves on without storing objects of its own.
LEMMA CommitKeeps ==
    ASSUME Margin, IInv, NEW w \in Writers, NEW state \in WriterState,
           wr[w].pc \in {"commit", "swap"}, state.pc \in {"commit", "swap"},
           state.pc = "swap" => state.basis < MaxCommits,
           state.started = wr[w].started, state.stored = wr[w].stored,
           state.output = wr[w].output, state.inputs = wr[w].inputs,
           wr' = [wr EXCEPT ![w] = state], UNCHANGED <<now, head, version, gc>>,
           stamp' \in [Keys -> Int \cup {Absent}], Calm
    PROVE  IInv'
<1>1. wr'[w] = state /\ wr[w].stored \subseteq Keys /\ wr[w].started \in Nat /\ now \in Nat
  BY Zenon DEF IInv, TypeOK, WriterState, Keys
<1>2. Viable(w) /\ Timed(w) /\ StoredAt(w)
  BY Zenon DEF Viable, Timed, IInv, StoredInv
<1>3. wr[w].started <= now /\ now <= wr[w].started + Limit(w)
  BY Zenon, <1>2 DEF IInv, ClockInv, Timed
<1>4. now <= state.started + Limit(w)'
  BY Zenon, <1>1, <1>3 DEF Limit, IsCompaction
<1>5. StoredAt(w)'
  BY <1>1, <1>2, <1>3, TimeAssumption DEF StoredAt, Calm
<1> QED BY Zenon, <1>3, <1>4, <1>5, CallKeeps

\* The copy of the head is staged.
LEMMA StageKeeps ==
    ASSUME Margin, IInv, NEW w \in Writers, WriteStage(w)
    PROVE  IInv'
<1> DEFINE c == wr[w].chain
           state == [wr[w] EXCEPT !.pc = "swap", !.basis = version[c]]
<1>1. wr[w] \in WriterState /\ c \in Chains /\ version[c] \in Nat /\ version[c] < MaxCommits
      /\ wr[w].pc = "commit"
  BY TimeAssumption DEF IInv, TypeOK, WriterState, WriteStage
<1>2. state \in WriterState /\ state.pc = "swap" /\ state.basis < MaxCommits
      /\ state.started = wr[w].started /\ state.stored = wr[w].stored
      /\ state.output = wr[w].output /\ state.inputs = wr[w].inputs
  BY Zenon, <1>1 DEF WriterState
<1>3. wr' = [wr EXCEPT ![w] = state] /\ UNCHANGED <<now, head, version, gc>>
  BY Zenon DEF WriteStage
<1>4. stamp' \in [Keys -> Int \cup {Absent}] /\ Calm
  <2>1. CASE version[c] = 0
    BY Zenon, <2>1, QuietCalm DEF WriteStage, IInv, TypeOK
  <2>2. CASE version[c] # 0
    <3>1. <<c, version[c]>> \in Keys
      BY <1>1, <2>2, TimeAssumption DEF Keys, Copies
    <3> QED BY Zenon, <2>2, <3>1, PutStamp DEF WriteStage, IInv
  <2> QED BY Zenon, <2>1, <2>2
<1> HIDE DEF state
<1> QED BY Zenon, <1>1, <1>2, <1>3, <1>4, CommitKeeps

\* The swap is refused.
LEMMA SwapLostKeeps ==
    ASSUME Margin, IInv, NEW w \in Writers, WriteSwapLost(w)
    PROVE  IInv'
<1> DEFINE state == [wr[w] EXCEPT !.pc = "commit"]
<1>1. wr[w] \in WriterState /\ wr[w].pc = "swap" /\ stamp \in [Keys -> Int \cup {Absent}]
  BY Zenon DEF IInv, TypeOK, WriteSwapLost
<1>2. state \in WriterState /\ state.pc = "commit"
      /\ state.started = wr[w].started /\ state.stored = wr[w].stored
      /\ state.output = wr[w].output /\ state.inputs = wr[w].inputs
  BY Zenon, <1>1 DEF WriterState
<1>3. wr' = [wr EXCEPT ![w] = state] /\ UNCHANGED <<now, stamp, head, version, gc, torn>>
  BY Zenon DEF WriteSwapLost
<1> HIDE DEF state
<1> QED BY Zenon, <1>1, <1>2, <1>3, QuietCalm, CommitKeeps

\* The head is swapped: what it comes to need is stored and young.
LEMMA SwapKeeps ==
    ASSUME Margin, IInv, NEW w \in Writers, WriteSwap(w)
    PROVE  IInv'
<1> DEFINE c == wr[w].chain
<1>1. wr[w] \in WriterState /\ c \in Chains /\ version[c] \in 0 .. MaxCommits /\ now \in Nat
      /\ wr[w].pc = "swap" /\ version[c] < MaxCommits
      /\ wr[w].output \subseteq Objects /\ wr[w].started \in Nat
  BY Zenon DEF IInv, TypeOK, WriterState, WriteSwap
<1>2. UNCHANGED <<now, stamp, gc, torn>>
      /\ version' = [version EXCEPT ![c] = @ + 1]
      /\ head' = [head EXCEPT ![c] = (@ \ wr[w].inputs) \cup {wr[w].output}]
      /\ wr' = [wr EXCEPT ![w] = IdleWriter(c)]
  BY Zenon DEF WriteSwap
<1>3. IdleWriter(c) \in WriterState /\ IdleWriter(c).pc = "idle"
  BY Zenon, <1>1, IdleTyped DEF IdleWriter
<1>4. /\ wr' \in [Writers -> WriterState]
      /\ wr'[w] = IdleWriter(c)
      /\ \A v \in Writers : v # w => wr'[v] = wr[v]
  BY Zenon, <1>2, <1>3, WriterStep DEF IInv, TypeOK
<1>5. TypeOK'
  <2>1. version' \in [Chains -> 0 .. MaxCommits]
    <3>1. version[c] + 1 \in 0 .. MaxCommits
      BY <1>1, TimeAssumption
    <3> QED BY Zenon, <1>1, <1>2, <3>1 DEF IInv, TypeOK
  <2>2. head' \in [Chains -> SUBSET SUBSET Objects]
    BY <1>1, <1>2 DEF IInv, TypeOK
  <2> QED BY Zenon, <1>2, <1>3, <1>4, <2>1, <2>2 DEF IInv, TypeOK
<1>6. ClockInv'
  BY Zenon, <1>2, <1>3, <1>4 DEF IInv, ClockInv, Timed, Limit, IsCompaction
<1>7. StoredInv'
  <2>1. StoredAt(w)'
    BY Zenon, <1>3, <1>4 DEF StoredAt, Viable
  <2>2. now' \in Nat /\ now' >= now
    BY <1>1, <1>2
  <2> QED BY Zenon, <1>2, <1>4, <2>1, <2>2, StoredFrame, QuietCalm DEF IInv, StoredInv
<1>8. \A d \in Chains : UNION head'[d] \subseteq Needed(d) \cup wr[w].output
  BY <1>1, <1>2 DEF Needed, IInv, TypeOK
<1>9. ASSUME NEW k \in wr[w].output
      PROVE  ~Lost(k) /\ (stamp[k] # Absent => stamp[k] >= wr[w].started - REFRESH_AFTER)
  BY Zenon, <1>1, <1>9 DEF IInv, StoredInv, StoredAt, Viable
<1>10. Viable(w)
  BY Zenon, <1>1 DEF Viable
<1>11. PassInv'
  <2>1. ASSUME NEW g \in Collectors PROVE PassAt(g)'
    <3>1. PassAt(g) /\ gc[g].chain \in Chains /\ gc[g].started \in Nat
          /\ (gc[g].pc # "idle" => gc[g].started <= now) /\ Candidates(g) \subseteq Keys
      BY DEF IInv, PassInv, TypeOK, CollectorState, ClockInv, Candidates
    <3>2. cutoff(g)' = cutoff(g) /\ Candidates(g)' = Candidates(g) /\ \A k : Old(g, k)' = Old(g, k)
      BY Zenon, <1>2 DEF cutoff, Candidates, Old
    <3>3. ASSUME gc[g].pc = "delete", NEW k \in Candidates(g) \cap Needed(gc[g].chain)', stamp[k] # Absent
          PROVE  stamp[k] > cutoff(g)
      <4>1. CASE k \in Needed(gc[g].chain)
        BY Zenon, <3>1, <3>3, <4>1 DEF PassAt
      <4>2. CASE k \in wr[w].output
        <5>1. stamp[k] \in Int
          BY Zenon, <3>1, <3>3 DEF IInv, TypeOK
        <5> QED BY Zenon, <1>9, <1>10, <3>3, <4>2, <5>1, ViableYoung DEF IInv
      <4>3. Needed(gc[g].chain)' = UNION head'[gc[g].chain]
        BY Zenon, <1>2 DEF Needed
      <4> QED BY Zenon, <1>8, <3>1, <3>3, <4>1, <4>2, <4>3
    <3> QED BY Zenon, <1>2, <3>1, <3>2, <3>3 DEF PassAt
  <2> QED BY Zenon, <2>1 DEF PassInv
<1>12. HeadObjectsKept'
  BY Zenon, <1>2, <1>8, <1>9 DEF IInv, HeadObjectsKept, Lost, Needed
<1> QED BY Zenon, <1>5, <1>6, <1>7, <1>11, <1>12 DEF IInv

\* Time passes only as far as the calls in progress may take.
LEMMA TickKeeps ==
    ASSUME Margin, IInv, Tick
    PROVE  IInv'
<1>1. now \in Nat /\ now' = now + 1 /\ UNCHANGED <<stamp, head, version, wr, gc, torn>>
  BY Zenon DEF Tick, IInv, TypeOK
<1>2. TypeOK'
  BY <1>1 DEF IInv, TypeOK
<1>3. ClockInv'
  <2>1. ASSUME NEW w \in Writers
        PROVE  /\ wr[w].pc # "idle" => wr[w].started <= now'
               /\ Timed(w)' => now' <= wr[w].started + Limit(w)
    <3>1. wr[w].started \in Nat /\ Limit(w) \in Nat /\ (Timed(w)' => Timed(w))
      BY <1>1, TimeAssumption DEF IInv, TypeOK, WriterState, Limit, Timed, IsCompaction
    <3>2. Timed(w) => now < wr[w].started + Limit(w)
      BY Zenon DEF Tick
    <3>3. wr[w].pc # "idle" => wr[w].started <= now
      BY Zenon DEF IInv, ClockInv
    <3> QED BY <1>1, <3>1, <3>2, <3>3
  <2>2. ASSUME NEW g \in Collectors PROVE gc[g].pc # "idle" => gc[g].started <= now'
    BY <1>1 DEF IInv, TypeOK, CollectorState, ClockInv
  <2>3. \A w \in Writers : Limit(w)' = Limit(w)
    BY Zenon, <1>1 DEF Limit, IsCompaction
  <2> QED BY Zenon, <1>1, <2>1, <2>2, <2>3 DEF ClockInv
<1>4. StoredInv'
  <2>1. now' \in Nat /\ now' >= now
    BY <1>1
  <2> QED BY Zenon, <1>1, <2>1, StoredFrame, QuietCalm DEF IInv, StoredInv
<1>5. PassInv' /\ HeadObjectsKept'
  BY Zenon, <1>1 DEF IInv, PassInv, PassAt, Candidates, cutoff, Old, Needed, HeadObjectsKept
<1> QED BY Zenon, <1>2, <1>3, <1>4, <1>5 DEF IInv

-----------------------------------------------------------------------------
(* Collectors *)

\* A pass starts, or ends in whatever way.
LEMMA EdgeKeeps ==
    ASSUME Margin, IInv, NEW g \in Collectors, GcStart(g) \/ GcFinish(g) \/ GcStop(g)
    PROVE  IInv'
<1> DEFINE c == gc[g].chain
           begun == [pc |-> "list", chain |-> c, started |-> now,
                     live |-> reachable(c), doomed |-> {}, checked |-> {}]
<1>1. c \in Chains /\ now \in Nat /\ gc \in [Collectors -> CollectorState]
  BY Zenon DEF IInv, TypeOK, CollectorState
<1>2. UNCHANGED <<now, stamp, head, version, wr, torn>>
  BY Zenon DEF GcStart, GcFinish, GcStop
<1>3. begun \in CollectorState /\ IdleCollector(c) \in CollectorState
  BY Zenon, <1>1, ReachableKeys, IdleTyped DEF CollectorState, IInv
<1>4. PICK state \in {begun, IdleCollector(c)} : gc' = [gc EXCEPT ![g] = state]
  BY Zenon DEF GcStart, GcFinish, GcStop
<1>5. state \in CollectorState /\ state.pc \in {"list", "idle"} /\ state.checked = {}
      /\ (state.pc # "idle" => state.started <= now)
  BY <1>1, <1>3, <1>4 DEF IdleCollector
<1>6. gc'[g] = state
  BY Zenon, <1>1, <1>4
<1>7. PassAt(g)'
  BY Zenon, <1>5, <1>6 DEF PassAt
<1> QED BY Zenon, <1>2, <1>4, <1>5, <1>7, PassKeeps

\* The listing makes every old key a candidate.
LEMMA ListKeeps ==
    ASSUME Margin, IInv, NEW g \in Collectors, GcList(g)
    PROVE  IInv'
<1> DEFINE old == {k \in Keys : Old(g, k)}
           state == [gc[g] EXCEPT !.pc = "reread", !.doomed = old]
<1>1. gc[g] \in CollectorState /\ gc[g].pc = "list" /\ gc[g].checked = {} /\ gc[g].started <= now
  BY Zenon DEF IInv, TypeOK, GcList, PassInv, PassAt, ClockInv
<1>2. state \in CollectorState /\ state.pc = "reread" /\ state.started = gc[g].started
      /\ state.checked = {} /\ state.doomed = old
  BY Zenon, <1>1 DEF CollectorState
<1>3. gc' = [gc EXCEPT ![g] = state] /\ UNCHANGED <<now, stamp, head, version, wr, torn>>
  BY Zenon DEF GcList, Old
<1>4. gc'[g] = state
  BY Zenon, <1>3 DEF IInv, TypeOK
<1>5. \A k : Old(g, k)' => Old(g, k)
  BY Zenon, <1>2, <1>3, <1>4 DEF Old, cutoff
<1>6. old = Candidates(g)'
  BY Zenon, <1>2, <1>4 DEF Candidates
<1> HIDE DEF state
<1>7. PassAt(g)'
  BY Zenon, <1>2, <1>4, <1>5, <1>6 DEF PassAt
<1> QED BY Zenon, <1>1, <1>2, <1>3, <1>7, PassKeeps

\* The second walk takes what the present head needs off the candidates.
LEMMA RereadKeeps ==
    ASSUME Margin, IInv, NEW g \in Collectors, GcReread(g)
    PROVE  IInv'
<1> DEFINE live == gc[g].live \cup reachable(gc[g].chain)
           state == [gc[g] EXCEPT !.pc = "delete", !.live = live, !.doomed = @ \ live]
<1>1. gc[g] \in CollectorState /\ gc[g].pc = "reread" /\ gc[g].checked = {} /\ gc[g].started <= now
      /\ gc[g].chain \in Chains /\ gc[g].live \subseteq Keys /\ PassAt(g)
  BY Zenon DEF IInv, TypeOK, GcReread, PassInv, PassAt, ClockInv, CollectorState
<1>2. live \subseteq Keys /\ Needed(gc[g].chain) \subseteq live
  BY Zenon, <1>1, ReachableKeys DEF IInv, reachable
<1> HIDE DEF live
<1>3. state \in CollectorState /\ state.pc = "delete" /\ state.started = gc[g].started
      /\ state.checked = {} /\ state.doomed = gc[g].doomed \ live /\ state.live = live
      /\ state.chain = gc[g].chain
  BY Zenon, <1>1, <1>2 DEF CollectorState
<1>4. gc' = [gc EXCEPT ![g] = state] /\ UNCHANGED <<now, stamp, head, version, wr, torn>>
  BY Zenon DEF GcReread, live
<1>5. gc'[g] = state
  BY Zenon, <1>4 DEF IInv, TypeOK
<1> HIDE DEF state
<1>6. \A k : Old(g, k)' => Old(g, k)
  BY Zenon, <1>3, <1>4, <1>5 DEF Old, cutoff
<1>7. Candidates(g)' = gc[g].doomed \ live /\ Candidates(g) = gc[g].doomed
  BY Zenon, <1>1, <1>3, <1>5 DEF Candidates
<1>8. Needed(gc[g].chain)' = Needed(gc[g].chain)
  BY Zenon, <1>3, <1>4, <1>5 DEF Needed
<1>9. gc[g].live \subseteq live
  BY Zenon DEF live
<1>10. PassAt(g)'
  BY Zenon, <1>1, <1>2, <1>3, <1>5, <1>6, <1>7, <1>8, <1>9 DEF PassAt
<1> QED BY Zenon, <1>1, <1>3, <1>4, <1>10, PassKeeps

\* A candidate is looked at once more.
LEMMA CheckKeeps ==
    ASSUME Margin, IInv, NEW g \in Collectors, NEW k \in Keys, GcCheck(g, k)
    PROVE  IInv'
<1> DEFINE entry == [key |-> k, seen |-> stamp[k]]
           found == IF stamp[k] = Absent \/ stamp[k] > cutoff(g) THEN {} ELSE {entry}
           state == [gc[g] EXCEPT !.doomed = @ \ {k}, !.checked = @ \cup found]
<1>1. gc[g] \in CollectorState /\ gc[g].pc = "delete" /\ k \in gc[g].doomed /\ gc[g].started <= now
      /\ gc[g].started \in Nat /\ cutoff(g) \in Int /\ stamp \in [Keys -> Int \cup {Absent}] /\ PassAt(g)
  BY TimeAssumption DEF IInv, TypeOK, GcCheck, PassInv, ClockInv, CollectorState, cutoff
<1>2. found \subseteq [key : Keys, seen : Int] /\ \A e \in found : e.seen <= cutoff(g) /\ e.key = k
  BY <1>1, TimeAssumption
<1>3. ASSUME Old(g, k) PROVE k \in {e.key : e \in found}
  <2>1. found = {entry}
    BY <1>1, <1>3 DEF Old
  <2> QED BY Zenon, <2>1
<1>4. gc' = [gc EXCEPT ![g] = state] /\ UNCHANGED <<now, stamp, head, version, wr, torn>>
  BY Zenon DEF GcCheck
<1> HIDE DEF found
<1>5. state \in CollectorState /\ state.pc = "delete" /\ state.started = gc[g].started
      /\ state.checked = gc[g].checked \cup found /\ state.doomed = gc[g].doomed \ {k}
      /\ state.live = gc[g].live /\ state.chain = gc[g].chain
  BY Zenon, <1>1, <1>2 DEF CollectorState
<1>6. gc'[g] = state
  BY Zenon, <1>4 DEF IInv, TypeOK
<1> HIDE DEF state
<1>7. cutoff(g)' = cutoff(g) /\ (\A j : Old(g, j)' => Old(g, j))
      /\ Needed(gc[g].chain)' = Needed(gc[g].chain)
  BY Zenon, <1>4, <1>5, <1>6 DEF Old, cutoff, Needed
<1>8. Candidates(g)' = (gc[g].doomed \ {k}) \cup {e.key : e \in gc[g].checked \cup found}
      /\ Candidates(g) = gc[g].doomed \cup {e.key : e \in gc[g].checked}
  BY Zenon, <1>5, <1>6 DEF Candidates
<1>9. Candidates(g)' \subseteq Candidates(g)
  BY Zenon, <1>1, <1>2, <1>8
<1>10. \A j \in Candidates(g) : Old(g, j) => j \in Candidates(g)'
  BY Zenon, <1>3, <1>8
<1>11. \A e \in gc'[g].checked : e.seen <= cutoff(g)
  BY Zenon, <1>1, <1>2, <1>5, <1>6 DEF PassAt
<1>12. PassAt(g)'
  BY Zenon, <1>1, <1>4, <1>5, <1>6, <1>7, <1>9, <1>10, <1>11 DEF PassAt
<1> QED BY Zenon, <1>1, <1>4, <1>5, <1>12, PassKeeps

\* A delete takes nothing that a head needs or a viable call has stored, unless
\* the key was written after its age was checked.
LEMMA DeleteKeeps ==
    ASSUME Margin, OneChain, IInv, NEW g \in Collectors, NEW entry \in gc[g].checked,
           GcDelete(g, entry)
    PROVE  IInv'
<1> DEFINE k == entry.key
           state == [gc[g] EXCEPT !.checked = @ \ {entry}]
<1>1. gc[g] \in CollectorState /\ gc[g].pc = "delete" /\ gc[g].started <= now /\ now \in Nat
      /\ gc[g].started \in Nat /\ cutoff(g) \in Int /\ stamp \in [Keys -> Int \cup {Absent}] /\ PassAt(g)
      /\ entry \in [key : Keys, seen : Int] /\ gc[g].chain \in Chains
  BY TimeAssumption DEF IInv, TypeOK, GcDelete, PassInv, ClockInv, CollectorState, cutoff
<1>2. k \in Keys /\ entry.seen \in Int /\ entry.seen <= cutoff(g) /\ k \in Candidates(g)
  BY Zenon, <1>1 DEF PassAt, Candidates
<1>3. gc' = [gc EXCEPT ![g] = state] /\ UNCHANGED <<now, head, version, wr>>
      /\ stamp' = [stamp EXCEPT ![k] = Absent]
      /\ torn' = IF stamp[k] \in {Absent, entry.seen} THEN torn ELSE torn \cup {k}
  BY Zenon DEF GcDelete
<1>4. state \in CollectorState /\ state.pc = "delete" /\ state.started = gc[g].started
      /\ state.checked = gc[g].checked \ {entry} /\ state.doomed = gc[g].doomed
      /\ state.live = gc[g].live /\ state.chain = gc[g].chain
  BY Zenon, <1>1 DEF CollectorState
<1> HIDE DEF state, k
<1>5. /\ gc' \in [Collectors -> CollectorState]
      /\ gc'[g] = state
      /\ \A f \in Collectors : f # g => gc'[f] = gc[f]
  BY Zenon, <1>3, <1>4, CollectorStep DEF IInv, TypeOK
<1>6. stamp'[k] = Absent /\ \A j \in Keys : j # k => stamp'[j] = stamp[j]
  BY Zenon, <1>1, <1>2, <1>3
<1>7. ASSUME NEW j \in Keys, ~Lost(j), j = k => stamp[k] = Absent \/ stamp[k] > cutoff(g)
      PROVE  ~Lost(j)'
  <2>1. stamp[k] # Absent /\ stamp[k] > cutoff(g) => stamp[k] \notin {Absent, entry.seen}
    BY <1>1, <1>2
  <2> QED BY Zenon, <1>3, <1>6, <1>7, <2>1 DEF Lost
<1>8. TypeOK'
  BY Zenon, <1>2, <1>3, <1>5 DEF IInv, TypeOK
<1>9. ClockInv'
  <2>1. \A f \in Collectors : gc'[f].pc = gc[f].pc /\ gc'[f].started = gc[f].started
    BY Zenon, <1>1, <1>4, <1>5
  <2> QED BY Zenon, <1>3, <2>1 DEF IInv, ClockInv, Timed, Limit, IsCompaction
<1>10. StoredInv'
  <2>1. ASSUME NEW v \in Writers PROVE StoredAt(v)'
    <3>1. StoredAt(v) /\ wr[v].started \in Nat /\ wr[v].stored \subseteq Keys
      BY Zenon DEF IInv, StoredInv, TypeOK, WriterState, Keys
    <3>2. Viable(v)' => Viable(v)
      BY Zenon, <1>3 DEF Viable, IsCompaction
    <3>3. ASSUME Viable(v), NEW j \in wr[v].stored
          PROVE  ~Lost(j)' /\ (stamp'[j] # Absent => stamp'[j] >= wr[v].started - REFRESH_AFTER)
      <4>1. ~Lost(j) /\ j \in Keys /\ (stamp[j] # Absent => stamp[j] >= wr[v].started - REFRESH_AFTER)
        BY Zenon, <3>1, <3>3 DEF StoredAt
      <4>3. stamp[j] # Absent => stamp[j] > cutoff(g)
        BY Zenon, <1>1, <3>3, <4>1, ViableYoung DEF IInv
      <4> QED BY Zenon, <1>6, <1>7, <4>1, <4>3
    <3> QED BY Zenon, <1>3, <3>1, <3>2, <3>3 DEF StoredAt
  <2> QED BY Zenon, <2>1 DEF StoredInv
<1>11. PassInv'
  <2>1. ASSUME NEW f \in Collectors PROVE PassAt(f)'
    <3>1. PassAt(f) /\ gc'[f].pc = gc[f].pc /\ gc'[f].live = gc[f].live /\ gc'[f].doomed = gc[f].doomed
          /\ gc'[f].checked \subseteq gc[f].checked /\ gc'[f].chain = gc[f].chain
          /\ cutoff(f)' = cutoff(f)
      BY Zenon, <1>1, <1>4, <1>5 DEF IInv, PassInv, cutoff
    <3>2. Candidates(f)' \subseteq Candidates(f) /\ Candidates(f) \subseteq Candidates(f)' \cup {k}
      BY <1>4, <1>5, <3>1 DEF Candidates, k
    <3>3. Candidates(f) \subseteq Keys
      BY DEF IInv, TypeOK, CollectorState, Candidates
    <3>6. Needed(gc[f].chain)' = Needed(gc[f].chain)
      BY Zenon, <1>3, <3>1 DEF Needed
    <3>4. \A j \in Keys : Old(f, j)' => Old(f, j) /\ j # k
      BY Zenon, <1>6, <3>1 DEF Old
    <3>5. \A j \in Keys : stamp'[j] # Absent => stamp'[j] = stamp[j]
      BY Zenon, <1>6
    <3> QED BY Zenon, <3>1, <3>2, <3>3, <3>4, <3>5, <3>6 DEF PassAt
  <2> QED BY Zenon, <2>1 DEF PassInv
<1>12. HeadObjectsKept'
  <2>1. ASSUME NEW c \in Chains, NEW j \in Needed(c) PROVE ~Lost(j)'
    <3>1. j \in Keys /\ ~Lost(j)
      BY Zenon, <2>1, ReachableKeys DEF IInv, HeadObjectsKept, Lost, Keys
    <3>2. c = gc[g].chain
      BY Zenon, <1>1 DEF OneChain
    <3>3. j = k => stamp[k] = Absent \/ stamp[k] > cutoff(g)
      BY Zenon, <1>1, <1>2, <2>1, <3>2 DEF PassAt
    <3> QED BY Zenon, <1>7, <3>1, <3>3
  <2> QED BY Zenon, <1>3, <2>1 DEF HeadObjectsKept, Lost, Needed
<1> QED BY Zenon, <1>8, <1>9, <1>10, <1>11, <1>12 DEF IInv

-----------------------------------------------------------------------------
(* The invariant *)

\* No call and no pass is under way at first.
LEMMA InitIdle ==
    ASSUME Init
    PROVE  /\ \A w \in Writers : wr[w] \in WriterState /\ wr[w].pc = "idle"
           /\ \A g \in Collectors : gc[g] \in CollectorState /\ gc[g].pc = "idle" /\ gc[g].checked = {}
<1>1. ASSUME NEW w \in Writers PROVE wr[w] \in WriterState /\ wr[w].pc = "idle"
  <2>1. PICK c \in Chains : wr[w] = IdleWriter(c)
    BY Zenon DEF Init
  <2>2. IdleWriter(c).pc = "idle"
    BY Zenon DEF IdleWriter
  <2> QED BY Zenon, <2>1, <2>2, IdleTyped
<1>2. ASSUME NEW g \in Collectors
      PROVE  gc[g] \in CollectorState /\ gc[g].pc = "idle" /\ gc[g].checked = {}
  <2>1. PICK c \in Chains : gc[g] = IdleCollector(c)
    BY Zenon DEF Init
  <2>2. IdleCollector(c).pc = "idle" /\ IdleCollector(c).checked = {}
    BY Zenon DEF IdleCollector
  <2> QED BY Zenon, <2>1, <2>2, IdleTyped
<1> QED BY Zenon, <1>1, <1>2

\* Nothing is stored, running or listed at the start.
LEMMA InitKeeps == Init => IInv
<1> SUFFICES ASSUME Init PROVE IInv
  BY Zenon
<1>1. \A w \in Writers : wr[w] \in WriterState /\ wr[w].pc = "idle"
  BY Zenon, InitIdle
<1>2. \A g \in Collectors : gc[g] \in CollectorState /\ gc[g].pc = "idle" /\ gc[g].checked = {}
  BY Zenon, InitIdle
<1>3. TypeOK
  BY <1>1, <1>2, TimeAssumption DEF Init, TypeOK
<1>4. ClockInv /\ StoredInv /\ PassInv
  BY Zenon, <1>1, <1>2 DEF ClockInv, Timed, StoredInv, StoredAt, Viable, PassInv, PassAt
<1>5. HeadObjectsKept
  BY Zenon DEF Init, HeadObjectsKept, Needed
<1> QED BY Zenon, <1>3, <1>4, <1>5 DEF IInv

\* Every step keeps the invariant, given the margin and a single chain.
LEMMA StepKeeps ==
    ASSUME Margin, OneChain, IInv, [Next]_vars
    PROVE  IInv'
<1>1. CASE UNCHANGED vars
  <2>1. UNCHANGED <<now, stamp, head, version, wr, gc, torn>>
    BY Zenon, <1>1 DEF vars
  <2>2. TypeOK'
    BY Zenon, <2>1 DEF IInv, TypeOK
  <2>3. ClockInv'
    BY Zenon, <2>1 DEF IInv, ClockInv, Timed, Limit, IsCompaction
  <2>4. StoredInv'
    BY <2>1, <2>2, StoredFrame, QuietCalm DEF IInv, StoredInv, TypeOK
  <2>5. PassInv'
    BY Zenon, <2>1 DEF IInv, PassInv, PassAt, Candidates, cutoff, Old, Needed
  <2>6. HeadObjectsKept'
    BY Zenon, <2>1 DEF IInv, HeadObjectsKept, Needed
  <2> QED BY Zenon, <2>2, <2>3, <2>4, <2>5, <2>6 DEF IInv
<1>2. CASE Tick
  BY Zenon, <1>2, TickKeeps
<1>3. ASSUME NEW w \in Writers, WriteSwap(w) \/ WriteStop(w) PROVE IInv'
  BY Zenon, <1>3, SwapKeeps, EndKeeps DEF WriteStop
<1>4. CASE Next /\ ~Tick
  BY Zenon, <1>3, <1>4, BeginKeeps, PutKeeps, BuiltKeeps, StageKeeps, SwapLostKeeps,
     EdgeKeeps, ListKeeps, RereadKeeps, CheckKeeps, DeleteKeeps DEF Next
<1> QED BY Zenon, <1>1, <1>2, <1>4

-----------------------------------------------------------------------------
(* The theorems *)

\* A collector beside writers never takes an object the head needs, whatever the
\* numbers of writers, collectors and objects and the durations, as long as the
\* grace age of collect_garbage exceeds the age at which put_immutable still
\* leaves a stamp alone plus the longest call, and the store holds one chain.
THEOREM CollectorSafe ==
    ASSUME Margin, OneChain
    PROVE  Spec => []HeadObjectsKept
<1>1. Init => IInv
  BY Zenon, InitKeeps
<1>2. IInv /\ [Next]_vars => IInv'
  BY Zenon, StepKeeps
<1>3. IInv => HeadObjectsKept
  BY Zenon DEF IInv
<1> QED BY <1>1, <1>2, <1>3, PTL DEF Spec

\* A pass of collect_garbage that completes leaves no key that was old at its
\* start and that neither walk reached, under the same conditions.
THEOREM CollectorComplete ==
    ASSUME Margin, OneChain
    PROVE  Spec => PassComplete
<1>1. Init => IInv
  BY InitKeeps
<1>2. IInv /\ [Next]_vars => IInv'
  BY StepKeeps
<1> DEFINE Complete == \A g \in Collectors :
        GcFinish(g) => \A k \in Keys :
            stamp[k] # Absent /\ stamp[k] <= cutoff(g) => k \in gc[g].live
<1>3. IInv => Complete
  <2> SUFFICES ASSUME IInv, NEW g \in Collectors, GcFinish(g), NEW k \in Keys, Old(g, k)
               PROVE  k \in gc[g].live
    BY Zenon DEF Old
  <2>1. gc[g].pc = "delete" /\ Candidates(g) = {}
    BY Zenon DEF GcFinish, Candidates
  <2> QED BY Zenon, <2>1 DEF IInv, PassInv, PassAt
<1>4. IInv /\ [Next]_vars => [Complete]_vars
  BY Zenon, <1>3
<1> HIDE DEF Complete
<1>5. Spec => [][Complete]_vars
  BY <1>1, <1>2, <1>4, PTL DEF Spec
<1> QED BY Zenon, <1>5 DEF PassComplete, Complete

-----------------------------------------------------------------------------
(* The collector also keeps the copies of the most recent heads.  The invariant *)
(* above bounds the time a call takes; here it is used for the copy that a call *)
(* stages.                                                                   *)


\* A copy from number v on was lost in the window the code admits.
TornFrom(c, v) == \E u \in v .. (version[c] - 1) : <<c, u>> \in torn

\* The newest copies, which a pass is to keep.
Recent(c, v) == v \in 1 .. (version[c] - 1) /\ v >= version[c] - KEEP_HEADS

\* The copy that a call staged is there for as long as its swap can succeed.
StagedAt(w) ==
    LET c == wr[w].chain  v == wr[w].basis IN
    wr[w].pc = "swap" =>
        /\ v <= version[c]
        /\ v = version[c] /\ v > 0 =>
             /\ ~Lost(<<c, v>>)
             /\ stamp[<<c, v>>] # Absent => stamp[<<c, v>>] >= wr[w].started - REFRESH_AFTER
StagedInv == \A w \in Writers : StagedAt(w)

\* A recent copy that is a candidate is young, or beyond a copy that was lost.
CopiesAt(g) ==
    LET c == gc[g].chain IN
    gc[g].pc = "delete" => \A v \in Nat :
        Recent(c, v) /\ <<c, v>> \in Candidates(g) /\ stamp[<<c, v>>] # Absent
            => stamp[<<c, v>>] > cutoff(g) \/ TornFrom(c, v)
CopiesInv == \A g \in Collectors : CopiesAt(g)

\* HeadCopiesKept in terms of the definitions above.
RecentInv == \A c \in Chains : \A v \in Nat :
    Recent(c, v) /\ stamp[<<c, v>>] = Absent => TornFrom(c, v)

CInv == StagedInv /\ CopiesInv /\ RecentInv

\* What a writer staged, and where.
LEMMA StagedFacts ==
    ASSUME IInv, CInv, NEW w \in Writers
    PROVE  /\ StagedAt(w) /\ wr[w].chain \in Chains /\ wr[w].basis \in Nat
           /\ version[wr[w].chain] \in Nat
<1>1. StagedAt(w)
  BY Zenon DEF CInv, StagedInv
<1>2. wr[w] \in WriterState /\ \A c \in Chains : version[c] \in Nat
  BY TimeAssumption DEF IInv, TypeOK
<1> QED BY Zenon, <1>1, <1>2, TimeAssumption DEF WriterState

\* A recent copy is a key.
LEMMA CopyKeys ==
    ASSUME TypeOK, NEW c \in Chains, NEW v \in 1 .. version[c]
    PROVE  <<c, v>> \in Keys /\ <<c, v>> \in Copies
<1>1. v \in 1 .. MaxCommits
  BY TimeAssumption DEF TypeOK
<1> QED BY Zenon, <1>1 DEF Keys, Copies

\* A step that touches no copy, no version and no pass.
LEMMA CopiesFrame ==
    ASSUME IInv, CInv, UNCHANGED <<version, gc>>,
           \A j \in Copies : stamp'[j] = stamp[j] /\ (j \in torn <=> j \in torn'),
           \A w \in Writers : wr'[w] = wr[w] \/ wr'[w].pc # "swap"
    PROVE  CInv'
<1>1. ASSUME NEW c \in Chains, NEW v \in 1 .. version[c]
      PROVE  stamp'[<<c, v>>] = stamp[<<c, v>>] /\ (Lost(<<c, v>>)' <=> Lost(<<c, v>>))
             /\ (<<c, v>> \in torn <=> <<c, v>> \in torn')
  BY Zenon, CopyKeys DEF IInv, Lost
<1>2. ASSUME NEW c \in Chains, NEW v \in Nat, Recent(c, v)
      PROVE  stamp'[<<c, v>>] = stamp[<<c, v>>] /\ (TornFrom(c, v)' <=> TornFrom(c, v))
  <2>1. version[c] \in Nat /\ v \in 1 .. version[c] /\ \A u \in v .. (version[c] - 1) : u \in 1 .. version[c]
    BY <1>2 DEF Recent, IInv, TypeOK
  <2>2. stamp'[<<c, v>>] = stamp[<<c, v>>]
    BY Zenon, <1>1, <2>1
  <2>3. \A u \in v .. (version[c] - 1) : <<c, u>> \in torn <=> <<c, u>> \in torn'
    BY Zenon, <1>1, <2>1
  <2> QED BY Zenon, <2>2, <2>3 DEF TornFrom
<1>3. \A c, v : Recent(c, v)' <=> Recent(c, v)
  BY Zenon DEF Recent
<1>4. StagedInv'
  <2>1. ASSUME NEW w \in Writers, wr'[w] = wr[w] PROVE StagedAt(w)'
    <3>1. StagedAt(w) /\ wr[w].chain \in Chains /\ wr[w].basis \in Nat /\ version[wr[w].chain] \in Nat
      BY DEF CInv, StagedInv, IInv, TypeOK, WriterState
    <3> QED BY <1>1, <2>1, <3>1 DEF StagedAt
  <2>2. ASSUME NEW w \in Writers, wr'[w].pc # "swap" PROVE StagedAt(w)'
    BY Zenon, <2>2 DEF StagedAt
  <2> QED BY Zenon, <2>1, <2>2 DEF StagedInv
<1>5. CopiesInv'
  <2>1. ASSUME NEW g \in Collectors PROVE CopiesAt(g)'
    <3>1. CopiesAt(g) /\ gc[g].chain \in Chains
      BY Zenon DEF CInv, CopiesInv, IInv, TypeOK, CollectorState
    <3>2. Candidates(g)' = Candidates(g) /\ cutoff(g)' = cutoff(g)
      BY Zenon DEF Candidates, cutoff
    <3> QED BY Zenon, <1>2, <1>3, <3>1, <3>2 DEF CopiesAt
  <2> QED BY Zenon, <2>1 DEF CopiesInv
<1>6. RecentInv'
  BY Zenon, <1>2, <1>3 DEF CInv, RecentInv
<1> QED BY Zenon, <1>4, <1>5, <1>6 DEF CInv

\* A call stages the copy of the head it is to replace.
LEMMA StageCopies ==
    ASSUME IInv, CInv, NEW w \in Writers, WriteStage(w)
    PROVE  CInv'
<1> DEFINE c == wr[w].chain
           k == <<c, version[c]>>
           state == [wr[w] EXCEPT !.pc = "swap", !.basis = version[c]]
<1>1. wr[w] \in WriterState /\ c \in Chains /\ version[c] \in Nat /\ version[c] < MaxCommits
      /\ wr[w].pc = "commit" /\ wr[w].started <= now /\ wr[w].started \in Nat /\ now \in Nat
  BY TimeAssumption DEF IInv, TypeOK, WriterState, WriteStage, ClockInv
<1>2. wr' = [wr EXCEPT ![w] = state] /\ UNCHANGED <<now, head, version, gc>>
  BY Zenon DEF WriteStage
<1>3. state \in WriterState /\ state.chain = c /\ state.basis = version[c] /\ state.started = wr[w].started
  BY Zenon, <1>1 DEF WriterState
<1> HIDE DEF state
<1>4. wr'[w] = state /\ \A v \in Writers : v # w => wr'[v] = wr[v]
  BY Zenon, <1>2, <1>3, WriterStep DEF IInv, TypeOK
<1>5. Calm /\ (version[c] > 0 => stamp'[k] # Absent /\ stamp'[k] >= now - REFRESH_AFTER)
  <2>1. CASE version[c] = 0
    BY <2>1, QuietCalm DEF WriteStage
  <2>2. CASE version[c] # 0
    <3>1. k \in Keys
      BY <1>1, <2>2, TimeAssumption DEF Keys, Copies
    <3> QED BY Zenon, <2>2, <3>1, PutStamp DEF WriteStage, IInv
  <2> QED BY Zenon, <2>1, <2>2
<1>6. \A j : j # k => (j \in torn <=> j \in torn')
  BY Zenon DEF WriteStage, put_immutable
<1>7. \A j \in Keys : j # k => stamp'[j] = stamp[j]
  BY Zenon DEF WriteStage, put_immutable, IInv, TypeOK
<1>8. StagedInv'
  <2>1. StagedAt(w)'
    <3>1. version[c] > 0 => stamp'[k] # Absent /\ stamp'[k] >= wr[w].started - REFRESH_AFTER
      <4>1. version[c] > 0 => k \in Keys
        BY <1>1, TimeAssumption DEF Keys, Copies
      <4>2. version[c] > 0 => stamp'[k] \in Int
        BY <1>1, <1>5, <4>1 DEF Calm, IInv, TypeOK
      <4> QED BY <1>1, <1>5, <4>2, TimeAssumption
    <3> QED BY <1>1, <1>2, <1>3, <1>4, <3>1 DEF StagedAt, Lost
  <2>2. ASSUME NEW v \in Writers, v # w PROVE StagedAt(v)'
    <3> DEFINE j == <<wr[v].chain, wr[v].basis>>
    <3>1. StagedAt(v) /\ wr[v].chain \in Chains /\ wr[v].basis \in Nat /\ version[wr[v].chain] \in Nat
          /\ wr[v].started \in Nat /\ (wr[v].pc = "swap" => wr[v].started <= now)
      BY DEF CInv, StagedInv, IInv, TypeOK, WriterState, ClockInv
    <3>2. wr[v].pc = "swap" /\ wr[v].basis = version[wr[v].chain] /\ wr[v].basis > 0 => j \in Keys
      BY <3>1, CopyKeys DEF IInv
    <3>3. ASSUME wr[v].pc = "swap", wr[v].basis = version[wr[v].chain], wr[v].basis > 0
          PROVE  /\ stamp'[j] = Absent => j \in torn'
                 /\ stamp'[j] # Absent => stamp'[j] >= wr[v].started - REFRESH_AFTER
      <4>1. ~Lost(j) /\ (stamp[j] # Absent => stamp[j] >= wr[v].started - REFRESH_AFTER) /\ j \in Keys
        BY Zenon, <3>1, <3>2, <3>3 DEF StagedAt
      <4> QED BY <1>1, <1>5, <3>1, <3>3, <4>1, TimeAssumption DEF Calm, Lost
    <3> QED BY Zenon, <1>2, <1>4, <2>2, <3>1, <3>3 DEF StagedAt, Lost
  <2> QED BY Zenon, <2>1, <2>2 DEF StagedInv
<1>9. ASSUME NEW d \in Chains, NEW v \in Nat, Recent(d, v)
      PROVE  stamp'[<<d, v>>] = stamp[<<d, v>>] /\ (TornFrom(d, v)' <=> TornFrom(d, v))
  <2>1. version[d] \in Nat /\ v \in 1 .. version[d] /\ v < version[d]
    BY <1>9 DEF Recent, IInv, TypeOK
  <2>2. \A u \in v .. (version[d] - 1) : <<d, u>> # k
    BY <2>1
  <2>3. <<d, v>> # k /\ <<d, v>> \in Keys
    BY <2>1, CopyKeys DEF IInv
  <2> QED BY Zenon, <1>2, <1>6, <1>7, <2>2, <2>3 DEF TornFrom
<1>10. \A d, v : Recent(d, v)' <=> Recent(d, v)
  BY Zenon, <1>2 DEF Recent
<1>11. CopiesInv'
  <2>1. ASSUME NEW g \in Collectors PROVE CopiesAt(g)'
    <3>1. CopiesAt(g) /\ gc[g].chain \in Chains
      BY Zenon DEF CInv, CopiesInv, IInv, TypeOK, CollectorState
    <3>2. Candidates(g)' = Candidates(g) /\ cutoff(g)' = cutoff(g)
      BY Zenon, <1>2 DEF Candidates, cutoff
    <3> QED BY Zenon, <1>2, <1>9, <1>10, <3>1, <3>2 DEF CopiesAt
  <2> QED BY Zenon, <2>1 DEF CopiesInv
<1>12. RecentInv'
  BY Zenon, <1>9, <1>10 DEF CInv, RecentInv
<1> QED BY Zenon, <1>8, <1>11, <1>12 DEF CInv

\* A swap adds a recent copy, the one its writer staged.
LEMMA SwapCopies ==
    ASSUME Margin, IInv, CInv, NEW w \in Writers, WriteSwap(w)
    PROVE  CInv'
<1> DEFINE c == wr[w].chain
           new == <<c, wr[w].basis>>
<1>1. c \in Chains /\ version[c] \in Nat /\ wr[w].pc = "swap" /\ version[c] = wr[w].basis
      /\ Viable(w) /\ StagedAt(w)
  BY Zenon, TimeAssumption DEF IInv, TypeOK, WriterState, WriteSwap, Viable, CInv, StagedInv
<1>2. UNCHANGED <<now, stamp, gc, torn>> /\ version' = [version EXCEPT ![c] = @ + 1]
      /\ wr' = [wr EXCEPT ![w] = IdleWriter(c)]
  BY Zenon DEF WriteSwap
<1>3. wr'[w].pc = "idle" /\ \A v \in Writers : v # w => wr'[v] = wr[v]
  BY Zenon, <1>2 DEF IInv, TypeOK, IdleWriter
<1>4. version'[c] = version[c] + 1 /\ \A d \in Chains : d # c => version'[d] = version[d]
  BY Zenon, <1>1, <1>2 DEF IInv, TypeOK
<1>5. StagedInv'
  <2>1. StagedAt(w)'
    BY Zenon, <1>3 DEF StagedAt
  <2>2. ASSUME NEW v \in Writers, v # w PROVE StagedAt(v)'
    <3>1. StagedAt(v) /\ wr[v].chain \in Chains /\ wr[v].basis \in Nat /\ version[wr[v].chain] \in Nat
      BY Zenon, StagedFacts
    <3>2. CASE wr[v].chain = c
      BY <1>1, <1>3, <1>4, <2>2, <3>1, <3>2 DEF StagedAt
    <3>3. CASE wr[v].chain # c
      <4>1. wr'[v] = wr[v] /\ version'[wr[v].chain] = version[wr[v].chain]
        BY Zenon, <1>3, <1>4, <2>2, <3>1, <3>3
      <4>2. stamp' = stamp /\ torn' = torn
        BY Zenon, <1>2
      <4> QED BY Zenon, <3>1, <4>1, <4>2 DEF StagedAt, Lost
    <3> QED BY Zenon, <3>2, <3>3
  <2> QED BY Zenon, <2>1, <2>2 DEF StagedInv
<1>6. ASSUME NEW d \in Chains, NEW v \in Nat, Recent(d, v)'
      PROVE  \/ Recent(d, v) /\ (TornFrom(d, v) => TornFrom(d, v)')
             \/ d = c /\ v = wr[w].basis /\ v > 0 /\ (<<d, v>> \in torn => TornFrom(d, v)')
  <2>1. version[d] \in Nat
    BY TimeAssumption DEF IInv, TypeOK
  <2>2. CASE d # c
    BY Zenon, <1>2, <1>4, <1>6, <2>2 DEF Recent, TornFrom
  <2>3. CASE d = c /\ v = version[c]
    <3>1. v > 0 /\ v \in v .. (version'[d] - 1)
      BY <1>1, <1>4, <1>6, <2>3 DEF Recent
    <3> QED BY Zenon, <1>1, <1>2, <2>3, <3>1 DEF TornFrom
  <2>4. CASE d = c /\ v # version[c]
    <3>1. Recent(d, v)
      BY <1>1, <1>4, <1>6, <2>4, TimeAssumption DEF Recent
    <3>2. (v .. (version[d] - 1)) \subseteq v .. (version'[d] - 1)
      BY <1>1, <1>4, <2>4
    <3> QED BY Zenon, <1>2, <3>1, <3>2 DEF TornFrom
  <2> QED BY Zenon, <2>2, <2>3, <2>4
<1>7. wr[w].basis > 0 => (stamp[new] = Absent => new \in torn)
      /\ (stamp[new] # Absent => stamp[new] >= wr[w].started - REFRESH_AFTER)
  BY Zenon, <1>1 DEF StagedAt, Lost
<1>8. CopiesInv'
  <2>1. ASSUME NEW g \in Collectors, gc[g].pc = "delete", NEW v \in Nat, Recent(gc[g].chain, v)',
               <<gc[g].chain, v>> \in Candidates(g), stamp[<<gc[g].chain, v>>] # Absent
        PROVE  stamp[<<gc[g].chain, v>>] > cutoff(g) \/ TornFrom(gc[g].chain, v)'
    <3> DEFINE d == gc[g].chain
    <3>1. d \in Chains /\ CopiesAt(g) /\ Candidates(g) \subseteq Keys
      BY DEF IInv, TypeOK, CollectorState, CInv, CopiesInv, Candidates
    <3>2. CASE Recent(d, v) /\ (TornFrom(d, v) => TornFrom(d, v)')
      BY Zenon, <2>1, <3>1, <3>2 DEF CopiesAt
    <3>3. CASE d = c /\ v = wr[w].basis /\ v > 0
      <4>1. stamp[new] \in Int
        BY Zenon, <2>1, <3>1, <3>3 DEF IInv, TypeOK
      <4>2. stamp[new] > cutoff(g)
        BY Zenon, <1>1, <1>7, <2>1, <3>3, <4>1, ViableYoung DEF IInv
      <4> QED BY Zenon, <3>3, <4>2
    <3>4. gc'[g].chain = d
      BY Zenon, <1>2
    <3>5. \/ Recent(d, v) /\ (TornFrom(d, v) => TornFrom(d, v)')
          \/ d = c /\ v = wr[w].basis /\ v > 0
      <4>1. PICK e \in Chains : e = d
        BY Zenon, <3>1
      <4>2. Recent(e, v)' /\ (TornFrom(e, v)' <=> TornFrom(d, v)') /\ (TornFrom(e, v) <=> TornFrom(d, v))
            /\ (Recent(e, v) <=> Recent(d, v))
        BY Zenon, <2>1, <3>4, <4>1 DEF Recent, TornFrom
      <4> QED BY Zenon, <1>6, <4>1, <4>2
    <3> QED BY Zenon, <3>2, <3>3, <3>5
  <2>2. \A g \in Collectors : Candidates(g)' = Candidates(g) /\ cutoff(g)' = cutoff(g)
    BY Zenon, <1>2 DEF Candidates, cutoff
  <2> QED BY Zenon, <1>2, <2>1, <2>2 DEF CopiesInv, CopiesAt
<1>9. RecentInv'
  BY Zenon, <1>2, <1>6, <1>7 DEF RecentInv, CInv
<1> QED BY Zenon, <1>5, <1>8, <1>9 DEF CInv

\* A step of one pass that deletes nothing.
LEMMA PassCopies ==
    ASSUME IInv, CInv, NEW g \in Collectors, UNCHANGED <<now, stamp, head, version, wr, torn>>,
           \A f \in Collectors : f # g => gc'[f] = gc[f], CopiesAt(g)'
    PROVE  CInv'
<1>1. StagedInv' /\ RecentInv'
  BY Zenon DEF CInv, StagedInv, StagedAt, Lost, RecentInv, Recent, TornFrom
<1>2. ASSUME NEW f \in Collectors, f # g PROVE CopiesAt(f)'
  <2>1. CopiesAt(f) /\ gc'[f] = gc[f]
    BY Zenon, <1>2 DEF CInv, CopiesInv
  <2> QED BY Zenon, <2>1 DEF CopiesAt, Recent, TornFrom, Candidates, cutoff
<1> QED BY Zenon, <1>1, <1>2 DEF CInv, CopiesInv

\* The second walk keeps the recent copies up to the first that is gone.
LEMMA RereadCopies ==
    ASSUME IInv, CInv, NEW g \in Collectors, GcReread(g)
    PROVE  CInv'
<1> DEFINE c == gc[g].chain
           live == gc[g].live \cup reachable(c)
           state == [gc[g] EXCEPT !.pc = "delete", !.live = live, !.doomed = @ \ live]
<1>1. gc[g] \in CollectorState /\ gc[g].checked = {} /\ c \in Chains /\ version[c] \in Nat
  BY TimeAssumption DEF IInv, TypeOK, GcReread, PassInv, PassAt, CollectorState
<1>2. gc' = [gc EXCEPT ![g] = state] /\ UNCHANGED <<now, stamp, head, version, wr, torn>>
  BY Zenon DEF GcReread
<1>3. gc'[g] = state /\ \A f \in Collectors : f # g => gc'[f] = gc[f]
  BY Zenon, <1>2 DEF IInv, TypeOK
<1>4. state.chain = c /\ state.doomed = gc[g].doomed \ live /\ state.checked = {}
  BY Zenon, <1>1 DEF CollectorState
<1>5. Candidates(g)' \cap live = {}
  BY Zenon, <1>3, <1>4 DEF Candidates
<1>6. ASSUME NEW v \in Nat, Recent(c, v), <<c, v>> \notin live PROVE TornFrom(c, v)
  <2>1. <<c, v>> \notin KeptCopies(c)
    BY Zenon, <1>6 DEF reachable
  <2>2. v \in 1 .. (version[c] - 1) /\ v >= version[c] - KEEP_HEADS
    BY Zenon, <1>6 DEF Recent
  <2>3. PICK u \in v .. (version[c] - 1) : stamp[<<c, u>>] = Absent
    BY Zenon, <2>1, <2>2 DEF KeptCopies
  <2>4. u \in Nat /\ Recent(c, u)
    BY <1>1, <2>2, <2>3, TimeAssumption DEF Recent
  <2>5. TornFrom(c, u)
    BY Zenon, <1>1, <2>3, <2>4 DEF CInv, RecentInv
  <2>6. (u .. (version[c] - 1)) \subseteq v .. (version[c] - 1)
    BY <1>1, <2>2, <2>3
  <2> QED BY Zenon, <2>5, <2>6 DEF TornFrom
<1> HIDE DEF live
<1>7. CopiesAt(g)'
  <2>1. gc'[g].chain = c
    BY Zenon, <1>3, <1>4
  <2> QED BY <1>2, <1>5, <1>6, <2>1 DEF CopiesAt, Recent, TornFrom
<1> QED BY Zenon, <1>2, <1>3, <1>7, PassCopies

\* A candidate is looked at once more.
LEMMA CheckCopies ==
    ASSUME IInv, CInv, NEW g \in Collectors, NEW k \in Keys, GcCheck(g, k)
    PROVE  CInv'
<1> DEFINE entry == [key |-> k, seen |-> stamp[k]]
           found == IF stamp[k] = Absent \/ stamp[k] > cutoff(g) THEN {} ELSE {entry}
           state == [gc[g] EXCEPT !.doomed = @ \ {k}, !.checked = @ \cup found]
<1>1. gc[g] \in CollectorState /\ k \in gc[g].doomed /\ gc[g].pc = "delete"
  BY Zenon DEF IInv, TypeOK, GcCheck
<1>2. gc' = [gc EXCEPT ![g] = state] /\ UNCHANGED <<now, stamp, head, version, wr, torn>>
  BY Zenon DEF GcCheck
<1>3. gc'[g] = state /\ \A f \in Collectors : f # g => gc'[f] = gc[f]
  BY Zenon, <1>2 DEF IInv, TypeOK
<1>4. \A e \in found : e.key = k
  OBVIOUS
<1> HIDE DEF found
<1>5. state.chain = gc[g].chain /\ state.doomed = gc[g].doomed \ {k} /\ state.pc = "delete"
      /\ state.checked = gc[g].checked \cup found /\ state.started = gc[g].started
  BY Zenon, <1>1 DEF CollectorState
<1>6. Candidates(g)' \subseteq Candidates(g) /\ cutoff(g)' = cutoff(g)
  BY Zenon, <1>1, <1>3, <1>4, <1>5 DEF Candidates, cutoff
<1>7. CopiesAt(g)'
  <2>1. gc'[g].chain = gc[g].chain /\ CopiesAt(g)
    BY Zenon, <1>3, <1>5 DEF CInv, CopiesInv
  <2> QED BY <1>1, <1>2, <1>6, <2>1 DEF CopiesAt, Recent, TornFrom
<1> QED BY Zenon, <1>2, <1>3, <1>7, PassCopies

\* A delete takes no recent copy, with the same exception.
LEMMA DeleteCopies ==
    ASSUME Margin, OneChain, IInv, CInv, NEW g \in Collectors, NEW entry \in gc[g].checked,
           GcDelete(g, entry)
    PROVE  CInv'
<1> DEFINE k == entry.key
           state == [gc[g] EXCEPT !.checked = @ \ {entry}]
<1>1. gc[g] \in CollectorState /\ gc[g].pc = "delete" /\ cutoff(g) \in Int /\ gc[g].chain \in Chains
      /\ stamp \in [Keys -> Int \cup {Absent}] /\ entry \in [key : Keys, seen : Int] /\ PassAt(g)
  BY TimeAssumption DEF IInv, TypeOK, GcDelete, CollectorState, cutoff, PassInv
<1>2. k \in Keys /\ entry.seen \in Int /\ entry.seen <= cutoff(g) /\ k \in Candidates(g)
  BY Zenon, <1>1 DEF PassAt, Candidates
<1>3. gc' = [gc EXCEPT ![g] = state] /\ UNCHANGED <<now, head, version, wr>>
      /\ stamp' = [stamp EXCEPT ![k] = Absent]
      /\ torn' = IF stamp[k] \in {Absent, entry.seen} THEN torn ELSE torn \cup {k}
  BY Zenon DEF GcDelete
<1>4. gc'[g] = state /\ \A f \in Collectors : f # g => gc'[f] = gc[f]
  BY Zenon, <1>3 DEF IInv, TypeOK
<1>5. state.pc = "delete" /\ state.started = gc[g].started /\ state.checked = gc[g].checked \ {entry}
      /\ state.doomed = gc[g].doomed /\ state.chain = gc[g].chain
  BY Zenon, <1>1 DEF CollectorState
<1> HIDE DEF state, k
<1>6. stamp'[k] = Absent /\ (\A j \in Keys : j # k => stamp'[j] = stamp[j]) /\ torn \subseteq torn'
  BY Zenon, <1>1, <1>2, <1>3
<1>7. stamp[k] # Absent /\ stamp[k] > cutoff(g) => k \in torn'
  <2>1. stamp[k] # Absent /\ stamp[k] > cutoff(g) => stamp[k] \notin {Absent, entry.seen}
    BY <1>1, <1>2
  <2> QED BY Zenon, <1>3, <2>1
<1>8. \A c, v : (Recent(c, v)' <=> Recent(c, v)) /\ (TornFrom(c, v) => TornFrom(c, v)')
  BY Zenon, <1>3, <1>6 DEF Recent, TornFrom
<1>9. StagedInv'
  <2>1. ASSUME NEW w \in Writers PROVE StagedAt(w)'
    <3> DEFINE j == <<wr[w].chain, wr[w].basis>>
    <3>1. StagedAt(w) /\ wr[w].chain \in Chains /\ wr[w].basis \in Nat /\ version[wr[w].chain] \in Nat
      BY Zenon, StagedFacts
    <3>2. ASSUME wr[w].pc = "swap", wr[w].basis = version[wr[w].chain], wr[w].basis > 0
          PROVE  /\ stamp'[j] = Absent => j \in torn'
                 /\ stamp'[j] # Absent => stamp'[j] >= wr[w].started - REFRESH_AFTER
      <4>1. (stamp[j] = Absent => j \in torn)
            /\ (stamp[j] # Absent => stamp[j] >= wr[w].started - REFRESH_AFTER)
        BY Zenon, <3>1, <3>2 DEF StagedAt, Lost
      <4>2. j \in Keys /\ Viable(w)
        BY <3>1, <3>2, CopyKeys DEF IInv, Viable
      <4>3. stamp[j] # Absent => stamp[j] > cutoff(g)
        BY Zenon, <1>1, <4>1, <4>2, ViableYoung DEF IInv
      <4> HIDE DEF j
      <4>4. CASE j = k
        BY Zenon, <1>6, <1>7, <4>1, <4>3, <4>4
      <4>5. CASE j # k
        <5>1. stamp'[j] = stamp[j] /\ torn \subseteq torn'
          BY Zenon, <1>6, <4>2, <4>5
        <5> QED BY Zenon, <4>1, <5>1
      <4> QED BY Zenon, <4>4, <4>5
    <3> QED BY Zenon, <1>3, <3>1, <3>2 DEF StagedAt, Lost
  <2> QED BY Zenon, <2>1 DEF StagedInv
<1>10. CopiesInv'
  <2>1. ASSUME NEW f \in Collectors PROVE CopiesAt(f)'
    <3>1. gc'[f].pc = gc[f].pc /\ gc'[f].doomed = gc[f].doomed /\ gc'[f].chain = gc[f].chain
          /\ gc'[f].checked \subseteq gc[f].checked /\ cutoff(f)' = cutoff(f)
      BY Zenon, <1>1, <1>4, <1>5 DEF cutoff
    <3>2. Candidates(f)' \subseteq Candidates(f) /\ Candidates(f) \subseteq Keys /\ CopiesAt(f)
      BY <3>1 DEF Candidates, CInv, CopiesInv, IInv, TypeOK, CollectorState
    <3>3. \A j \in Keys : stamp'[j] # Absent => stamp'[j] = stamp[j]
      BY Zenon, <1>6
    <3>4. gc[f].chain \in Chains /\ \A v \in Nat : <<gc[f].chain, v>> \in Candidates(f) => <<gc[f].chain, v>> \in Keys
      BY Zenon, <3>2 DEF IInv, TypeOK, CollectorState
    <3> QED BY Zenon, <1>8, <3>1, <3>2, <3>3, <3>4 DEF CopiesAt
  <2> QED BY Zenon, <2>1 DEF CopiesInv
<1>11. RecentInv'
  <2>1. ASSUME NEW c \in Chains, NEW v \in Nat, Recent(c, v), stamp'[<<c, v>>] = Absent
        PROVE  TornFrom(c, v)'
    <3>1. v \in v .. (version[c] - 1) /\ v \in 1 .. version[c]
      BY <2>1 DEF Recent, IInv, TypeOK
    <3>2. CASE stamp[<<c, v>>] = Absent
      BY Zenon, <1>8, <2>1, <3>2 DEF CInv, RecentInv
    <3>3. CASE stamp[<<c, v>>] # Absent
      <4>1. <<c, v>> = k
        BY Zenon, <1>6, <2>1, <3>1, <3>3, CopyKeys DEF IInv
      <4>2. c = gc[g].chain
        BY Zenon, <1>1 DEF OneChain
      <4>3. stamp[k] > cutoff(g) \/ TornFrom(c, v)
        BY Zenon, <1>1, <1>2, <2>1, <3>3, <4>1, <4>2 DEF CInv, CopiesInv, CopiesAt
      <4>4. k \in torn' => TornFrom(c, v)'
        BY Zenon, <1>3, <3>1, <4>1 DEF TornFrom
      <4> QED BY Zenon, <1>7, <1>8, <3>3, <4>1, <4>3, <4>4
    <3> QED BY Zenon, <3>2, <3>3
  <2> QED BY Zenon, <1>8, <2>1 DEF RecentInv
<1> QED BY Zenon, <1>9, <1>10, <1>11 DEF CInv

\* Every step keeps the invariant of the copies.
LEMMA StepCopies ==
    ASSUME Margin, OneChain, IInv, CInv, [Next]_vars
    PROVE  CInv'
<1>1. CASE UNCHANGED vars \/ Tick
  <2>1. UNCHANGED <<stamp, head, version, wr, gc, torn>>
    BY Zenon, <1>1 DEF vars, Tick
  <2> QED BY Zenon, <2>1, CopiesFrame
<1>2. ASSUME NEW w \in Writers, wr \in [Writers -> WriterState], NEW state, state.pc # "swap",
             wr' = [wr EXCEPT ![w] = state]
      PROVE  \A v \in Writers : wr'[v] = wr[v] \/ wr'[v].pc # "swap"
  BY Zenon, <1>2
<1>3. ASSUME NEW w \in Writers, NEW inputs, NEW output, WriteBegin(w, inputs, output) PROVE CInv'
  <2> DEFINE state == [wr[w] EXCEPT !.pc = "upload", !.started = now, !.inputs = inputs,
                                    !.output = output, !.stored = {}]
  <2>1. wr' = [wr EXCEPT ![w] = state] /\ UNCHANGED <<stamp, version, gc, torn>>
    BY Zenon, <1>3 DEF WriteBegin
  <2>2. state.pc = "upload" /\ wr \in [Writers -> WriterState]
    BY Zenon DEF IInv, TypeOK, WriterState
  <2> HIDE DEF state
  <2> QED BY Zenon, <1>2, <2>1, <2>2, CopiesFrame
<1>4. ASSUME NEW w \in Writers, NEW k \in Objects, WritePut(w, k) PROVE CInv'
  <2> DEFINE state == [wr[w] EXCEPT !.stored = @ \cup {k}]
  <2>1. wr' = [wr EXCEPT ![w] = state] /\ UNCHANGED <<version, gc>>
    BY Zenon, <1>4 DEF WritePut
  <2>2. state.pc = "upload" /\ wr \in [Writers -> WriterState]
    BY Zenon, <1>4 DEF IInv, TypeOK, WriterState, WritePut
  <2>3. \A j \in Copies : stamp'[j] = stamp[j] /\ (j \in torn <=> j \in torn')
    BY <1>4, KeysAssumption DEF WritePut, put_immutable, IInv, TypeOK, Keys
  <2> HIDE DEF state
  <2> QED BY Zenon, <1>2, <2>1, <2>2, <2>3, CopiesFrame
<1>5. ASSUME NEW w \in Writers, WriteBuilt(w) \/ WriteSwapLost(w) \/ WriteStop(w) PROVE CInv'
  <2> DEFINE commit == [wr[w] EXCEPT !.pc = "commit"]
  <2>1. UNCHANGED <<stamp, version, gc, torn>>
    BY Zenon, <1>5 DEF WriteBuilt, WriteSwapLost, WriteStop
  <2>2. PICK state \in {commit, IdleWriter(wr[w].chain)} : wr' = [wr EXCEPT ![w] = state]
    BY Zenon, <1>5 DEF WriteBuilt, WriteSwapLost, WriteStop
  <2>3. state.pc # "swap" /\ wr \in [Writers -> WriterState]
    BY DEF IInv, TypeOK, WriterState, IdleWriter
  <2> QED BY Zenon, <1>2, <2>1, <2>2, <2>3, CopiesFrame
<1>6. ASSUME NEW g \in Collectors, GcStart(g) \/ GcList(g) \/ GcFinish(g) \/ GcStop(g) PROVE CInv'
  <2>1. UNCHANGED <<now, stamp, head, version, wr, torn>> /\ gc'[g].pc # "delete"
        /\ \A f \in Collectors : f # g => gc'[f] = gc[f]
    BY <1>6 DEF GcStart, GcList, GcFinish, GcStop, IdleCollector, IInv, TypeOK, CollectorState
  <2>2. CopiesAt(g)'
    BY Zenon, <2>1 DEF CopiesAt
  <2> QED BY Zenon, <2>1, <2>2, PassCopies
<1>7. CASE Next /\ ~Tick
  BY Zenon, <1>3, <1>4, <1>5, <1>6, <1>7, StageCopies, SwapCopies, RereadCopies, CheckCopies, DeleteCopies
  DEF Next
<1> QED BY Zenon, <1>1, <1>7

-----------------------------------------------------------------------------

\* The newest KEEP_HEADS copies of replaced heads, which a recovery would walk,
\* are kept as well, under the same conditions.
THEOREM CopiesSafe ==
    ASSUME Margin, OneChain
    PROVE  Spec => []HeadCopiesKept
<1>1. Init => IInv /\ CInv
  <2> SUFFICES ASSUME Init PROVE CInv
    BY Zenon, InitKeeps
  <2>1. \A w \in Writers : wr[w].pc = "idle"
    BY Zenon, InitIdle
  <2>2. \A g \in Collectors : gc[g].pc = "idle"
    BY Zenon, InitIdle
  <2>3. \A c \in Chains : \A v : ~Recent(c, v)
    BY DEF Init, Recent
  <2> QED BY Zenon, <2>1, <2>2, <2>3 DEF CInv, StagedInv, StagedAt, CopiesInv, CopiesAt, RecentInv
<1>2. IInv /\ CInv /\ [Next]_vars => (IInv /\ CInv)'
  BY Zenon, StepKeeps, StepCopies
<1>3. IInv /\ CInv => HeadCopiesKept
  <2> SUFFICES ASSUME IInv, CInv, NEW c \in Chains, NEW v \in 1 .. (version[c] - 1),
                      v >= version[c] - KEEP_HEADS, stamp[<<c, v>>] = Absent
               PROVE  TornFrom(c, v)
    BY Zenon DEF HeadCopiesKept, TornFrom
  <2>1. v \in Nat /\ Recent(c, v)
    BY DEF Recent
  <2> QED BY Zenon, <2>1 DEF CInv, RecentInv
<1> QED BY <1>1, <1>2, <1>3, PTL DEF Spec

=============================================================================
