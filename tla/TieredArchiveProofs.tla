------------------------- MODULE TieredArchiveProofs -------------------------
(***************************************************************************)
(* The safety properties of TieredArchive for any number of publishers     *)
(* and compactors, any packages, and any number of crashes and lost        *)
(* answers.                                                                *)
(*                                                                         *)
(* The argument: a head is replaced only by a Successor of itself,         *)
(* because a swap compares contents and whoever sends one has checked,     *)
(* against the very head it expects, what makes the new head a Successor.  *)
(* The rest is the lemmas about heads: what a publication and a compaction *)
(* do to a head that decodes, for every trigger, backlog, fanout and level *)
(* count.                                                                  *)
(***************************************************************************)
EXTENDS TieredArchive, WellFoundedInduction, TLAPS

\* The order of runs(): a deeper level lies before a shallower one, the levels
\* before L0, and nothing past the head.
Ordered(h) ==
    /\ \A i, j \in Occupied(h) : i < j => h.levels[j].end < h.levels[i].start
    /\ \A i \in Occupied(h) : \A k \in 1 .. Len(h.l0) : h.levels[i].end < h.l0[k].start
    /\ \A k, m \in 1 .. Len(h.l0) : k < m => h.l0[k].end < h.l0[m].start
    /\ \A r \in runs(h) : r.end <= h.number

\* Every run holds packages of its own interval only.
PackagesInside(h) ==
    \A r \in runs(h) : \A p \in r.pkgs : r.start <= p.first /\ p.last <= r.end

\* The newest package is the one the head names.
TipArchived(h) ==
    \E q \in Archived(h) : q.last = h.number /\ q.hash = h.hash /\ q.input = h.input

Sound(h) ==
    /\ Decode(h)
    /\ Ordered(h)
    /\ PackagesInside(h)
    /\ TipArchived(h)

-----------------------------------------------------------------------------
(* Boundaries *)

\* Max of a set is the member no other member exceeds.
LEMMA MaxIs ==
    ASSUME NEW S \in SUBSET Int, NEW m \in S, \A k \in S : k <= m
    PROVE  Max(S) = m
<1> DEFINE x == Max(S)
<1>1. \E y \in S : \A k \in S : y >= k
  BY Zenon
<1>2. x \in S /\ \A k \in S : x >= k
  BY <1>1, Zenon DEF Max
<1> HIDE DEF x
<1>3. x \in Int /\ m \in Int /\ x >= m /\ m >= x
  BY Zenon, <1>2
<1>4. x = m
  BY <1>3
<1> QED
  BY Zenon, <1>4 DEF x

\* An occupied level of a head holds a run.
LEMMA LevelType ==
    ASSUME NEW h \in Manifest, NEW i \in Occupied(h)
    PROVE  i \in LevelIndex /\ i \in Nat /\ h.levels[i] \in Run
BY BoundsAssumption DEF Occupied, Manifest, LevelIndex

\* Every run a head names, at a level or in L0, is a run.
LEMMA RunType ==
    ASSUME NEW h \in Manifest, NEW r \in runs(h)
    PROVE  r \in Run
<1>1. CASE \E i \in Occupied(h) : r = h.levels[i]
  BY Zenon, <1>1, LevelType
<1>2. CASE \E k \in 1 .. Len(h.l0) : r = h.l0[k]
  BY <1>2 DEF Manifest
<1> QED
  BY Zenon, <1>1, <1>2 DEF runs

\* An occupied level ends at its own boundary.
LEMMA BoundaryOccupied ==
    ASSUME NEW h \in Manifest, Ordered(h), NEW i \in Occupied(h),
           h.levels[i].start <= h.levels[i].end
    PROVE  Boundary(h, i) = h.levels[i].end + 1
<1> DEFINE S == {0} \cup {h.levels[j].end + 1 : j \in {j \in Occupied(h) : j >= i}}
           m == h.levels[i].end + 1
<1>1. S \in SUBSET Int
  BY LevelType DEF Run
<1>2. m \in S
  BY LevelType
<1>3. ASSUME NEW k \in S PROVE k <= m
  <2>1. CASE k = 0
    BY <2>1, LevelType DEF Run
  <2>2. CASE k # 0
    <3>1. PICK j \in Occupied(h) : j >= i /\ k = h.levels[j].end + 1
      BY Zenon, <2>2, <1>3
    <3>2. j = i \/ h.levels[j].end < h.levels[i].start
      BY <3>1, LevelType DEF Ordered
    <3> QED
      BY <3>1, <3>2, LevelType DEF Run
  <2> QED
    BY Zenon, <2>1, <2>2
<1> QED
  BY Zenon, <1>1, <1>2, <1>3, MaxIs DEF Boundary

\* An empty level has the boundary of the levels below it.
LEMMA BoundaryEmpty ==
    ASSUME NEW h \in Manifest, NEW i \in LevelIndex, i \notin Occupied(h)
    PROVE  Boundary(h, i) = Boundary(h, i + 1)
<1>1. {j \in Occupied(h) : j >= i} = {j \in Occupied(h) : j >= i + 1}
  BY BoundsAssumption, LevelType DEF LevelIndex
<1> QED
  BY Zenon, <1>1 DEF Boundary

\* A boundary depends on the deeper levels only.
LEMMA BoundaryAgrees ==
    ASSUME NEW h, NEW g, NEW i \in Int,
           \A j \in LevelIndex : j >= i => h.levels[j] = g.levels[j]
    PROVE  Boundary(h, i) = Boundary(g, i)
<1>1. {j \in Occupied(h) : j >= i} = {j \in Occupied(g) : j >= i}
  BY Zenon DEF Occupied
<1>2. \A j \in {j \in Occupied(h) : j >= i} : h.levels[j] = g.levels[j]
  BY Zenon DEF Occupied
<1>3. {h.levels[j].end + 1 : j \in {j \in Occupied(h) : j >= i}}
        = {g.levels[j].end + 1 : j \in {j \in Occupied(g) : j >= i}}
  BY Zenon, <1>1, <1>2
<1> QED
  BY Zenon, <1>3 DEF Boundary

-----------------------------------------------------------------------------
(* Publication *)

\* The fields of a package have their types, and its interval is not empty.
LEMMA PackageType ==
    ASSUME NEW p \in Packages
    PROVE  /\ p.first \in Nat /\ p.last \in Nat /\ p.first <= p.last
           /\ p.hash \in Hashes /\ p.input \in Inputs
           /\ L0Run(p) \in Run
BY Zenon, PackagesAssumption DEF L0Run, Run

\* An anchor starts a sound archive.
LEMMA AnchorSound ==
    ASSUME NEW p \in Packages, p.first = 0
    PROVE  /\ Published(None, p) \in Manifest
           /\ Sound(Published(None, p))
           /\ Archived(Published(None, p)) = {p}
<1> DEFINE h == Published(None, p)
<1>1. /\ h.number = p.last /\ h.hash = p.hash /\ h.input = p.input
      /\ h.l0 = <<L0Run(p)>> /\ h.levels = NoLevels
  BY Zenon DEF Published
<1>2. h \in Manifest
  BY PackageType DEF Published, Manifest, NoLevels
<1>3. Occupied(h) = {} /\ Len(h.l0) = 1 /\ h.l0[1] = L0Run(p)
  BY <1>1 DEF Occupied, NoLevels
<1> HIDE DEF h
<1>4. runs(h) = {L0Run(p)}
  BY <1>3 DEF runs
<1>5. Boundary(h, 0) = 0
  <2>1. Boundary(h, 0) = Max({0})
    BY Zenon, <1>3 DEF Boundary
  <2> QED
    BY <2>1, MaxIs
<1>6. Archived(h) = {p}
  BY <1>4 DEF Archived, L0Run
<1>7. Decode(h)
  BY <1>1, <1>3, <1>5, PackageType, BoundsAssumption DEF Decode, Contiguous, L0Run
<1>8. Ordered(h) /\ PackagesInside(h)
  BY <1>1, <1>3, <1>4, PackageType DEF Ordered, PackagesInside, L0Run
<1>9. TipArchived(h)
  BY Zenon, <1>1, <1>6 DEF TipArchived
<1> QED
  BY Zenon, <1>2, <1>6, <1>7, <1>8, <1>9 DEF h, Sound

\* A delta that continues a sound head with room in L0 gives a sound head.
LEMMA DeltaSound ==
    ASSUME NEW h \in Manifest, Sound(h), NEW p \in Packages,
           Extends(h, p), ~BacklogFull(h)
    PROVE  /\ Published(h, p) \in Manifest
           /\ Sound(Published(h, p))
           /\ Archived(Published(h, p)) = Archived(h) \cup {p}
           /\ \A r \in runs(Published(h, p)) : r \in runs(h) \/ r.pkgs = {p}
<1> DEFINE g == Published(h, p)
           n == Len(h.l0)
<1>1. h # None /\ p.first = h.number + 1
  BY Zenon, NoneAssumption DEF Extends
<1>2. /\ g.number = p.last /\ g.hash = p.hash /\ g.input = p.input
      /\ g.l0 = Append(h.l0, L0Run(p)) /\ g.levels = h.levels
  BY Zenon, <1>1 DEF Published
<1>3. /\ h.l0 \in Seq(Run) /\ n \in Nat /\ h.number \in Nat
      /\ \A k \in 1 .. n : h.l0[k] \in Run
      /\ h.levels \in [LevelIndex -> Run \cup {None}]
  BY DEF Manifest
<1>4. g \in Manifest
  BY <1>1, <1>3, PackageType DEF Published, Manifest
<1>5. /\ Len(g.l0) = n + 1
      /\ g.l0[n + 1] = L0Run(p)
      /\ \A k \in 1 .. n : g.l0[k] = h.l0[k]
  BY <1>2, <1>3, PackageType
<1>6. Occupied(g) = Occupied(h)
  BY Zenon, <1>2 DEF Occupied
<1> HIDE DEF g
<1>7. runs(g) = runs(h) \cup {L0Run(p)}
  <2>1. {g.l0[k] : k \in 1 .. Len(g.l0)} = {h.l0[k] : k \in 1 .. n} \cup {L0Run(p)}
    <3>1. 1 .. Len(g.l0) = (1 .. n) \cup {n + 1}
      BY <1>3, <1>5
    <3>2. {g.l0[k] : k \in 1 .. Len(g.l0)} = {g.l0[k] : k \in 1 .. n} \cup {g.l0[n + 1]}
      BY <3>1, Zenon
    <3>3. {g.l0[k] : k \in 1 .. n} = {h.l0[k] : k \in 1 .. n}
      BY Zenon, <1>5
    <3> QED
      BY Zenon, <3>2, <3>3, <1>5
  <2> QED
    BY Zenon, <2>1, <1>2, <1>6 DEF runs
<1>8. Archived(g) = Archived(h) \cup {p}
  <2>1. L0Run(p).pkgs = {p}
    BY Zenon DEF L0Run
  <2> QED
    BY <2>1, <1>7, Zenon DEF Archived
<1>9. \A i \in Int : Boundary(g, i) = Boundary(h, i)
  BY Zenon, <1>2, BoundaryAgrees
<1>10. Contiguous(g)
  <2>1. \A i \in Occupied(g) : /\ g.levels[i].start = Boundary(g, i + 1)
                               /\ g.levels[i].start <= g.levels[i].end
    BY <1>2, <1>6, <1>9, LevelType DEF Sound, Decode, Contiguous
  <2>2. ASSUME NEW k \in 1 .. Len(g.l0)
        PROVE  /\ g.l0[k].start = IF k = 1 THEN Boundary(g, 0) ELSE g.l0[k - 1].end + 1
               /\ g.l0[k].start <= g.l0[k].end
    <3>1. CASE k = n + 1
      <4>1. g.l0[k].start = p.first /\ g.l0[k].end = p.last
        BY <3>1, <1>5 DEF L0Run
      <4>2. h.number + 1 = IF n = 0 THEN Boundary(h, 0) ELSE h.l0[n].end + 1
        BY <1>3 DEF Sound, Decode, Contiguous
      <4>3. n # 0 => g.l0[k - 1] = h.l0[n]
        BY <3>1, <1>3, <1>5
      <4>4. Boundary(g, 0) = Boundary(h, 0)
        BY <1>9
      <4> QED
        BY <4>1, <4>2, <4>3, <4>4, <3>1, <1>1, <1>3, PackageType
    <3>2. CASE k # n + 1
      <4>0. k \in 1 .. n /\ (k # 1 => k - 1 \in 1 .. n)
        BY <3>2, <1>3, <1>5
      <4>1. g.l0[k] = h.l0[k] /\ (k # 1 => g.l0[k - 1] = h.l0[k - 1])
        BY Zenon, <4>0, <1>5
      <4>2. Boundary(g, 0) = Boundary(h, 0)
        BY <1>9
      <4> QED
        BY Zenon, <4>0, <4>1, <4>2 DEF Sound, Decode, Contiguous
    <3> QED
      BY Zenon, <3>1, <3>2
  <2>3. g.number + 1 = IF g.l0 = << >> THEN Boundary(g, 0) ELSE g.l0[Len(g.l0)].end + 1
    BY <1>2, <1>3, <1>5 DEF L0Run
  <2> QED
    BY Zenon, <2>1, <2>2, <2>3 DEF Contiguous
<1>11. Decode(g)
  <2>1. Len(g.l0) <= MAX_L0_BACKLOG
    BY <1>1, <1>3, <1>5, BoundsAssumption DEF BacklogFull
  <2>2. \A k \in 1 .. Len(g.l0) : g.l0[k].weight = 1
    BY <1>3, <1>5 DEF Sound, Decode, L0Run
  <2>3. \A i \in Occupied(g) : LevelWeightOk(g, i)
    BY Zenon, <1>2, <1>6 DEF Sound, Decode, LevelWeightOk
  <2> QED
    BY Zenon, <2>1, <2>2, <2>3, <1>10 DEF Decode
<1>12. Ordered(g)
  <2>1. \A r \in runs(h) : r.end < p.first
    <3>1. \A r \in runs(h) : r.end \in Nat /\ r.end <= h.number
      BY Zenon, RunType DEF Sound, Ordered, Run
    <3> QED
      BY <3>1, <1>1, <1>3
  <2>2. \A i, j \in Occupied(g) : i < j => g.levels[j].end < g.levels[i].start
    BY Zenon, <1>2, <1>6 DEF Sound, Ordered
  <2>3. \A i \in Occupied(g) : \A k \in 1 .. Len(g.l0) : g.levels[i].end < g.l0[k].start
    BY <2>1, <1>2, <1>3, <1>5, <1>6 DEF Sound, Ordered, runs, L0Run
  <2>4. \A k, m \in 1 .. Len(g.l0) : k < m => g.l0[k].end < g.l0[m].start
    <3>1. ASSUME NEW k \in 1 .. Len(g.l0), NEW m \in 1 .. Len(g.l0), k < m
          PROVE  g.l0[k].end < g.l0[m].start
      <4>1. k \in 1 .. n /\ g.l0[k] = h.l0[k] /\ h.l0[k] \in runs(h)
        BY <3>1, <1>3, <1>5 DEF runs
      <4>2. CASE m = n + 1
        BY <4>1, <4>2, <2>1, <1>5 DEF L0Run
      <4>3. CASE m # n + 1
        BY <4>1, <4>3, <3>1, <1>3, <1>5 DEF Sound, Ordered
      <4> QED
        BY Zenon, <4>2, <4>3
    <3> QED
      BY Zenon, <3>1
  <2>5. \A r \in runs(g) : r.end <= g.number
    <3>1. \A r \in runs(h) : r.end \in Nat
      BY Zenon, RunType DEF Run
    <3>2. L0Run(p).end = p.last
      BY Zenon DEF L0Run
    <3> QED
      BY <3>1, <3>2, <2>1, <1>2, <1>7, PackageType
  <2> QED
    BY Zenon, <2>2, <2>3, <2>4, <2>5 DEF Ordered
<1>13. PackagesInside(g)
  BY <1>7, PackageType DEF Sound, PackagesInside, L0Run
<1>14. TipArchived(g)
  BY Zenon, <1>2, <1>8 DEF TipArchived
<1>15. \A r \in runs(g) : r \in runs(h) \/ r.pkgs = {p}
  BY <1>7 DEF L0Run
<1> QED
  BY Zenon, <1>4, <1>8, <1>11, <1>12, <1>13, <1>14, <1>15 DEF g, Sound

-----------------------------------------------------------------------------
(* Compaction *)

\* A level's unit is positive, and its capacity holds at least two of them.
LEMMA UnitType ==
    ASSUME NEW i \in LevelIndex
    PROVE  unit(i) \in Nat /\ unit(i) > 0 /\ unit(i) * FANOUT >= unit(i) + unit(i)
<1>1. unit(i) \in Nat /\ unit(i) > 0
  BY UnitAssumption
<1> DEFINE u == unit(i)
<1> HIDE DEF u
<1>2. u \in Nat /\ FANOUT \in Nat /\ FANOUT >= 2 => u * FANOUT >= u + u
  OBVIOUS
<1> QED
  BY Zenon, <1>1, <1>2, BoundsAssumption DEF u

\* A level the cascade passes is occupied: an empty one has room.
LEMMA FullIsOccupied ==
    ASSUME NEW h \in Manifest, NEW i \in LevelIndex, Full(h, i)
    PROVE  i \in Occupied(h)
BY UnitType DEF Full, WeightAt, Occupied

\* The level a plan stops at is one the cascade may stop at.
LEMMA TargetStops ==
    ASSUME NEW h \in Manifest, HasTarget(h)
    PROVE  Target(h) \in LevelIndex /\ StopsAt(h, Target(h))
BY Zenon DEF HasTarget, Target

\* The merged run weighs what its level allows.
LEMMA MergedWeight ==
    ASSUME NEW h \in Manifest, Sound(h), NEW t \in LevelIndex, StopsAt(h, t)
    PROVE  \E k \in 1 .. (FANOUT - 1) : WeightAt(h, t) = k * unit(t)
<1>1. unit(t) \in Nat /\ unit(t) > 0 /\ FANOUT \in Nat /\ FANOUT >= 2
  BY Zenon, UnitType, BoundsAssumption
<1>2. CASE t \notin Occupied(h)
  <2>1. WeightAt(h, t) = 1 * unit(t)
    BY <1>1, <1>2 DEF WeightAt, Occupied
  <2> QED
    BY <2>1, <1>1
<1>3. CASE t \in Occupied(h)
  <2>1. PICK k \in 1 .. (FANOUT - 1) : h.levels[t].weight = k * unit(t)
    BY Zenon, <1>3 DEF Sound, Decode, LevelWeightOk
  <2>2. WeightAt(h, t) = unit(t) + k * unit(t)
    BY Zenon, <1>3, <2>1 DEF WeightAt, Occupied
  <2>3. unit(t) + k * unit(t) < unit(t) * FANOUT
    BY Zenon, <2>2 DEF StopsAt
  <2> DEFINE u == unit(t)
  <2> HIDE DEF u
  <2>4. ASSUME u \in Nat, u > 0, k \in Nat, FANOUT \in Nat, u + k * u < u * FANOUT
        PROVE  u + k * u = (k + 1) * u /\ k + 1 <= FANOUT - 1
    <3>1. u + k * u = (k + 1) * u
      BY <2>4
    <3>2. ASSUME k + 1 >= FANOUT PROVE FALSE
      <4>1. (k + 1) * u >= FANOUT * u
        BY <2>4, <3>2
      <4> QED
        BY <4>1, <3>1, <2>4
    <3> QED
      BY <3>1, <3>2, <2>4
  <2>5. u + k * u = (k + 1) * u /\ k + 1 <= FANOUT - 1
    BY <2>3, <2>4, <1>1 DEF u
  <2> QED
    BY <2>2, <2>5, <1>1 DEF u
<1> QED
  BY Zenon, <1>2, <1>3

\* L0_TRIGGER runs head the L0 list of a head that a plan still fits.
LEMMA OldestL0 ==
    ASSUME NEW h \in Manifest, NEW planned \in Manifest, Compatible(h, planned)
    PROVE  /\ L0_TRIGGER \in Nat /\ 1 <= L0_TRIGGER /\ L0_TRIGGER <= Len(h.l0)
           /\ Len(h.l0) \in Nat
           /\ \A k \in 1 .. Len(h.l0) : h.l0[k] \in Run
           /\ \A k \in 1 .. L0_TRIGGER : k \in 1 .. Len(h.l0) /\ planned.l0[k] = h.l0[k]
BY BoundsAssumption DEF Compatible, Manifest

\* What a plan merges, in terms of the head it is committed over.
LEMMA MergedRunFacts ==
    ASSUME NEW h \in Manifest, Sound(h), NEW planned \in Manifest,
           HasTarget(planned), Compatible(h, planned)
    PROVE  LET t == Target(planned)
               m == MergedRun(planned)
           IN  /\ t \in LevelIndex /\ StopsAt(h, t)
               /\ m \in Run /\ m.start <= m.end
               /\ m.start = Boundary(h, t + 1)
               /\ m.end = h.l0[L0_TRIGGER].end
               /\ m.weight = WeightAt(h, t)
               /\ m.pkgs = (UNION {h.levels[i].pkgs : i \in {i \in Occupied(h) : i <= t}})
                              \cup (UNION {h.l0[k].pkgs : k \in 1 .. L0_TRIGGER})
               /\ \A i \in Occupied(h) : i <= t => m.start <= h.levels[i].start
               /\ \A i \in Occupied(h) : i > t => h.levels[i].end < m.start
               /\ m.start <= h.l0[1].start
<1> DEFINE t == Target(planned)
           m == MergedRun(planned)
           T == {i \in Occupied(h) : i <= t}
<1>1. planned.levels = h.levels
  BY Zenon DEF Compatible
<1>2. /\ t \in LevelIndex /\ t \in Nat /\ StopsAt(h, t)
      /\ WeightAt(planned, t) = WeightAt(h, t)
  BY <1>1, TargetStops, BoundsAssumption DEF StopsAt, Full, WeightAt, LevelIndex
<1>3. Taken(planned) = T
  BY Zenon, <1>1 DEF Taken, Occupied
<1>4. T \in SUBSET Int /\ \A i \in T : i \in Occupied(h) /\ i \in Nat /\ h.levels[i] \in Run
  BY LevelType
<1>5. /\ \A i \in Occupied(h) : /\ h.levels[i].start = Boundary(h, i + 1)
                                /\ h.levels[i].start <= h.levels[i].end
      /\ h.l0[1].start = Boundary(h, 0)
      /\ Contiguous(h) /\ Ordered(h)
  BY OldestL0 DEF Sound, Decode, Contiguous
<1> HIDE DEF t
<1>6. /\ InputStart(planned) = Boundary(h, t + 1)
      /\ \/ T = {} /\ InputStart(planned) = h.l0[1].start
         \/ \E d \in T : /\ \A i \in T : i <= d
                         /\ InputStart(planned) = h.levels[d].start
  <2>1. CASE t \in Occupied(h)
    <3>1. t \in T /\ \A i \in T : i <= t
      BY <2>1, <1>2
    <3>2. Max(T) = t
      <4> HIDE DEF T
      <4> QED
        BY Zenon, <3>1, <1>4, MaxIs
    <3> QED
      BY Zenon, <2>1, <3>1, <3>2, <1>1, <1>3, <1>5 DEF InputStart
  <2>2. CASE t \notin Occupied(h) /\ t = 0
    <3>1. T = {}
      BY <2>2, <1>4
    <3>2. planned.l0[1] = h.l0[1]
      BY OldestL0
    <3>3. Boundary(h, 0) = Boundary(h, 0 + 1)
      BY Zenon, <2>2, <1>2, BoundaryEmpty
    <3> QED
      BY Zenon, <3>1, <3>2, <3>3, <2>2, <1>3, <1>5 DEF InputStart
  <2>3. CASE t \notin Occupied(h) /\ t > 0
    <3>1. t - 1 \in LevelIndex /\ t - 1 \in 0 .. (t - 1) /\ (t - 1) + 1 = t
      BY <2>3, <1>2, BoundsAssumption DEF LevelIndex
    <3>2. t - 1 \in Occupied(h)
      BY Zenon, <3>1, <1>2, FullIsOccupied DEF StopsAt
    <3>3. t - 1 \in T /\ \A i \in T : i <= t - 1
      BY <2>3, <3>1, <3>2, <1>2, <1>4
    <3>4. Max(T) = t - 1
      <4> HIDE DEF T
      <4> QED
        BY Zenon, <3>3, <1>4, MaxIs
    <3>5. h.levels[t - 1].start = Boundary(h, t)
      BY Zenon, <3>1, <3>2, <1>5
    <3>6. Boundary(h, t) = Boundary(h, t + 1)
      BY Zenon, <2>3, <1>2, BoundaryEmpty
    <3> QED
      BY Zenon, <3>3, <3>4, <3>5, <3>6, <1>1, <1>3 DEF InputStart
  <2> QED
    BY <2>1, <2>2, <2>3, <1>2
<1>7. m.start = Boundary(h, t + 1) /\ m.end = h.l0[L0_TRIGGER].end /\ m.weight = WeightAt(h, t)
  <2>1. planned.l0[L0_TRIGGER] = h.l0[L0_TRIGGER]
    BY OldestL0
  <2>2. m.start = InputStart(planned) /\ m.end = planned.l0[L0_TRIGGER].end
    BY Zenon DEF MergedRun
  <2>3. m.weight = WeightAt(planned, t)
    BY Zenon DEF MergedRun, t
  <2> HIDE DEF m
  <2> QED
    BY Zenon, <2>1, <2>2, <2>3, <1>2, <1>6
<1>8. m.pkgs = (UNION {h.levels[i].pkgs : i \in T})
                 \cup (UNION {h.l0[k].pkgs : k \in 1 .. L0_TRIGGER})
  <2>1. {planned.l0[k].pkgs : k \in 1 .. L0_TRIGGER} = {h.l0[k].pkgs : k \in 1 .. L0_TRIGGER}
    BY Zenon, OldestL0
  <2> QED
    BY Zenon, <2>1, <1>1, <1>3 DEF MergedRun, MergedPkgs
<1>9. /\ m.start \in Nat /\ m.end \in Nat /\ m.weight \in Nat
      /\ \A i \in Occupied(h) : i <= t => m.start <= h.levels[i].start
      /\ m.start <= h.l0[1].start
  <2>1. h.l0[1] \in Run /\ h.l0[L0_TRIGGER] \in Run
    BY OldestL0
  <2>2. m.start = InputStart(planned)
    BY Zenon, <1>6, <1>7
  <2>3. m.weight \in Nat
    <3>1. h.levels[t] = None \/ h.levels[t] \in Run
      BY Zenon, <1>2 DEF Manifest
    <3> QED
      BY <3>1, <1>2, <1>7, UnitType DEF WeightAt, Run
  <2>4. CASE T = {} /\ InputStart(planned) = h.l0[1].start
    BY <2>1, <2>2, <2>3, <2>4, <1>7 DEF Run
  <2>5. ASSUME NEW d \in T, \A i \in T : i <= d, InputStart(planned) = h.levels[d].start
        PROVE  /\ m.start \in Nat
               /\ \A i \in Occupied(h) : i <= t => m.start <= h.levels[i].start
               /\ m.start <= h.l0[1].start
    <3>1. h.levels[d] \in Run /\ d \in Occupied(h)
      BY Zenon, <1>4
    <3>2. h.levels[d].start <= h.levels[d].end /\ h.levels[d].end < h.l0[1].start
      BY <3>1, <1>5, OldestL0 DEF Ordered
    <3>3. ASSUME NEW i \in Occupied(h), i <= t
          PROVE  m.start <= h.levels[i].start
      <4>1. i \in T /\ h.levels[i] \in Run /\ i \in Nat /\ d \in Nat
        BY Zenon, <3>3, <1>4
      <4>2. i = d \/ h.levels[d].end < h.levels[i].start
        BY <4>1, <3>1, <2>5, <1>5 DEF Ordered
      <4> QED
        BY <4>1, <4>2, <3>1, <3>2, <2>2, <2>5 DEF Run
    <3> QED
      BY <3>1, <3>2, <3>3, <2>1, <2>2, <2>5 DEF Run
  <2> QED
    BY Zenon, <2>1, <2>3, <2>4, <2>5, <1>6, <1>7 DEF Run
<1>13. \A i \in Occupied(h) : i > t => h.levels[i].end < m.start
  <2>1. ASSUME NEW i \in Occupied(h), i > t
        PROVE  h.levels[i].end < InputStart(planned)
    <3>1. h.levels[i].end < h.l0[1].start
      BY <1>5, OldestL0 DEF Ordered
    <3>2. ASSUME NEW d \in T PROVE h.levels[i].end < h.levels[d].start
      <4>1. d \in Occupied(h) /\ d \in Nat /\ d <= t /\ i \in Nat
        BY Zenon, <1>4, LevelType
      <4> QED
        BY <4>1, <2>1, <1>2, <1>5 DEF Ordered
    <3> QED
      BY Zenon, <3>1, <3>2, <1>6
  <2> QED
    BY Zenon, <2>1, <1>6, <1>7
<1>10. m.start <= m.end
  <2>1. h.l0[1] \in Run /\ h.l0[L0_TRIGGER] \in Run
        /\ h.l0[1].start <= h.l0[1].end
        /\ h.l0[L0_TRIGGER].start <= h.l0[L0_TRIGGER].end
    BY <1>5, OldestL0 DEF Contiguous
  <2>2. L0_TRIGGER = 1 \/ h.l0[1].end < h.l0[L0_TRIGGER].start
    BY <1>5, OldestL0 DEF Ordered
  <2> QED
    BY <2>1, <2>2, <1>7, <1>9 DEF Run
<1>11. m.pkgs \subseteq Packages
  <2>1. \A i \in T : h.levels[i].pkgs \subseteq Packages
    BY Zenon, <1>4 DEF Run
  <2>2. \A k \in 1 .. L0_TRIGGER : h.l0[k].pkgs \subseteq Packages
    BY Zenon, OldestL0 DEF Run
  <2> HIDE DEF m, T
  <2> QED
    BY Zenon, <2>1, <2>2, <1>8
<1>12. m \in Run
  BY Zenon, <1>9, <1>11 DEF MergedRun, Run
<1> QED
  BY Zenon, <1>2, <1>7, <1>8, <1>9, <1>10, <1>12, <1>13 DEF t

\* What is left of a list once its first c elements are dropped.
LEMMA DropFront ==
    ASSUME NEW S, NEW s \in Seq(S), NEW c \in Nat, c <= Len(s)
    PROVE  LET d == SubSeq(s, c + 1, Len(s))
           IN  /\ d \in Seq(S) /\ Len(d) = Len(s) - c
               /\ \A k \in 1 .. Len(d) : d[k] = s[k + c]
<1> DEFINE d == SubSeq(s, c + 1, Len(s))
<1>1. Len(s) \in Nat /\ \A k \in 1 .. Len(s) : s[k] \in S
  OBVIOUS
<1>2. d = [k \in 1 .. (Len(s) - c) |-> s[c + 1 + k - 1]]
  BY <1>1
<1>3. \A k \in 1 .. (Len(s) - c) : d[k] = s[k + c] /\ s[k + c] \in S
  BY <1>1, <1>2
<1>4. d \in Seq(S) /\ Len(d) = Len(s) - c
  BY <1>1
<1> QED
  BY Zenon, <1>3, <1>4

\* Committing a plan over a sound head it still fits gives a sound head with
\* the same contents and the same tip, and a shorter L0 list.
LEMMA CompactedSound ==
    ASSUME NEW h \in Manifest, Sound(h), NEW planned \in Manifest,
           HasTarget(planned), Compatible(h, planned)
    PROVE  LET g == Compacted(h, planned)
           IN  /\ g \in Manifest /\ Sound(g)
               /\ Archived(g) = Archived(h)
               /\ g.number = h.number /\ g.hash = h.hash /\ g.input = h.input
               /\ Len(g.l0) < Len(h.l0)
               /\ \A r \in runs(g) : r \in runs(h) \/ r.pkgs = MergedPkgs(planned)
<1> DEFINE t == Target(planned)
           m == MergedRun(planned)
           g == Compacted(h, planned)
           n == Len(h.l0)
           T == {i \in Occupied(h) : i <= t}
           D == {i \in Occupied(h) : i > t}
<1>1. /\ t \in LevelIndex /\ t \in Nat /\ StopsAt(h, t)
      /\ m \in Run /\ m.start <= m.end
      /\ m.start = Boundary(h, t + 1) /\ m.end = h.l0[L0_TRIGGER].end
      /\ m.weight = WeightAt(h, t)
      /\ m.pkgs = (UNION {h.levels[i].pkgs : i \in T})
                     \cup (UNION {h.l0[k].pkgs : k \in 1 .. L0_TRIGGER})
      /\ \A i \in Occupied(h) : i <= t => m.start <= h.levels[i].start
      /\ \A i \in Occupied(h) : i > t => h.levels[i].end < m.start
      /\ m.start <= h.l0[1].start
  BY MergedRunFacts, BoundsAssumption DEF LevelIndex
<1>2. /\ L0_TRIGGER \in Nat /\ 1 <= L0_TRIGGER /\ L0_TRIGGER <= n /\ n \in Nat
      /\ h.l0 \in Seq(Run) /\ h.number \in Nat
      /\ \A k \in 1 .. n : h.l0[k] \in Run
      /\ h.levels \in [LevelIndex -> Run \cup {None}]
  BY Zenon, OldestL0 DEF Manifest
<1>3. m.pkgs = MergedPkgs(planned) /\ planned.levels = h.levels
  BY Zenon DEF MergedRun, Compatible
<1>4. /\ Contiguous(h) /\ Ordered(h) /\ PackagesInside(h)
      /\ h.l0[1].start = Boundary(h, 0)
      /\ h.number + 1 = h.l0[n].end + 1
  BY <1>2 DEF Sound, Decode, Contiguous
<1>5. /\ g.number = h.number /\ g.hash = h.hash /\ g.input = h.input
      /\ g.l0 = SubSeq(h.l0, L0_TRIGGER + 1, n)
      /\ g.levels = MergedLevels(planned)
  BY Zenon DEF Compacted, Manifest
<1> HIDE DEF m
<1>6. /\ \A i \in LevelIndex : g.levels[i] = IF i = t THEN m ELSE IF i < t THEN None ELSE h.levels[i]
      /\ g.levels \in [LevelIndex -> Run \cup {None}]
  BY <1>1, <1>2, <1>3, <1>5 DEF MergedLevels, m
<1>7. /\ g.l0 \in Seq(Run)
      /\ Len(g.l0) = n - L0_TRIGGER
      /\ \A k \in 1 .. Len(g.l0) : g.l0[k] = h.l0[k + L0_TRIGGER]
  <2> HIDE DEF g
  <2>1. h.l0 \in Seq(Run) /\ L0_TRIGGER \in Nat /\ L0_TRIGGER <= Len(h.l0)
    BY Zenon, <1>2
  <2> DEFINE d == SubSeq(h.l0, L0_TRIGGER + 1, Len(h.l0))
  <2>2. d \in Seq(Run) /\ Len(d) = Len(h.l0) - L0_TRIGGER
        /\ \A k \in 1 .. Len(d) : d[k] = h.l0[k + L0_TRIGGER]
    BY Zenon, <2>1, DropFront
  <2>3. g.l0 = d
    BY Zenon, <1>5
  <2> HIDE DEF d
  <2> QED
    BY Zenon, <2>2, <2>3
<1>8. g \in Manifest
  BY Zenon, <1>6, <1>7 DEF Compacted, Manifest
<1> HIDE DEF g, t
<1>9. Occupied(g) = {t} \cup D
  <2>1. m # None
    BY Zenon, <1>1, NoneAssumption
  <2>2. ASSUME NEW i \in LevelIndex
        PROVE  i \in Occupied(g) <=> i \in {t} \cup D
    <3>1. i \in Int
      BY DEF LevelIndex
    <3>2. g.levels[i] = IF i = t THEN m ELSE IF i < t THEN None ELSE h.levels[i]
      BY Zenon, <1>6
    <3>3. i = t \/ i < t \/ i > t
      BY <3>1, <1>1
    <3> QED
      BY <2>1, <3>1, <3>2, <3>3, <1>1 DEF Occupied
  <2>3. Occupied(g) \subseteq LevelIndex /\ {t} \cup D \subseteq LevelIndex
    BY Zenon, <1>1 DEF Occupied
  <2> HIDE DEF D
  <2> QED
    BY Zenon, <2>2, <2>3
<1>10. \A i \in D : g.levels[i] = h.levels[i] /\ h.levels[i] \in Run /\ i \in Nat /\ i # t
  BY <1>1, <1>6, LevelType
<1>11. g.levels[t] = m
  BY Zenon, <1>1, <1>6
<1>12. \A i \in Nat : i > t => Boundary(g, i) = Boundary(h, i)
  BY <1>1, <1>6, BoundaryAgrees DEF LevelIndex
<1>13. runs(g) = {m} \cup {h.levels[i] : i \in D} \cup {h.l0[k] : k \in (L0_TRIGGER + 1) .. n}
  <2>1. {g.levels[i] : i \in Occupied(g)} = {m} \cup {h.levels[i] : i \in D}
    BY Zenon, <1>9, <1>10, <1>11
  <2>2. {g.l0[k] : k \in 1 .. Len(g.l0)} = {h.l0[k] : k \in (L0_TRIGGER + 1) .. n}
    <3>1. ASSUME NEW k \in 1 .. Len(g.l0)
          PROVE  k + L0_TRIGGER \in (L0_TRIGGER + 1) .. n /\ g.l0[k] = h.l0[k + L0_TRIGGER]
      BY <1>2, <1>7
    <3>2. ASSUME NEW k \in (L0_TRIGGER + 1) .. n
          PROVE  k - L0_TRIGGER \in 1 .. Len(g.l0) /\ g.l0[k - L0_TRIGGER] = h.l0[k]
      BY <1>2, <1>7
    <3> DEFINE A == 1 .. Len(g.l0)
               B == (L0_TRIGGER + 1) .. n
    <3>3. \A k \in A : \E j \in B : g.l0[k] = h.l0[j]
      BY Zenon, <3>1
    <3>4. \A j \in B : \E k \in A : g.l0[k] = h.l0[j]
      BY Zenon, <3>2
    <3> HIDE DEF A, B
    <3>5. {g.l0[k] : k \in A} = {h.l0[k] : k \in B}
      BY <3>3, <3>4
    <3> QED
      BY Zenon, <3>5 DEF A, B
  <2> QED
    BY Zenon, <2>1, <2>2 DEF runs
<1>14. Ordered(g)
  <2>1. \A k \in 1 .. Len(g.l0) : /\ k + L0_TRIGGER \in 1 .. n
                                  /\ L0_TRIGGER < k + L0_TRIGGER
                                  /\ g.l0[k] = h.l0[k + L0_TRIGGER]
    <3>1. ASSUME NEW k \in 1 .. Len(g.l0)
          PROVE  k + L0_TRIGGER \in 1 .. n /\ L0_TRIGGER < k + L0_TRIGGER
      BY <1>2, <1>7
    <3> QED
      BY Zenon, <3>1, <1>7
  <2>2. ASSUME NEW i \in Occupied(g), NEW j \in Occupied(g), i < j
        PROVE  g.levels[j].end < g.levels[i].start
    <3>1. j \in D /\ j > t
      BY <2>2, <1>1, <1>9, <1>10
    <3>2. CASE i = t
      BY Zenon, <3>1, <3>2, <1>1, <1>10, <1>11
    <3>3. CASE i # t
      BY Zenon, <3>1, <3>3, <2>2, <1>4, <1>9, <1>10 DEF Ordered
    <3> QED
      BY Zenon, <3>2, <3>3
  <2>3. ASSUME NEW i \in Occupied(g), NEW k \in 1 .. Len(g.l0)
        PROVE  g.levels[i].end < g.l0[k].start
    <3>1. CASE i = t
      <4>1. L0_TRIGGER \in 1 .. n
        BY <1>2
      <4>2. h.l0[L0_TRIGGER].end < h.l0[k + L0_TRIGGER].start
        BY Zenon, <4>1, <2>1, <1>4 DEF Ordered
      <4> QED
        BY Zenon, <4>2, <3>1, <2>1, <1>1, <1>11
    <3>2. CASE i # t
      BY Zenon, <3>2, <2>1, <1>4, <1>9, <1>10 DEF Ordered
    <3> QED
      BY Zenon, <3>1, <3>2
  <2>4. ASSUME NEW k \in 1 .. Len(g.l0), NEW j \in 1 .. Len(g.l0), k < j
        PROVE  g.l0[k].end < g.l0[j].start
    <3>1. k + L0_TRIGGER < j + L0_TRIGGER
      BY <2>4, <1>2, <1>7
    <3> QED
      BY Zenon, <3>1, <2>1, <1>4 DEF Ordered
  <2>5. \A r \in runs(g) : r.end <= g.number
    <3>1. \A r \in runs(h) : r.end <= h.number
      BY Zenon, <1>4 DEF Ordered
    <3>2. h.l0[L0_TRIGGER] \in runs(h) /\ \A k \in (L0_TRIGGER + 1) .. n : h.l0[k] \in runs(h)
      BY <1>2 DEF runs
    <3>3. \A i \in D : h.levels[i] \in runs(h)
      BY Zenon DEF runs
    <3> QED
      BY Zenon, <3>1, <3>2, <3>3, <1>1, <1>5, <1>13
  <2> QED
    BY Zenon, <2>2, <2>3, <2>4, <2>5 DEF Ordered
<1>15. Boundary(g, 0) = m.end + 1
  <2>1. {j \in Occupied(g) : j >= 0} = {j \in Occupied(g) : j >= t}
    BY <1>1, <1>9, <1>10
  <2>2. Boundary(g, 0) = Boundary(g, t)
    BY Zenon, <2>1 DEF Boundary
  <2>3. t \in Occupied(g)
    BY Zenon, <1>9
  <2> QED
    BY Zenon, <2>2, <2>3, <1>1, <1>8, <1>11, <1>14, BoundaryOccupied
<1>16. Contiguous(g)
  <2>1. ASSUME NEW i \in Occupied(g)
        PROVE  /\ g.levels[i].start = Boundary(g, i + 1)
               /\ g.levels[i].start <= g.levels[i].end
    <3>1. CASE i = t
      BY <3>1, <1>1, <1>11, <1>12
    <3>2. CASE i # t
      <4>1. i \in D /\ i + 1 \in Nat /\ i + 1 > t
        BY <3>2, <1>1, <1>9, <1>10
      <4> QED
        BY Zenon, <4>1, <1>4, <1>10, <1>12 DEF Contiguous
    <3> QED
      BY Zenon, <3>1, <3>2
  <2>2. ASSUME NEW k \in 1 .. Len(g.l0)
        PROVE  /\ g.l0[k].start = IF k = 1 THEN Boundary(g, 0) ELSE g.l0[k - 1].end + 1
               /\ g.l0[k].start <= g.l0[k].end
    <3> DEFINE j == k + L0_TRIGGER
    <3>1. j \in 1 .. n /\ j # 1 /\ g.l0[k] = h.l0[j]
      BY <1>2, <1>7
    <3>2. h.l0[j].start = h.l0[j - 1].end + 1 /\ h.l0[j].start <= h.l0[j].end
      BY Zenon, <3>1, <1>4 DEF Contiguous
    <3>3. k = 1 => j - 1 = L0_TRIGGER
      BY <1>2
    <3>4. k # 1 => g.l0[k - 1] = h.l0[j - 1]
      <4>1. k # 1 => k - 1 \in 1 .. Len(g.l0) /\ (k - 1) + L0_TRIGGER = j - 1
        BY <1>2, <1>7
      <4> QED
        BY Zenon, <4>1, <1>7
    <3> QED
      BY Zenon, <3>1, <3>2, <3>3, <3>4, <1>1, <1>15
  <2>3. g.number + 1 = IF g.l0 = << >> THEN Boundary(g, 0) ELSE g.l0[Len(g.l0)].end + 1
    <3>1. CASE Len(g.l0) = 0
      BY <3>1, <1>1, <1>2, <1>4, <1>5, <1>7, <1>15
    <3>2. CASE Len(g.l0) # 0
      <4>1. Len(g.l0) \in 1 .. Len(g.l0) /\ Len(g.l0) + L0_TRIGGER = n /\ g.l0 # << >>
        BY <3>2, <1>2, <1>7
      <4>2. g.l0[Len(g.l0)] = h.l0[n]
        BY Zenon, <4>1, <1>7
      <4> QED
        BY Zenon, <4>1, <4>2, <1>4, <1>5
    <3> QED
      BY Zenon, <3>1, <3>2
  <2> QED
    BY Zenon, <2>1, <2>2, <2>3 DEF Contiguous
<1>17. Decode(g)
  <2>1. Len(g.l0) <= MAX_L0_BACKLOG
    BY <1>2, <1>7, BoundsAssumption DEF Sound, Decode
  <2>2. \A k \in 1 .. Len(g.l0) : g.l0[k].weight = 1
    <3>1. \A k \in 1 .. Len(g.l0) : k + L0_TRIGGER \in 1 .. n
      BY <1>2, <1>7
    <3> QED
      BY Zenon, <3>1, <1>7 DEF Sound, Decode
  <2>3. ASSUME NEW i \in Occupied(g)
        PROVE  LevelWeightOk(g, i)
    <3>1. CASE i = t
      BY Zenon, <3>1, <1>1, <1>11, MergedWeight DEF LevelWeightOk
    <3>2. CASE i # t
      BY Zenon, <3>2, <1>9, <1>10 DEF Sound, Decode, LevelWeightOk
    <3> QED
      BY Zenon, <3>1, <3>2
  <2> QED
    BY Zenon, <2>1, <2>2, <2>3, <1>16 DEF Decode
<1> DEFINE U == {h.levels[i] : i \in T} \cup {h.l0[k] : k \in 1 .. L0_TRIGGER}
           V == {h.levels[i] : i \in D} \cup {h.l0[k] : k \in (L0_TRIGGER + 1) .. n}
<1>18. runs(h) = U \cup V
  <2>1. Occupied(h) = T \cup D
    BY <1>1, LevelType
  <2>2. 1 .. n = (1 .. L0_TRIGGER) \cup ((L0_TRIGGER + 1) .. n)
    BY <1>2
  <2>3. {h.levels[i] : i \in Occupied(h)} = {h.levels[i] : i \in T} \cup {h.levels[i] : i \in D}
    BY <2>1, Zenon
  <2>4. {h.l0[k] : k \in 1 .. n} = {h.l0[k] : k \in 1 .. L0_TRIGGER} \cup {h.l0[k] : k \in (L0_TRIGGER + 1) .. n}
    BY <2>2, Zenon
  <2> QED
    BY Zenon, <2>3, <2>4 DEF runs
<1>19. runs(g) = {m} \cup V
  BY Zenon, <1>13
<1>20. m.pkgs = UNION {r.pkgs : r \in U}
  BY <1>1
<1> HIDE DEF U, V, T, D
<1>21. Archived(g) = Archived(h)
  BY Zenon, <1>18, <1>19, <1>20 DEF Archived
<1>22. PackagesInside(g)
  <2>1. /\ \A k \in 1 .. L0_TRIGGER : /\ k \in 1 .. n /\ h.l0[k] \in Run
                                      /\ h.l0[k].start <= h.l0[k].end
        /\ 1 \in 1 .. L0_TRIGGER /\ L0_TRIGGER \in 1 .. L0_TRIGGER
    <3>1. \A k \in 1 .. L0_TRIGGER : k \in 1 .. n
      BY <1>2
    <3> QED
      BY <3>1, <1>2, <1>4 DEF Contiguous
  <2>2. ASSUME NEW i \in T
        PROVE  m.start <= h.levels[i].start /\ h.levels[i].end <= m.end /\ h.levels[i] \in Run
    <3>1. i \in Occupied(h) /\ i <= t /\ h.levels[i] \in Run
      BY Zenon, LevelType DEF T
    <3>2. h.levels[i].end < h.l0[L0_TRIGGER].start
      BY Zenon, <3>1, <2>1, <1>4 DEF Ordered
    <3>3. m.start <= h.levels[i].start
      BY Zenon, <3>1, <1>1
    <3>4. /\ h.levels[i].end \in Nat /\ h.l0[L0_TRIGGER].start \in Nat /\ h.l0[L0_TRIGGER].end \in Nat
          /\ h.l0[L0_TRIGGER].start <= h.l0[L0_TRIGGER].end
      BY Zenon, <3>1, <2>1 DEF Run
    <3>5. m.end = h.l0[L0_TRIGGER].end
      BY Zenon, <1>1
    <3> QED
      BY <3>1, <3>2, <3>3, <3>4, <3>5
  <2>3. ASSUME NEW k \in 1 .. L0_TRIGGER
        PROVE  m.start <= h.l0[k].start /\ h.l0[k].end <= m.end /\ h.l0[k] \in Run
    <3>1. k = 1 \/ h.l0[1].end < h.l0[k].start
      BY <2>1, <1>4 DEF Ordered
    <3>2. k = L0_TRIGGER \/ h.l0[k].end < h.l0[L0_TRIGGER].start
      BY <2>1, <1>2, <1>4 DEF Ordered
    <3>3. /\ h.l0[k].start \in Nat /\ h.l0[k].end \in Nat /\ h.l0[k] \in Run
          /\ h.l0[1].start \in Nat /\ h.l0[1].end \in Nat /\ h.l0[1].start <= h.l0[1].end
          /\ h.l0[L0_TRIGGER].start \in Nat /\ h.l0[L0_TRIGGER].end \in Nat
          /\ h.l0[L0_TRIGGER].start <= h.l0[L0_TRIGGER].end
      BY Zenon, <2>1 DEF Run
    <3>4. m.end = h.l0[L0_TRIGGER].end /\ m.start <= h.l0[1].start /\ m.start \in Nat
      BY Zenon, <1>1 DEF Run
    <3> QED
      BY <3>1, <3>2, <3>3, <3>4
  <2>4. \A r \in U : r \in Run /\ m.start <= r.start /\ r.end <= m.end
    BY Zenon, <2>2, <2>3 DEF U
  <2>5. ASSUME NEW p \in m.pkgs
        PROVE  m.start <= p.first /\ p.last <= m.end
    <3>1. PICK r \in U : p \in r.pkgs
      BY Zenon, <1>20
    <3>2. r.start <= p.first /\ p.last <= r.end
      BY Zenon, <3>1, <1>4, <1>18 DEF PackagesInside
    <3>3. p \in Packages /\ r.start \in Nat /\ r.end \in Nat
      BY Zenon, <3>1, <2>4 DEF Run
    <3> QED
      BY <3>2, <3>3, <2>4, <1>1, PackageType DEF Run
  <2>6. \A r \in V : \A p \in r.pkgs : r.start <= p.first /\ p.last <= r.end
    BY Zenon, <1>4, <1>18 DEF PackagesInside
  <2> QED
    BY Zenon, <2>5, <2>6, <1>19 DEF PackagesInside
<1>23. TipArchived(g)
  BY Zenon, <1>5, <1>21 DEF Sound, TipArchived
<1>24. \A r \in runs(g) : r \in runs(h) \/ r.pkgs = MergedPkgs(planned)
  BY Zenon, <1>3, <1>18, <1>19 DEF m
<1>25. Len(g.l0) < Len(h.l0)
  BY <1>2, <1>7
<1> QED
  BY Zenon, <1>5, <1>8, <1>14, <1>17, <1>21, <1>22, <1>23, <1>24, <1>25 DEF g, Sound

-----------------------------------------------------------------------------
(* Planning *)

\* A nonempty set of naturals has a least element.
LEMMA LeastNatural ==
    ASSUME NEW S \in SUBSET Nat, S # {}
    PROVE  \E m \in S : \A k \in S : m <= k
<1>1. \E m \in S : \A k \in S : ~(<<k, m>> \in OpToRel(<, Nat))
  BY Zenon, NatLessThanWellFounded, WFMin
<1>2. PICK m \in S : \A k \in S : ~(<<k, m>> \in OpToRel(<, Nat))
  BY Zenon, <1>1
<1>3. ASSUME NEW k \in S PROVE m <= k
  <2>1. k \in Nat /\ m \in Nat
    BY Zenon
  <2>2. k < m => <<k, m>> \in OpToRel(<, Nat)
    BY <2>1, Zenon DEF OpToRel
  <2>3. ~(k < m)
    BY Zenon, <1>2, <2>2
  <2> QED
    BY <2>1, <2>3
<1> QED
  BY Zenon, <1>3

\* A level of a decoded head that is not full has room for one more unit.
LEMMA NotFullHasRoom ==
    ASSUME NEW h \in Manifest, Decode(h), NEW i \in LevelIndex, ~Full(h, i)
    PROVE  WeightAt(h, i) < unit(i) * FANOUT
<1>1. unit(i) \in Nat /\ unit(i) > 0 /\ unit(i) * FANOUT >= unit(i) + unit(i)
  BY Zenon, UnitType
<1>2. CASE i \notin Occupied(h)
  BY <1>1, <1>2, BoundsAssumption DEF WeightAt, Occupied
<1>3. CASE i \in Occupied(h)
  <2>1. PICK k \in 1 .. (FANOUT - 1) : h.levels[i].weight = k * unit(i)
    BY Zenon, <1>3 DEF Decode, LevelWeightOk
  <2>2. WeightAt(h, i) = unit(i) + k * unit(i) /\ WeightAt(h, i) # unit(i) * FANOUT
    BY Zenon, <1>3, <2>1 DEF WeightAt, Occupied, Full
  <2> DEFINE u == unit(i)
  <2> HIDE DEF u
  <2>3. ASSUME u \in Nat, u > 0, FANOUT \in Nat, k \in Nat, k + 1 <= FANOUT
        PROVE  u + k * u <= u * FANOUT
    <3>1. u + k * u = u * (k + 1)
      BY <2>3
    <3>2. u * (k + 1) <= u * FANOUT
      BY <2>3
    <3> QED
      BY Zenon, <3>1, <3>2
  <2>4. u + k * u <= u * FANOUT /\ u * FANOUT \in Nat /\ u + k * u \in Nat
    BY <1>1, <2>1, <2>3, BoundsAssumption DEF u
  <2> QED
    BY <2>2, <2>4 DEF u
<1> QED
  BY Zenon, <1>2, <1>3

\* The cascade of a sound head with enough L0 runs stops at a level unless all
\* levels are full, and the runs it takes are contiguous.
LEMMA PlanPossible ==
    ASSUME NEW h \in Manifest, Sound(h), CompactionDue(h)
    PROVE  \/ HasTarget(h) /\ InputsContiguous(h)
           \/ \A i \in LevelIndex : Full(h, i)
<1> DEFINE S == {i \in LevelIndex : ~Full(h, i)}
<1>1. ASSUME S # {} PROVE HasTarget(h)
  <2>1. S \in SUBSET Nat
    BY BoundsAssumption DEF LevelIndex
  <2>2. PICK t \in S : \A k \in S : t <= k
    BY Zenon, <1>1, <2>1, LeastNatural
  <2>3. t \in LevelIndex /\ t \in Nat /\ ~Full(h, t)
    BY Zenon, <2>1, <2>2
  <2>4. ASSUME NEW i \in 0 .. (t - 1) PROVE Full(h, i)
    <3>1. i \in LevelIndex /\ ~(t <= i)
      BY <2>3, BoundsAssumption DEF LevelIndex
    <3> QED
      BY Zenon, <2>2, <3>1
  <2>5. StopsAt(h, t)
    BY Zenon, <2>3, <2>4, NotFullHasRoom DEF StopsAt, Sound
  <2> QED
    BY Zenon, <2>3, <2>5 DEF HasTarget
<1>2. ASSUME HasTarget(h) PROVE InputsContiguous(h)
  <2> DEFINE t == Target(h)
  <2>1. t \in LevelIndex /\ t \in Nat /\ StopsAt(h, t)
    BY <1>2, TargetStops, BoundsAssumption DEF LevelIndex
  <2> HIDE DEF t
  <2>2. /\ Contiguous(h) /\ Ordered(h) /\ L0_TRIGGER \in Nat /\ 1 <= L0_TRIGGER
        /\ L0_TRIGGER <= Len(h.l0) /\ Len(h.l0) \in Nat
    BY BoundsAssumption DEF Sound, Decode, CompactionDue, Manifest
  <2>3. h.l0[1].start = Boundary(h, 0)
    BY <2>2 DEF Contiguous
  <2>4. ASSUME NEW i \in Taken(h)
        PROVE  h.levels[i].end + 1 =
                   IF {j \in Taken(h) : j < i} = {} THEN h.l0[1].start
                   ELSE h.levels[Max({j \in Taken(h) : j < i})].start
    <3>1. i \in Occupied(h) /\ i \in LevelIndex /\ i \in Nat /\ i <= t
      BY Zenon, LevelType DEF Taken, t
    <3>2. Boundary(h, i) = h.levels[i].end + 1
      BY Zenon, <3>1, <2>2, BoundaryOccupied DEF Contiguous
    <3>3. CASE i = 0
      <4>1. \A j \in Taken(h) : j \in Nat
        BY Zenon, LevelType DEF Taken
      <4>3. \A j \in Taken(h) : ~(j < i)
        BY <3>3, <4>1
      <4>2. {j \in Taken(h) : j < i} = {}
        BY <4>3, Zenon
      <4> QED
        BY Zenon, <3>2, <3>3, <4>2, <2>3
    <3>4. CASE i # 0
      <4>1. /\ i - 1 \in LevelIndex /\ i - 1 \in 0 .. (t - 1) /\ (i - 1) + 1 = i
            /\ i - 1 <= t /\ i - 1 < i
        BY <3>1, <3>4, <2>1, BoundsAssumption DEF LevelIndex
      <4>2. i - 1 \in Occupied(h)
        BY Zenon, <4>1, <2>1, FullIsOccupied DEF StopsAt
      <4>3. i - 1 \in {j \in Taken(h) : j < i}
        BY Zenon, <4>1, <4>2 DEF Taken, t
      <4>4. /\ {j \in Taken(h) : j < i} \in SUBSET Int
            /\ \A j \in {j \in Taken(h) : j < i} : j <= i - 1
        <5>1. \A j \in Taken(h) : j \in Nat
          BY LevelType DEF Taken
        <5>2. \A j \in Taken(h) : j < i => j <= i - 1 /\ j \in Int
          BY <3>1, <5>1
        <5> QED
          BY <5>2, Zenon
      <4>5. Max({j \in Taken(h) : j < i}) = i - 1
        BY Zenon, <4>3, <4>4, MaxIs
      <4>6. h.levels[i - 1].start = Boundary(h, i)
        BY Zenon, <4>1, <4>2, <2>2 DEF Contiguous
      <4> QED
        BY Zenon, <3>2, <4>3, <4>5, <4>6
    <3> QED
      BY Zenon, <3>3, <3>4
  <2>5. ASSUME NEW k \in 2 .. L0_TRIGGER
        PROVE  h.l0[k - 1].end + 1 = h.l0[k].start
    <3>1. k \in 1 .. Len(h.l0) /\ k # 1
      BY <2>2
    <3> QED
      BY Zenon, <3>1, <2>2 DEF Contiguous
  <2> QED
    BY Zenon, <2>4, <2>5 DEF InputsContiguous
<1> QED
  BY Zenon, <1>1, <1>2

-----------------------------------------------------------------------------
(* The archive *)

\* g may take the place of h: a publication or a compaction whose objects are
\* stored and whose conditions were checked on h.
Successor(h, g, stored) ==
    \/ \E p \in Packages : /\ Admitted(p) /\ Extends(h, p) /\ ~BacklogFull(h)
                           /\ {p} \in stored
                           /\ g = Published(h, p)
    \/ /\ h # None
       /\ \E planned \in Manifest : /\ HasTarget(planned) /\ Compatible(h, planned)
                                    /\ MergedPkgs(planned) \in stored
                                    /\ g = Compacted(h, planned)

\* The head has not fallen behind one that was read earlier.
NotBehind(now, before) ==
    before # None =>
        /\ now # None
        /\ \/ before.number < now.number
           \/ before.number = now.number /\ Len(now.l0) <= Len(before.l0)

\* A head with the same tip that has not fallen behind one with room has room.
LEMMA RoomKept ==
    ASSUME NEW now, NEW before, now # None, before # None,
           now.number \in Nat, Len(now.l0) \in Nat, Len(before.l0) \in Nat,
           now.number = before.number, NotBehind(now, before), ~BacklogFull(before)
    PROVE  ~BacklogFull(now) /\ NotBehind(now, now)
<1>1. Len(now.l0) <= Len(before.l0)
  BY DEF NotBehind
<1>2. ~(Len(before.l0) >= MAX_L0_BACKLOG)
  BY Zenon DEF BacklogFull
<1>3. Len(now.l0) < MAX_L0_BACKLOG
  BY <1>1, <1>2, BoundsAssumption
<1> QED BY <1>3, BoundsAssumption DEF NotBehind, BacklogFull

\* What a call of `publish` relies on, given the head and the stored runs.
PublishingOk(call, now, stored) ==
    call.pc # "idle" =>
        /\ call.pkg \in Packages /\ Admitted(call.pkg)
        /\ Extends(call.previous, call.pkg)
        /\ ~BacklogFull(call.previous)
        /\ NotBehind(now, call.previous)
        /\ call.pc \in {"swap", "reread"} => {call.pkg} \in stored

\* What a call of `compact_once` relies on.
CompactingOk(call, stored) ==
    call.pc # "idle" =>
        /\ call.planned \in Manifest
        /\ HasTarget(call.planned) /\ CompactionDue(call.planned)
        /\ call.pc \in {"read", "swap"} => MergedPkgs(call.planned) \in stored
        /\ call.pc = "swap" => /\ call.current \in Manifest /\ Sound(call.current)
                               /\ Compatible(call.current, call.planned)

PublisherInv == \A w \in Publishers : PublishingOk(pub[w], head, objects)
CompactorInv == \A c \in Compactors : CompactingOk(cmp[c], objects)
InflightInv == \A m \in inflight : Successor(m.expected, m.next, objects)

IInv ==
    /\ TypeOK
    /\ head # None => Sound(head)
    /\ HeadDurable
    /\ ChainLinked
    /\ AckedArchived
    /\ PublisherInv
    /\ CompactorInv
    /\ InflightInv

-----------------------------------------------------------------------------
(* Heads and their successors *)

\* What a plan merges is a set of packages.
LEMMA MergedPkgsType ==
    ASSUME NEW h \in Manifest, CompactionDue(h)
    PROVE  MergedPkgs(h) \in SUBSET Packages
<1>1. \A i \in Taken(h) : h.levels[i].pkgs \subseteq Packages
  BY Zenon, LevelType DEF Taken, Run
<1>2. \A k \in 1 .. L0_TRIGGER : h.l0[k].pkgs \subseteq Packages
  <2>1. \A k \in 1 .. L0_TRIGGER : k \in 1 .. Len(h.l0)
    BY BoundsAssumption DEF CompactionDue, Manifest
  <2>2. \A k \in 1 .. Len(h.l0) : h.l0[k] \in Run
    BY DEF Manifest
  <2> QED
    BY Zenon, <2>1, <2>2 DEF Run
<1> QED
  BY Zenon, <1>1, <1>2 DEF MergedPkgs

\* The packages of a set are linked from the anchor on (ChainLinked of a set).
Linked(S) ==
    \A p \in S : \/ p.first = 0
                 \/ \E q \in S : q.last + 1 = p.first /\ q.hash = p.preceding

\* A package that extends a sound head extends its chain.
LEMMA LinkedGrows ==
    ASSUME NEW h \in Manifest, Sound(h), Linked(Archived(h)),
           NEW p \in Packages, Extends(h, p)
    PROVE  Linked(Archived(h) \cup {p})
<1>1. p.first = h.number + 1 /\ p.preceding = h.hash
  BY Zenon, NoneAssumption DEF Extends
<1>2. PICK q \in Archived(h) : q.last = h.number /\ q.hash = h.hash
  BY Zenon DEF Sound, TipArchived
<1>3. q.last + 1 = p.first /\ q.hash = p.preceding
  BY Zenon, <1>1, <1>2
<1> QED
  BY Zenon, <1>3 DEF Linked

\* A successor of a sound head is sound, keeps what is archived, and is ahead.
LEMMA SuccessorSound ==
    ASSUME NEW h \in Manifest \cup {None}, NEW g, NEW stored, Successor(h, g, stored),
           h # None => /\ Sound(h) /\ Linked(Archived(h))
                       /\ \A r \in runs(h) : r.pkgs \in stored
    PROVE  /\ g \in Manifest /\ Sound(g) /\ Linked(Archived(g))
           /\ \A r \in runs(g) : r.pkgs \in stored
           /\ h # None => Archived(h) \subseteq Archived(g) /\ Advances(h, g)
<1>1. CASE h = None
  <2>1. PICK p \in Packages : p.first = 0 /\ {p} \in stored /\ g = Published(None, p)
    BY Zenon, <1>1 DEF Successor, Extends
  <2>2. g \in Manifest /\ Sound(g) /\ Archived(g) = {p}
    BY Zenon, <2>1, AnchorSound
  <2>3. \A r \in runs(g) : r.pkgs = {p}
    BY <2>1 DEF runs, Published, Occupied, NoLevels, L0Run
  <2> QED
    BY Zenon, <1>1, <2>1, <2>2, <2>3 DEF Linked
<1>2. CASE h # None /\ \E p \in Packages : /\ Extends(h, p) /\ ~BacklogFull(h) /\ {p} \in stored
                                           /\ g = Published(h, p)
  <2>1. PICK p \in Packages : /\ Extends(h, p) /\ ~BacklogFull(h) /\ {p} \in stored
                              /\ g = Published(h, p)
    BY Zenon, <1>2
  <2>2. g \in Manifest /\ Sound(g) /\ Archived(g) = Archived(h) \cup {p}
    BY Zenon, <1>2, <2>1, DeltaSound
  <2>3. \A r \in runs(g) : r \in runs(h) \/ r.pkgs = {p}
    BY Zenon, <1>2, <2>1, DeltaSound
  <2>4. Linked(Archived(g))
    BY Zenon, <1>2, <2>1, <2>2, LinkedGrows
  <2>5. Advances(h, g)
    BY <1>2, <2>1, PackageType DEF Published, Extends, Advances, Manifest
  <2> QED
    BY Zenon, <1>2, <2>1, <2>2, <2>3, <2>4, <2>5
<1>3. CASE h # None /\ \E planned \in Manifest : /\ HasTarget(planned) /\ Compatible(h, planned)
                                                 /\ MergedPkgs(planned) \in stored
                                                 /\ g = Compacted(h, planned)
  <2>1. PICK planned \in Manifest : /\ HasTarget(planned) /\ Compatible(h, planned)
                                    /\ MergedPkgs(planned) \in stored
                                    /\ g = Compacted(h, planned)
    BY Zenon, <1>3
  <2>2. /\ g \in Manifest /\ Sound(g) /\ Archived(g) = Archived(h)
        /\ g.number = h.number /\ Len(g.l0) < Len(h.l0)
        /\ \A r \in runs(g) : r \in runs(h) \/ r.pkgs = MergedPkgs(planned)
    BY Zenon, <1>3, <2>1, CompactedSound
  <2> QED
    BY Zenon, <1>3, <2>1, <2>2 DEF Advances
<1> QED
  BY Zenon, <1>1, <1>2, <1>3 DEF Successor

\* A publication builds a head, whether or not it fits.
LEMMA PublishedType ==
    ASSUME NEW h \in Manifest \cup {None}, NEW p \in Packages
    PROVE  Published(h, p) \in Manifest
<1>1. CASE h = None
  BY <1>1, PackageType DEF Published, Manifest, NoLevels
<1>2. CASE h # None
  <2>1. h \in Manifest
    BY Zenon, <1>2
  <2>2. h.l0 \in Seq(Run) /\ h.levels \in [LevelIndex -> Run \cup {None}]
    BY Zenon, <2>1 DEF Manifest
  <2>3. Append(h.l0, L0Run(p)) \in Seq(Run)
    BY <2>2, PackageType
  <2> QED
    BY Zenon, <1>2, <2>2, <2>3, PackageType DEF Published, Manifest
<1> QED
  BY Zenon, <1>1, <1>2

-----------------------------------------------------------------------------
(* The inductive invariant *)

\* An empty store satisfies the inductive invariant.
LEMMA InitIInv == Init => IInv
BY BoundsAssumption, ArchiveAssumption, NoneAssumption
   DEF Init, IInv, TypeOK, HeadDurable, ChainLinked, AckedArchived, Contents,
       PublisherInv, CompactorInv, InflightInv,
       PublishingOk, CompactingOk, IdlePublisher, IdleCompactor

\* A successor stays one while objects are only added.
LEMMA SuccessorStays ==
    ASSUME NEW h, NEW g, NEW before, NEW stored, before \subseteq stored,
           Successor(h, g, before)
    PROVE  Successor(h, g, stored)
BY Zenon DEF Successor

\* A head that moves ahead is still not behind what was read before.
LEMMA NotBehindStays ==
    ASSUME NEW h \in Manifest \cup {None}, NEW g \in Manifest,
           NEW b \in Manifest \cup {None},
           h # None => Advances(h, g), NotBehind(h, b)
    PROVE  NotBehind(g, b)
<1>1. g # None
  BY Zenon, NoneAssumption
<1>2. CASE b = None
  BY Zenon, <1>2 DEF NotBehind
<1>3. CASE b # None
  <2>1. /\ h \in Manifest /\ b \in Manifest /\ h # None
        /\ Advances(h, g)
    BY Zenon, <1>3 DEF NotBehind
  <2>2. /\ h.number \in Nat /\ g.number \in Nat /\ b.number \in Nat
        /\ Len(h.l0) \in Nat /\ Len(g.l0) \in Nat /\ Len(b.l0) \in Nat
    BY <2>1 DEF Manifest
  <2> QED
    BY <1>1, <1>3, <2>1, <2>2 DEF NotBehind, Advances
<1> QED
  BY Zenon, <1>2, <1>3

\* What replacing the head by a successor does to the part of the invariant
\* that is about the head alone.
LEMMA HeadReplaced ==
    ASSUME IInv, Successor(head, head', objects), UNCHANGED objects
    PROVE  /\ head' \in Manifest /\ Sound(head')
           /\ HeadDurable'
           /\ ChainLinked'
           /\ Contents \subseteq Contents'
           /\ head # None => Advances(head, head')
           /\ \A b \in Manifest \cup {None} : NotBehind(head, b) => NotBehind(head', b)
<1>1. head \in Manifest \cup {None}
  BY Zenon DEF IInv, TypeOK
<1>2. head # None => /\ Sound(head) /\ Linked(Archived(head))
                     /\ \A r \in runs(head) : r.pkgs \in objects
  BY Zenon DEF IInv, HeadDurable, ChainLinked, Contents, Linked
<1>3. /\ head' \in Manifest /\ Sound(head') /\ Linked(Archived(head'))
      /\ \A r \in runs(head') : r.pkgs \in objects
      /\ head # None => Archived(head) \subseteq Archived(head') /\ Advances(head, head')
  BY Zenon, <1>1, <1>2, SuccessorSound
<1>4. head' # None
  BY Zenon, <1>3, NoneAssumption
<1>5. HeadDurable'
  BY Zenon, <1>3 DEF HeadDurable
<1>6. ChainLinked'
  BY Zenon, <1>3, <1>4 DEF ChainLinked, Contents, Linked
<1>7. Contents \subseteq Contents'
  BY Zenon, <1>3, <1>4 DEF Contents
<1> QED
  BY Zenon, <1>1, <1>3, <1>5, <1>6, <1>7, NotBehindStays

\* The head names the package it was last extended by.
LEMMA PublishedIsArchived ==
    ASSUME IInv, NEW p \in Packages, is_published(head, p)
    PROVE  p \in Contents
<1>1. head # None /\ Sound(head) /\ head.input = p.input /\ head \in Manifest
  BY Zenon DEF IInv, TypeOK, is_published
<1>2. PICK q \in Archived(head) : q.input = head.input
  BY Zenon, <1>1 DEF Sound, TipArchived
<1>3. q \in Packages
  BY Zenon, <1>1, <1>2, RunType DEF Archived, Run
<1> QED
  BY Zenon, <1>1, <1>2, <1>3, PackagesAssumption DEF Contents

LEMMA FaultType ==
    ASSUME TypeOK, Fault
    PROVE  faults' \in 0 .. MaxFaults
BY ArchiveAssumption DEF TypeOK, Fault

\* An abandoned call has the type of a call.
LEMMA IdleType ==
    /\ IdlePublisher \in [pc : {"idle", "upload", "swap", "reread"}, pkg : Packages \cup {None},
                          previous : Manifest \cup {None}, tries : 0 .. (CAS_ATTEMPTS - 1)]
    /\ IdleCompactor \in [pc : {"idle", "merge", "read", "swap"}, planned : Manifest \cup {None},
                          current : Manifest \cup {None}, tries : 0 .. (CAS_ATTEMPTS - 1)]
<1>1. 0 \in 0 .. (CAS_ATTEMPTS - 1)
  BY ArchiveAssumption
<1> QED
  BY Zenon, <1>1 DEF IdlePublisher, IdleCompactor

\* A step that does not touch the head keeps what is known about it.
LEMMA HeadKept ==
    ASSUME IInv, UNCHANGED head, objects \subseteq objects'
    PROVE  /\ (head # None => Sound(head))'
           /\ HeadDurable'
           /\ ChainLinked'
           /\ Contents' = Contents
BY Zenon DEF IInv, HeadDurable, ChainLinked, Contents

\* Calls in progress are not disturbed by what others store or publish.
LEMMA CallsStay ==
    ASSUME NEW before, NEW stored, before \subseteq stored
    PROVE  /\ \A call : CompactingOk(call, before) => CompactingOk(call, stored)
           /\ \A call, h, g : /\ PublishingOk(call, h, before)
                              /\ NotBehind(h, call.previous) => NotBehind(g, call.previous)
                              => PublishingOk(call, g, stored)
BY Zenon DEF CompactingOk, PublishingOk

\* A step that leaves the head alone preserves the invariant, provided the
\* calls and messages it changes are in order.
LEMMA HeadStays ==
    ASSUME IInv, TypeOK', UNCHANGED head, objects \subseteq objects',
           acked' \subseteq Contents,
           \A w \in Publishers : \/ pub'[w] = pub[w]
                                 \/ PublishingOk(pub'[w], head, objects'),
           \A c \in Compactors : \/ cmp'[c] = cmp[c]
                                 \/ CompactingOk(cmp'[c], objects'),
           \A m \in inflight' : \/ m \in inflight
                                \/ Successor(m.expected, m.next, objects')
    PROVE  IInv'
<1>1. PublisherInv'
  BY Zenon, CallsStay DEF IInv, PublisherInv
<1>2. CompactorInv'
  BY Zenon, CallsStay DEF IInv, CompactorInv
<1>3. InflightInv'
  BY Zenon, SuccessorStays DEF IInv, InflightInv
<1>4. AckedArchived'
  BY Zenon, HeadKept DEF AckedArchived
<1> QED
  BY Zenon, <1>1, <1>2, <1>3, <1>4, HeadKept DEF IInv

\* A step that replaces the head by a successor preserves the invariant.
LEMMA HeadSwapped ==
    ASSUME IInv, TypeOK', UNCHANGED objects,
           Successor(head, head', objects),
           acked' \subseteq Contents',
           \A w \in Publishers : pub'[w] = pub[w] \/ pub'[w].pc = "idle",
           \A c \in Compactors : cmp'[c] = cmp[c] \/ cmp'[c].pc = "idle",
           inflight' \subseteq inflight
    PROVE  IInv'
<1>1. \A b \in Manifest \cup {None} : NotBehind(head, b) => NotBehind(head', b)
  BY Zenon, HeadReplaced
<1>2. PublisherInv'
  <2>1. ASSUME NEW w \in Publishers PROVE PublishingOk(pub'[w], head', objects')
    <3>1. PublishingOk(pub[w], head, objects) /\ pub[w].previous \in Manifest \cup {None}
      BY Zenon DEF IInv, PublisherInv, TypeOK
    <3>2. CASE pub'[w] = pub[w]
      BY Zenon, <3>1, <3>2, <1>1 DEF PublishingOk
    <3>3. CASE pub'[w].pc = "idle"
      BY Zenon, <3>3 DEF PublishingOk
    <3> QED
      BY Zenon, <3>2, <3>3
  <2> QED
    BY Zenon, <2>1 DEF PublisherInv
<1>3. CompactorInv'
  BY Zenon DEF IInv, CompactorInv, CompactingOk
<1>4. InflightInv'
  BY Zenon DEF IInv, InflightInv
<1> QED
  BY Zenon, <1>2, <1>3, <1>4, HeadReplaced DEF IInv, AckedArchived

-----------------------------------------------------------------------------
(* One lemma per kind of step *)

\* The calls of `publish` that leave the head alone.
LEMMA PublisherKeepsIInv ==
    ASSUME IInv, NEW w \in Publishers, NEW p \in Packages,
           \/ PublishAgain(w, p) \/ PublishBegin(w, p) \/ PublishUpload(w)
           \/ PublishSwapLost(w) \/ PublishSwapTimeout(w) \/ PublishConfirm(w)
           \/ PublishRebase(w) \/ PublishFail(w) \/ PublisherStops(w)
    PROVE  IInv'
<1>1. /\ TypeOK /\ PublishingOk(pub[w], head, objects) /\ acked \subseteq Contents
      /\ CAS_ATTEMPTS \in Nat \ {0}
  BY Zenon, ArchiveAssumption DEF IInv, PublisherInv, AckedArchived
<1>2. CASE PublishAgain(w, p)
  <2>1. TypeOK'
    BY Zenon, <1>1, <1>2 DEF PublishAgain, TypeOK
  <2>2. p \in Contents
    BY Zenon, <1>2, PublishedIsArchived DEF PublishAgain
  <2> QED
    BY Zenon, <1>1, <1>2, <2>1, <2>2, HeadStays DEF PublishAgain
<1>3. CASE PublishBegin(w, p)
  <2>1. TypeOK'
    BY <1>1, <1>3 DEF PublishBegin, TypeOK
  <2>2. \A v \in Publishers : v # w => pub'[v] = pub[v]
    BY Zenon, <1>1, <1>3 DEF PublishBegin, TypeOK
  <2>3. pub'[w] = [pc |-> "upload", pkg |-> p, previous |-> head, tries |-> 0]
    BY Zenon, <1>1, <1>3 DEF PublishBegin, TypeOK
  <2>4. NotBehind(head, head)
    <3>1. head # None => head.l0 \in Seq(Run)
      BY Zenon, <1>1 DEF TypeOK, Manifest
    <3>2. \A l0 \in Seq(Run) : Len(l0) <= Len(l0)
      OBVIOUS
    <3> QED
      BY Zenon, <3>1, <3>2 DEF NotBehind
  <2>5. PublishingOk(pub'[w], head, objects)
    BY <1>3, <2>3, <2>4 DEF PublishBegin, PublishingOk
  <2> QED
    BY Zenon, <1>1, <1>3, <2>1, <2>2, <2>5, HeadStays DEF PublishBegin
<1>4. CASE PublishUpload(w)
  <2>1. pub[w].pkg \in Packages /\ L0Run(pub[w].pkg).pkgs = {pub[w].pkg}
    BY Zenon, <1>1, <1>4 DEF PublishUpload, PublishingOk, L0Run
  <2>2. TypeOK'
    BY <1>1, <1>4, <2>1 DEF PublishUpload, TypeOK
  <2>3. \A v \in Publishers : v # w => pub'[v] = pub[v]
    BY Zenon, <1>1, <1>4 DEF PublishUpload, TypeOK
  <2>4. pub'[w] = [pub[w] EXCEPT !.pc = "swap"] /\ pub'[w].pc = "swap"
    BY Zenon, <1>1, <1>4 DEF PublishUpload, TypeOK
  <2>5. PublishingOk(pub'[w], head, objects')
    BY <1>1, <1>4, <2>1, <2>4 DEF PublishUpload, PublishingOk
  <2> QED
    BY Zenon, <1>1, <1>4, <2>2, <2>3, <2>5, HeadStays DEF PublishUpload
<1>5. CASE PublishSwapLost(w)
  <2>1. TypeOK'
    BY <1>1, <1>5 DEF PublishSwapLost, Fault, TypeOK, IdlePublisher
  <2>2. \A v \in Publishers : v # w => pub'[v] = pub[v]
    BY Zenon, <1>1, <1>5 DEF PublishSwapLost, TypeOK
  <2>3. pub'[w] = [pub[w] EXCEPT !.pc = "reread"] /\ pub'[w].pc = "reread"
    BY Zenon, <1>1, <1>5 DEF PublishSwapLost, TypeOK, IdlePublisher
  <2>4. PublishingOk(pub'[w], head, objects)
    BY <1>1, <1>5, <2>3 DEF PublishSwapLost, PublishingOk
  <2> QED
    BY Zenon, <1>1, <1>5, <2>1, <2>2, <2>4, HeadStays DEF PublishSwapLost
<1>6. CASE PublishSwapTimeout(w)
  <2> DEFINE g == Published(pub[w].previous, pub[w].pkg)
  <2>1. Successor(pub[w].previous, g, objects)
    BY Zenon, <1>1, <1>6 DEF PublishSwapTimeout, PublishingOk, Successor
  <2>2. g \in Manifest
    BY Zenon, <1>1, <1>6, PublishedType DEF PublishSwapTimeout, PublishingOk, TypeOK
  <2> HIDE DEF g
  <2>3. inflight' = inflight \cup {[expected |-> pub[w].previous, next |-> g]}
    BY Zenon, <1>6 DEF PublishSwapTimeout, g
  <2>4. TypeOK'
    BY <1>1, <1>6, <2>2, <2>3, ArchiveAssumption DEF PublishSwapTimeout, Fault, TypeOK
  <2>5. \A v \in Publishers : v # w => pub'[v] = pub[v]
    BY Zenon, <1>1, <1>6 DEF PublishSwapTimeout, TypeOK
  <2>6. /\ pub'[w].pc = "reread" /\ pub'[w].pkg = pub[w].pkg
        /\ pub'[w].previous = pub[w].previous /\ pub[w].pc = "swap"
    BY Zenon, <1>1, <1>6 DEF PublishSwapTimeout, TypeOK
  <2>7. PublishingOk(pub'[w], head, objects)
    BY Zenon, <1>1, <2>6 DEF PublishingOk
  <2>8. \A m \in inflight' : m \in inflight \/ Successor(m.expected, m.next, objects)
    BY <2>1, <2>3
  <2> QED
    BY Zenon, <1>1, <1>6, <2>4, <2>5, <2>7, <2>8, HeadStays DEF PublishSwapTimeout
<1>7. CASE PublishConfirm(w)
  <2>1. pub[w].pkg \in Packages
    BY Zenon, <1>1, <1>7 DEF PublishConfirm, PublishingOk
  <2>2. pub[w].pkg \in Contents
    BY Zenon, <1>7, <2>1, PublishedIsArchived DEF PublishConfirm
  <2>3. TypeOK'
    BY <1>1, <1>7, <2>1 DEF PublishConfirm, TypeOK, IdlePublisher
  <2>4. /\ \A v \in Publishers : v # w => pub'[v] = pub[v]
        /\ pub'[w].pc = "idle"
    BY Zenon, <1>1, <1>7 DEF PublishConfirm, TypeOK, IdlePublisher
  <2>5. PublishingOk(pub'[w], head, objects)
    BY Zenon, <2>4 DEF PublishingOk
  <2> QED
    BY Zenon, <1>1, <1>7, <2>2, <2>3, <2>4, <2>5, HeadStays DEF PublishConfirm
<1>8. CASE PublishRebase(w)
  <2>1. TypeOK'
    BY <1>1, <1>8 DEF PublishRebase, TypeOK
  <2>2. \A v \in Publishers : v # w => pub'[v] = pub[v]
    BY Zenon, <1>1, <1>8 DEF PublishRebase, TypeOK
  <2>3. /\ pub'[w].pc = "swap" /\ pub'[w].previous = head
        /\ pub'[w].pkg = pub[w].pkg
    BY <1>1, <1>8 DEF PublishRebase, TypeOK
  <2>4. /\ head \in Manifest /\ pub[w].previous \in Manifest
        /\ head # None /\ pub[w].previous # None
        /\ head.number = pub[w].previous.number /\ head.hash = pub[w].previous.hash
    BY Zenon, <1>1, <1>8 DEF PublishRebase, SameTip, TypeOK
  <2>5. /\ pub[w].pkg \in Packages /\ Admitted(pub[w].pkg) /\ {pub[w].pkg} \in objects
        /\ Extends(pub[w].previous, pub[w].pkg) /\ ~BacklogFull(pub[w].previous)
        /\ NotBehind(head, pub[w].previous)
    BY Zenon, <1>1, <1>8 DEF PublishRebase, PublishingOk
  <2>6. Extends(head, pub[w].pkg)
    BY Zenon, <2>4, <2>5 DEF Extends
  <2>7. ~BacklogFull(head) /\ NotBehind(head, head)
    <3>1. /\ Len(head.l0) \in Nat /\ Len(pub[w].previous.l0) \in Nat /\ head.number \in Nat
      BY <2>4 DEF Manifest
    <3> QED
      BY Zenon, <2>4, <2>5, <3>1, RoomKept
  <2>8. PublishingOk(pub'[w], head, objects)
    BY Zenon, <2>3, <2>5, <2>6, <2>7 DEF PublishingOk
  <2> QED
    BY Zenon, <1>1, <1>8, <2>1, <2>2, <2>8, HeadStays DEF PublishRebase
<1>9. CASE PublishFail(w) \/ PublisherStops(w)
  <2>1. TypeOK'
    <3>1. pub' = [pub EXCEPT ![w] = IdlePublisher] /\ UNCHANGED <<head, objects, inflight, cmp, acked>>
      BY Zenon, <1>9 DEF PublishFail, PublisherStops
    <3>2. faults' \in 0 .. MaxFaults
      BY Zenon, <1>1, <1>9, FaultType DEF PublishFail, PublisherStops, TypeOK
    <3> QED
      BY Zenon, <1>1, <3>1, <3>2, IdleType DEF TypeOK
  <2>2. /\ \A v \in Publishers : v # w => pub'[v] = pub[v]
        /\ pub'[w].pc = "idle"
    <3>1. pub' = [pub EXCEPT ![w] = IdlePublisher] /\ IdlePublisher.pc = "idle"
      BY Zenon, <1>9 DEF PublishFail, PublisherStops, IdlePublisher
    <3> QED
      BY Zenon, <1>1, <3>1 DEF TypeOK
  <2>3. PublishingOk(pub'[w], head, objects)
    BY <2>2 DEF PublishingOk
  <2> QED
    BY Zenon, <1>1, <1>9, <2>1, <2>2, <2>3, HeadStays DEF PublishFail, PublisherStops
<1> QED
  BY Zenon, <1>2, <1>3, <1>4, <1>5, <1>6, <1>7, <1>8, <1>9

\* The publisher's swap replaces the head by a successor and acknowledges it.
LEMMA PublishSwapKeepsIInv ==
    ASSUME IInv, NEW w \in Publishers, PublishSwap(w)
    PROVE  /\ IInv' /\ Successor(head, head', objects)
           /\ pub[w].pkg \in Packages /\ Admitted(pub[w].pkg) /\ Extends(head, pub[w].pkg)
           /\ Contents' = Contents \cup {pub[w].pkg}
<1> DEFINE p == pub[w].pkg
<1>1. TypeOK /\ PublishingOk(pub[w], head, objects) /\ acked \subseteq Contents
  BY Zenon DEF IInv, PublisherInv, AckedArchived
<1>2. /\ p \in Packages /\ Admitted(p) /\ Extends(head, p) /\ ~BacklogFull(head)
      /\ {p} \in objects /\ head' = Published(head, p)
      /\ head \in Manifest \cup {None}
  BY Zenon, <1>1 DEF PublishSwap, PublishingOk, TypeOK
<1> HIDE DEF p
<1>3. Successor(head, head', objects)
  BY Zenon, <1>2 DEF Successor
<1>4. Contents' = Contents \cup {p}
  <2>1. head' # None
    BY Zenon, <1>2, PublishedType, NoneAssumption
  <2>2. CASE head = None
    BY Zenon, <2>1, <2>2, <1>2, AnchorSound DEF Contents, Extends
  <2>3. CASE head # None
    BY Zenon, <2>1, <2>3, <1>2, DeltaSound DEF Contents, IInv
  <2> QED
    BY Zenon, <2>2, <2>3
<1>5. TypeOK'
  <2>1. head' \in Manifest
    BY Zenon, <1>2, PublishedType
  <2>2. acked' \subseteq Packages
    BY Zenon, <1>1, <1>2 DEF PublishSwap, TypeOK, p
  <2>3. IdlePublisher \in [pc : {"idle", "upload", "swap", "reread"},
                           pkg : Packages \cup {None},
                           previous : Manifest \cup {None},
                           tries : 0 .. (CAS_ATTEMPTS - 1)]
    BY ArchiveAssumption DEF IdlePublisher
  <2>4. pub' = [pub EXCEPT ![w] = IdlePublisher] /\ UNCHANGED <<objects, inflight, cmp, faults>>
    BY Zenon DEF PublishSwap
  <2> QED
    BY Zenon, <1>1, <2>1, <2>2, <2>3, <2>4 DEF TypeOK
<1>6. \A v \in Publishers : pub'[v] = pub[v] \/ pub'[v].pc = "idle"
  BY Zenon, <1>1 DEF PublishSwap, TypeOK, IdlePublisher
<1>7. acked' \subseteq Contents'
  BY Zenon, <1>1, <1>4 DEF PublishSwap, p
<1>8. IInv'
  BY Zenon, <1>3, <1>5, <1>6, <1>7, HeadSwapped DEF PublishSwap
<1> QED
  BY Zenon, <1>2, <1>3, <1>4, <1>8 DEF p

-----------------------------------------------------------------------------
(* Compactors *)

\* The calls of `compact_once` that leave the head alone.
LEMMA CompactorKeepsIInv ==
    ASSUME IInv, NEW c \in Compactors,
           \/ CompactPlan(c) \/ CompactMerge(c) \/ CompactRead(c) \/ CompactAbandon(c)
           \/ CompactSwapLost(c) \/ CompactSwapTimeout(c) \/ CompactorStops(c)
    PROVE  IInv'
<1>1. /\ TypeOK /\ CompactingOk(cmp[c], objects) /\ acked \subseteq Contents
      /\ CAS_ATTEMPTS \in Nat \ {0}
  BY Zenon, ArchiveAssumption DEF IInv, CompactorInv, AckedArchived
<1>2. CASE CompactPlan(c)
  <2>1. head \in Manifest
    BY Zenon, <1>1, <1>2 DEF CompactPlan, CompactionDue, TypeOK
  <2>2. TypeOK'
    BY <1>1, <1>2 DEF CompactPlan, TypeOK
  <2>3. \A d \in Compactors : d # c => cmp'[d] = cmp[d]
    BY Zenon, <1>1, <1>2 DEF CompactPlan, TypeOK
  <2>4. cmp'[c].pc = "merge" /\ cmp'[c].planned = head
    BY Zenon, <1>1, <1>2 DEF CompactPlan, TypeOK
  <2>5. CompactingOk(cmp'[c], objects)
    BY Zenon, <1>2, <2>1, <2>4 DEF CompactPlan, CompactingOk
  <2> QED
    BY Zenon, <1>1, <1>2, <2>2, <2>3, <2>5, HeadStays DEF CompactPlan
<1>3. CASE CompactMerge(c)
  <2>1. /\ cmp[c].planned \in Manifest /\ HasTarget(cmp[c].planned)
        /\ CompactionDue(cmp[c].planned)
    BY Zenon, <1>1, <1>3 DEF CompactMerge, CompactingOk
  <2>2. MergedPkgs(cmp[c].planned) \in SUBSET Packages
    BY Zenon, <2>1, MergedPkgsType
  <2>3. TypeOK'
    BY <1>1, <1>3, <2>2 DEF CompactMerge, TypeOK
  <2>4. \A d \in Compactors : d # c => cmp'[d] = cmp[d]
    BY Zenon, <1>1, <1>3 DEF CompactMerge, TypeOK
  <2>5. cmp'[c].pc = "read" /\ cmp'[c].planned = cmp[c].planned
    BY Zenon, <1>1, <1>3 DEF CompactMerge, TypeOK
  <2>6. CompactingOk(cmp'[c], objects')
    BY <1>3, <2>1, <2>5 DEF CompactMerge, CompactingOk
  <2> QED
    BY Zenon, <1>1, <1>3, <2>3, <2>4, <2>6, HeadStays DEF CompactMerge
<1>4. CASE CompactRead(c)
  <2>1. head \in Manifest /\ Sound(head)
    BY Zenon, <1>1, <1>4 DEF CompactRead, TypeOK, IInv
  <2>2. TypeOK'
    <3>1. cmp' = [cmp EXCEPT ![c] = [cmp[c] EXCEPT !.pc = "swap", !.current = head]]
      BY Zenon, <1>1, <1>4 DEF CompactRead, TypeOK
    <3>2. [cmp[c] EXCEPT !.pc = "swap", !.current = head]
            \in [pc : {"idle", "merge", "read", "swap"}, planned : Manifest \cup {None},
                 current : Manifest \cup {None}, tries : 0 .. (CAS_ATTEMPTS - 1)]
      <4> DEFINE Call == [pc : {"idle", "merge", "read", "swap"}, planned : Manifest \cup {None},
                          current : Manifest \cup {None}, tries : 0 .. (CAS_ATTEMPTS - 1)]
      <4>1. cmp[c] \in Call
        BY Zenon, <1>1 DEF TypeOK
      <4> QED
        BY ZenonT(60), <2>1, <4>1
    <3> QED
      BY <1>1, <1>4, <3>1, <3>2 DEF CompactRead, TypeOK
  <2>3. \A d \in Compactors : d # c => cmp'[d] = cmp[d]
    BY Zenon, <1>1, <1>4 DEF CompactRead, TypeOK
  <2>4. /\ cmp'[c].pc = "swap" /\ cmp'[c].planned = cmp[c].planned
        /\ cmp'[c].current = head /\ cmp[c].pc = "read"
    BY <1>1, <1>4 DEF CompactRead, TypeOK
  <2>5. CompactingOk(cmp'[c], objects)
    BY Zenon, <1>1, <1>4, <2>1, <2>4 DEF CompactRead, CompactingOk
  <2> QED
    BY Zenon, <1>1, <1>4, <2>2, <2>3, <2>5, HeadStays DEF CompactRead
<1>5. CASE CompactAbandon(c) \/ CompactorStops(c)
  <2>1. TypeOK'
    <3>1. cmp' = [cmp EXCEPT ![c] = IdleCompactor] /\ UNCHANGED <<head, objects, inflight, pub, acked>>
      BY Zenon, <1>5 DEF CompactAbandon, CompactorStops
    <3>2. faults' \in 0 .. MaxFaults
      BY Zenon, <1>1, <1>5, FaultType DEF CompactAbandon, CompactorStops, TypeOK
    <3> QED
      BY Zenon, <1>1, <3>1, <3>2, IdleType DEF TypeOK
  <2>2. /\ \A d \in Compactors : d # c => cmp'[d] = cmp[d]
        /\ cmp'[c].pc = "idle"
    <3>1. cmp' = [cmp EXCEPT ![c] = IdleCompactor] /\ IdleCompactor.pc = "idle"
      BY Zenon, <1>5 DEF CompactAbandon, CompactorStops, IdleCompactor
    <3> QED
      BY Zenon, <1>1, <3>1 DEF TypeOK
  <2>3. CompactingOk(cmp'[c], objects)
    BY Zenon, <2>2 DEF CompactingOk
  <2> QED
    BY Zenon, <1>1, <1>5, <2>1, <2>2, <2>3, HeadStays DEF CompactAbandon, CompactorStops
<1>6. ASSUME cmp[c].pc = "swap"
      PROVE  /\ Retried(c) \in [pc : {"idle", "merge", "read", "swap"},
                                planned : Manifest \cup {None},
                                current : Manifest \cup {None},
                                tries : 0 .. (CAS_ATTEMPTS - 1)]
             /\ CompactingOk(Retried(c), objects)
  <2>1. CASE cmp[c].tries + 1 < CAS_ATTEMPTS
    <3>1. Retried(c) = [cmp[c] EXCEPT !.pc = "read", !.tries = cmp[c].tries + 1]
      BY Zenon, <2>1 DEF Retried
    <3>2. /\ Retried(c).pc = "read" /\ Retried(c).planned = cmp[c].planned
          /\ cmp[c].tries + 1 \in 0 .. (CAS_ATTEMPTS - 1)
      BY <1>1, <2>1, <3>1 DEF TypeOK
    <3>3. CompactingOk(Retried(c), objects)
      BY Zenon, <1>1, <1>6, <3>2 DEF CompactingOk
    <3>4. /\ cmp[c] \in [pc : {"idle", "merge", "read", "swap"},
                         planned : Manifest \cup {None},
                         current : Manifest \cup {None},
                         tries : 0 .. (CAS_ATTEMPTS - 1)]
      BY Zenon, <1>1 DEF TypeOK
    <3>5. Retried(c) \in [pc : {"idle", "merge", "read", "swap"},
                          planned : Manifest \cup {None},
                          current : Manifest \cup {None},
                          tries : 0 .. (CAS_ATTEMPTS - 1)]
      BY Zenon, <3>1, <3>2, <3>4
    <3> QED
      BY Zenon, <3>3, <3>5
  <2>2. CASE ~(cmp[c].tries + 1 < CAS_ATTEMPTS)
    BY <1>1, <2>2 DEF Retried, IdleCompactor, CompactingOk
  <2> QED
    BY Zenon, <2>1, <2>2
<1>7. CASE CompactSwapLost(c)
  <2>1. TypeOK'
    BY Zenon, <1>1, <1>6, <1>7 DEF CompactSwapLost, TypeOK
  <2>2. \A d \in Compactors : cmp'[d] = IF d = c THEN Retried(c) ELSE cmp[d]
    BY Zenon, <1>1, <1>7 DEF CompactSwapLost, TypeOK
  <2>3. CompactingOk(cmp'[c], objects)
    BY Zenon, <1>6, <1>7, <2>2 DEF CompactSwapLost
  <2> QED
    BY Zenon, <1>1, <1>7, <2>1, <2>2, <2>3, HeadStays DEF CompactSwapLost
<1>8. CASE CompactSwapTimeout(c)
  <2> DEFINE g == Compacted(cmp[c].current, cmp[c].planned)
  <2>1. /\ cmp[c].pc = "swap" /\ cmp[c].current \in Manifest /\ Sound(cmp[c].current)
        /\ cmp[c].planned \in Manifest
        /\ HasTarget(cmp[c].planned) /\ Compatible(cmp[c].current, cmp[c].planned)
        /\ MergedPkgs(cmp[c].planned) \in objects
    BY Zenon, <1>1, <1>8 DEF CompactSwapTimeout, CompactingOk
  <2>2. Successor(cmp[c].current, g, objects)
    BY Zenon, <2>1, NoneAssumption DEF Successor
  <2>3. g \in Manifest
    BY Zenon, <2>1, CompactedSound
  <2> HIDE DEF g
  <2>4. inflight' = inflight \cup {[expected |-> cmp[c].current, next |-> g]}
    BY Zenon, <1>8 DEF CompactSwapTimeout, g
  <2>5. TypeOK'
    <3>1. inflight' \subseteq [expected : Manifest \cup {None}, next : Manifest]
      BY <1>1, <2>1, <2>3, <2>4 DEF TypeOK
    <3>2. cmp' \in [Compactors -> [pc : {"idle", "merge", "read", "swap"},
                                   planned : Manifest \cup {None},
                                   current : Manifest \cup {None},
                                   tries : 0 .. (CAS_ATTEMPTS - 1)]]
      <4>1. cmp' = [cmp EXCEPT ![c] = Retried(c)]
        BY Zenon, <1>8 DEF CompactSwapTimeout
      <4> QED
        BY Zenon, <1>1, <1>6, <2>1, <4>1 DEF TypeOK
    <3>3. faults' \in 0 .. MaxFaults
      BY Zenon, <1>1, <1>8, FaultType DEF CompactSwapTimeout
    <3>4. UNCHANGED <<head, objects, pub, acked>>
      BY Zenon, <1>8 DEF CompactSwapTimeout
    <3> QED
      BY Zenon, <1>1, <3>1, <3>2, <3>3, <3>4 DEF TypeOK
  <2>6. \A d \in Compactors : cmp'[d] = IF d = c THEN Retried(c) ELSE cmp[d]
    BY Zenon, <1>1, <1>8 DEF CompactSwapTimeout, TypeOK
  <2>7. CompactingOk(cmp'[c], objects)
    BY Zenon, <1>6, <2>1, <2>6
  <2>8. \A m \in inflight' : m \in inflight \/ Successor(m.expected, m.next, objects)
    BY <2>2, <2>4
  <2> QED
    BY Zenon, <1>1, <1>8, <2>5, <2>6, <2>7, <2>8, HeadStays DEF CompactSwapTimeout
<1> QED
  BY Zenon, <1>2, <1>3, <1>4, <1>5, <1>7, <1>8

\* The compactor's swap replaces the head by a successor with its contents.
LEMMA CompactSwapKeepsIInv ==
    ASSUME IInv, NEW c \in Compactors, CompactSwap(c)
    PROVE  /\ IInv' /\ Successor(head, head', objects)
           /\ Contents' = Contents
           /\ head # None /\ head' # None
           /\ head'.number = head.number /\ head'.hash = head.hash /\ head'.input = head.input
<1>1. TypeOK /\ CompactingOk(cmp[c], objects) /\ acked \subseteq Contents
  BY Zenon DEF IInv, CompactorInv, AckedArchived
<1> DEFINE planned == cmp[c].planned
<1>2. /\ head \in Manifest /\ Sound(head) /\ planned \in Manifest
      /\ HasTarget(planned) /\ Compatible(head, planned)
      /\ MergedPkgs(planned) \in objects /\ head' = Compacted(head, planned)
  BY Zenon, <1>1 DEF CompactSwap, CompactingOk
<1> HIDE DEF planned
<1>3. head # None
  BY Zenon, <1>2, NoneAssumption
<1>4. Successor(head, head', objects)
  BY Zenon, <1>2, <1>3 DEF Successor
<1>5. /\ head' \in Manifest /\ Archived(head') = Archived(head)
      /\ head'.number = head.number /\ head'.hash = head.hash /\ head'.input = head.input
  BY Zenon, <1>2, CompactedSound
<1>6. Contents' = Contents /\ head' # None
  BY Zenon, <1>3, <1>5, NoneAssumption DEF Contents
<1>7. TypeOK'
  <2>1. IdleCompactor \in [pc : {"idle", "merge", "read", "swap"},
                           planned : Manifest \cup {None},
                           current : Manifest \cup {None},
                           tries : 0 .. (CAS_ATTEMPTS - 1)]
    BY ArchiveAssumption DEF IdleCompactor
  <2>2. cmp' = [cmp EXCEPT ![c] = IdleCompactor]
        /\ UNCHANGED <<objects, inflight, pub, acked, faults>>
    BY Zenon DEF CompactSwap
  <2> QED
    BY Zenon, <1>1, <1>5, <2>1, <2>2 DEF TypeOK
<1>8. \A d \in Compactors : cmp'[d] = cmp[d] \/ cmp'[d].pc = "idle"
  BY Zenon, <1>1 DEF CompactSwap, TypeOK, IdleCompactor
<1>9. IInv'
  BY Zenon, <1>1, <1>4, <1>6, <1>7, <1>8, HeadSwapped DEF CompactSwap
<1> QED
  BY Zenon, <1>3, <1>4, <1>5, <1>6, <1>9

\* A late swap replaces the head by a successor and acknowledges nothing.
LEMMA LateSwapKeepsIInv ==
    ASSUME IInv, NEW m \in inflight, LateSwap(m)
    PROVE  IInv' /\ Successor(head, head', objects)
<1>1. TypeOK /\ acked \subseteq Contents /\ Successor(m.expected, m.next, objects)
  BY Zenon DEF IInv, InflightInv, AckedArchived
<1>2. Successor(head, head', objects)
  BY Zenon, <1>1 DEF LateSwap
<1>3. UNCHANGED <<objects, pub, cmp, acked, faults>> /\ inflight' \subseteq inflight
  BY Zenon DEF LateSwap
<1>4. head' \in Manifest /\ Contents \subseteq Contents'
  BY Zenon, <1>2, <1>3, HeadReplaced
<1>5. TypeOK'
  BY Zenon, <1>1, <1>3, <1>4 DEF TypeOK
<1> QED
  BY Zenon, <1>1, <1>2, <1>3, <1>4, <1>5, HeadSwapped

\* Every step of a publisher, a compactor or the store preserves the inductive
\* invariant: one step per action.
LEMMA NextIInv == IInv /\ [Next]_vars => IInv'
<1> SUFFICES ASSUME IInv, [Next]_vars PROVE IInv'
  BY Zenon
<1>1. ASSUME NEW w \in Publishers, NEW p \in Packages,
             PublishAgain(w, p) \/ PublishBegin(w, p)
      PROVE  IInv'
  BY Zenon, <1>1, PublisherKeepsIInv
<1>2. ASSUME NEW w \in Publishers,
             PublisherStep(w) \/ PublishSwapTimeout(w) \/ PublisherStops(w)
      PROVE  IInv'
  <2>1. CASE PublishSwap(w)
    BY Zenon, <2>1, PublishSwapKeepsIInv
  <2>2. CASE ~PublishSwap(w)
    <3>1. PICK p : p \in Packages
      <4>1. PublishingOk(pub[w], head, objects) /\ pub[w].pc # "idle"
        BY Zenon, <1>2 DEF IInv, PublisherInv, PublisherStep, PublishUpload, PublishSwap,
                    PublishSwapLost, PublishConfirm, PublishRebase, PublishFail,
                    PublishSwapTimeout, PublisherStops
      <4> QED
        BY Zenon, <4>1 DEF PublishingOk
    <3> QED
      BY Zenon, <1>2, <2>2, <3>1, PublisherKeepsIInv DEF PublisherStep
  <2> QED
    BY Zenon, <2>1, <2>2
<1>3. ASSUME NEW c \in Compactors,
             CompactorStep(c) \/ CompactSwapTimeout(c) \/ CompactorStops(c)
      PROVE  IInv'
  BY Zenon, <1>3, CompactorKeepsIInv, CompactSwapKeepsIInv DEF CompactorStep
<1>4. ASSUME NEW m \in inflight, LateSwap(m)
      PROVE  IInv'
  BY Zenon, <1>4, LateSwapKeepsIInv
<1>5. CASE UNCHANGED vars
  BY Zenon, <1>5 DEF vars, IInv, TypeOK, HeadDurable, ChainLinked, AckedArchived, Contents,
              PublisherInv, CompactorInv, InflightInv
<1> QED
  BY Zenon, <1>1, <1>2, <1>3, <1>4, <1>5 DEF Next

-----------------------------------------------------------------------------
(* The theorems *)

\* Every reachable state satisfies the inductive invariant.
THEOREM Invariance == Spec => []IInv
BY InitIInv, NextIInv, PTL DEF Spec

\* Every variable keeps its type, attempt counters within their bounds.
THEOREM TypeCorrect == Spec => []TypeOK
BY Invariance, PTL DEF IInv

\* Every stored head passes `Head::decode`.
THEOREM StoredHeadDecodes == Spec => []HeadDecodes
<1>1. IInv => HeadDecodes
  BY Zenon DEF IInv, Sound, HeadDecodes
<1> QED
  BY <1>1, Invariance, PTL

\* Every run a head names was uploaded before the swap that named it.
THEOREM ObjectsBeforeHead == Spec => []HeadDurable
BY Invariance, PTL DEF IInv

\* The archived packages are one hash-linked chain.
THEOREM OneChain == Spec => []ChainLinked
BY Invariance, PTL DEF IInv

\* A publication reported as successful is in the archive, for good.
THEOREM AckedStaysArchived == Spec => []AckedArchived
BY Invariance, PTL DEF IInv

\* In a sound head no package is in two runs: their intervals are disjoint.
LEMMA DisjointRuns ==
    ASSUME NEW h \in Manifest, Sound(h), NEW r \in runs(h), NEW s \in runs(h), r # s
    PROVE  r.pkgs \cap s.pkgs = {}
<1>1. r.end < s.start \/ s.end < r.start
  <2>1. \A i \in Occupied(h) : i \in Nat
    BY Zenon, LevelType
  <2>2. CASE \E i, j \in Occupied(h) : r = h.levels[i] /\ s = h.levels[j]
    <3>1. PICK i \in Occupied(h), j \in Occupied(h) : r = h.levels[i] /\ s = h.levels[j]
      BY Zenon, <2>2
    <3>2. i < j \/ j < i
      BY <2>1, <3>1
    <3> QED
      BY Zenon, <3>1, <3>2 DEF Sound, Ordered
  <2>3. CASE \E k, m \in 1 .. Len(h.l0) : r = h.l0[k] /\ s = h.l0[m]
    <3>1. PICK k \in 1 .. Len(h.l0), m \in 1 .. Len(h.l0) : r = h.l0[k] /\ s = h.l0[m]
      BY Zenon, <2>3
    <3>2. k < m \/ m < k
      BY <3>1 DEF Manifest
    <3> QED
      BY Zenon, <3>1, <3>2 DEF Sound, Ordered
  <2>4. CASE \E i \in Occupied(h), k \in 1 .. Len(h.l0) :
                \/ r = h.levels[i] /\ s = h.l0[k]
                \/ s = h.levels[i] /\ r = h.l0[k]
    BY Zenon, <2>4 DEF Sound, Ordered
  <2> QED
    BY Zenon, <2>2, <2>3, <2>4 DEF runs
<1>2. ASSUME NEW p \in r.pkgs, p \in s.pkgs PROVE FALSE
  <2>1. p \in Packages /\ r \in Run /\ s \in Run
    BY Zenon, RunType DEF Run
  <2>2. /\ r.start <= p.first /\ p.last <= r.end
        /\ s.start <= p.first /\ p.last <= s.end
    BY Zenon, <1>2 DEF Sound, PackagesInside
  <2>3. /\ p.first \in Nat /\ p.last \in Nat /\ p.first <= p.last
        /\ r.start \in Nat /\ r.end \in Nat /\ s.start \in Nat /\ s.end \in Nat
    BY Zenon, <2>1, PackageType DEF Run
  <2> QED
    BY <1>1, <2>2, <2>3
<1> QED
  BY Zenon, <1>2

\* Runs partition the archived history by block interval.
THEOREM RunsPartition == Spec => []RunsPartitionHistory
<1>1. IInv => RunsPartitionHistory
  BY Zenon, DisjointRuns DEF IInv, TypeOK, Sound, PackagesInside, RunsPartitionHistory
<1> QED
  BY <1>1, Invariance, PTL

\* A due compaction can always be planned, unless every level is full: the
\* bail-outs of compact_once before the merge are unreachable short of that.
THEOREM PlanNeverRefused == Spec => []CompactionPossible
<1>1. IInv => CompactionPossible
  BY Zenon, PlanPossible DEF IInv, TypeOK, CompactionDue, CompactionPossible
<1> QED
  BY <1>1, Invariance, PTL

\* Only a successor takes the place of a head.
LEMMA HeadStep ==
    ASSUME IInv, [Next]_vars
    PROVE  UNCHANGED head \/ (Successor(head, head', objects) /\ UNCHANGED objects)
<1>1. ASSUME NEW w \in Publishers, PublishSwap(w)
      PROVE  Successor(head, head', objects) /\ UNCHANGED objects
  BY Zenon, <1>1, PublishSwapKeepsIInv DEF PublishSwap
<1>2. ASSUME NEW c \in Compactors, CompactSwap(c)
      PROVE  Successor(head, head', objects) /\ UNCHANGED objects
  BY Zenon, <1>2, CompactSwapKeepsIInv DEF CompactSwap
<1>3. ASSUME NEW m \in inflight, LateSwap(m)
      PROVE  Successor(head, head', objects) /\ UNCHANGED objects
  BY Zenon, <1>3, LateSwapKeepsIInv DEF LateSwap
<1> QED
  BY Zenon, <1>1, <1>2, <1>3
     DEF Next, vars, PublisherStep, CompactorStep, PublishAgain, PublishBegin, PublishUpload,
         PublishSwapLost, PublishSwapTimeout, PublishConfirm, PublishRebase, PublishFail,
         PublisherStops, CompactPlan, CompactMerge, CompactRead, CompactAbandon,
         CompactSwapLost, CompactSwapTimeout, CompactorStops

\* The head never returns to an earlier state, so comparing contents is as
\* good as comparing versions.
THEOREM HeadOnlyAdvances == Spec => HeadAdvances
<1>1. IInv /\ [Next]_vars => [head # None => head' # None /\ Advances(head, head')]_head
  BY Zenon, HeadStep, HeadReplaced, NoneAssumption
<1> QED
  BY <1>1, Invariance, PTL DEF Spec, HeadAdvances

-----------------------------------------------------------------------------
(* Refinement *)

Tip(h) == IF h = None THEN None ELSE [number |-> h.number, hash |-> h.hash, input |-> h.input]

\* A successor publishes one package, or leaves the visible archive as it is.
LEMMA SuccessorIsVisibleStep ==
    ASSUME IInv, Successor(head, head', objects), UNCHANGED objects
    PROVE  \/ Contents' = Contents /\ Tip(head') = Tip(head)
           \/ \E p \in Packages :
                /\ Admitted(p) /\ Extends(head, p)
                /\ Contents' = Contents \cup {p}
                /\ Tip(head') = [number |-> p.last, hash |-> p.hash, input |-> p.input]
<1>1. /\ head \in Manifest \cup {None} /\ (head # None => Sound(head))
      /\ head' \in Manifest /\ head' # None
  BY Zenon, HeadReplaced, NoneAssumption DEF IInv, TypeOK
<1>2. ASSUME NEW p \in Packages, Admitted(p), Extends(head, p), ~BacklogFull(head),
             head' = Published(head, p)
      PROVE  /\ Contents' = Contents \cup {p}
             /\ Tip(head') = [number |-> p.last, hash |-> p.hash, input |-> p.input]
  <2>1. CASE head = None
    BY Zenon, <1>1, <1>2, <2>1, AnchorSound DEF Contents, Extends, Tip, Published
  <2>2. CASE head # None
    BY Zenon, <1>1, <1>2, <2>2, DeltaSound DEF Contents, Tip, Published
  <2> QED
    BY Zenon, <2>1, <2>2
<1>3. ASSUME head # None, NEW planned \in Manifest, HasTarget(planned),
             Compatible(head, planned), head' = Compacted(head, planned)
      PROVE  Contents' = Contents /\ Tip(head') = Tip(head)
  <2>1. /\ Archived(head') = Archived(head) /\ head'.number = head.number
        /\ head'.hash = head.hash /\ head'.input = head.input
    BY Zenon, <1>1, <1>3, CompactedSound
  <2> QED
    BY Zenon, <1>1, <1>3, <2>1 DEF Contents, Tip
<1> QED
  BY Zenon, <1>2, <1>3 DEF Successor

\* Publication of an extending package is the abstract Publish.
LEMMA PublishRefines ==
    ASSUME IInv, NEW p \in Packages, Admitted(p), Extends(head, p),
           Contents' = Contents \cup {p},
           Tip(head') = [number |-> p.last, hash |-> p.hash, input |-> p.input],
           acked' \in {acked, acked \cup {p}}
    PROVE  History!Next
<1>1. History!Continues(p)
  <2>1. CASE head = None
    BY Zenon, <2>1 DEF History!Continues, Extends
  <2>2. CASE head # None
    <3>1. head \in Manifest
      BY Zenon, <2>2 DEF IInv, TypeOK
    <3>2. [number |-> head.number, hash |-> head.hash, input |-> head.input] # None
      <4>1. head.number \in Nat /\ head.hash \in Hashes /\ head.input \in Inputs
        BY Zenon, <3>1 DEF Manifest
      <4>2. [number |-> head.number, hash |-> head.hash, input |-> head.input]
              \in [number : Nat, hash : Hashes, input : Inputs]
        BY Zenon, <4>1
      <4> QED
        BY Zenon, <4>2, NoneAssumption
    <3> QED
      BY Zenon, <2>2, <3>2 DEF History!Continues, Extends
  <2> QED
    BY Zenon, <2>1, <2>2
<1>2. History!Publish(p)
  BY Zenon, <1>1 DEF History!Publish, Admitted, Tip
<1> QED
  BY Zenon, <1>2 DEF History!Next

\* Success for the package at the head is the abstract Acknowledge.
LEMMA AcknowledgeRefines ==
    ASSUME IInv, NEW p \in Packages, is_published(head, p),
           UNCHANGED head, acked' = acked \cup {p}
    PROVE  History!Next
<1>1. p \in Contents
  BY Zenon, PublishedIsArchived
<1>2. History!Acknowledge(p)
  BY Zenon, <1>1 DEF History!Acknowledge, is_published, Contents
<1> QED
  BY Zenon, <1>2 DEF History!Next

\* Writers, retries, compactions and late swaps implement the append-only
\* history.
THEOREM Refinement == Spec => ImplementsHistory
<1>1. Init => History!Init
  BY Zenon DEF Init, History!Init, Contents
<1>2. IInv /\ [Next]_vars => [History!Next]_(History!vars)
  <2> SUFFICES ASSUME IInv, [Next]_vars PROVE [History!Next]_(History!vars)
    BY Zenon
  <2>1. ASSUME NEW w \in Publishers, PublishSwap(w)
        PROVE  History!Next
    <3>1. /\ pub[w].pkg \in Packages /\ Admitted(pub[w].pkg) /\ Extends(head, pub[w].pkg)
          /\ Contents' = Contents \cup {pub[w].pkg}
      BY Zenon, <2>1, PublishSwapKeepsIInv
    <3>2. Tip(head') = [number |-> pub[w].pkg.last, hash |-> pub[w].pkg.hash,
                        input |-> pub[w].pkg.input]
      <4>1. head' # None /\ head' = Published(pub[w].previous, pub[w].pkg)
        BY Zenon, <2>1, PublishSwapKeepsIInv, HeadReplaced, NoneAssumption DEF PublishSwap
      <4> QED
        BY Zenon, <4>1 DEF Tip, Published
    <3> QED
      BY Zenon, <2>1, <3>1, <3>2, PublishRefines DEF PublishSwap
  <2>2. ASSUME NEW c \in Compactors, CompactSwap(c)
        PROVE  UNCHANGED History!vars
    BY Zenon, <2>2, CompactSwapKeepsIInv DEF CompactSwap, History!vars
  <2>3. ASSUME NEW m \in inflight, LateSwap(m)
        PROVE  [History!Next]_(History!vars)
    <3>1. Successor(head, head', objects) /\ UNCHANGED <<objects, acked>>
      BY Zenon, <2>3, LateSwapKeepsIInv DEF LateSwap
    <3>2. CASE Contents' = Contents /\ Tip(head') = Tip(head)
      BY Zenon, <3>1, <3>2 DEF History!vars, Tip
    <3>3. CASE \E p \in Packages :
                 /\ Admitted(p) /\ Extends(head, p)
                 /\ Contents' = Contents \cup {p}
                 /\ Tip(head') = [number |-> p.last, hash |-> p.hash, input |-> p.input]
      BY Zenon, <3>1, <3>3, PublishRefines
    <3> QED
      BY Zenon, <3>1, <3>2, <3>3, SuccessorIsVisibleStep
  <2>4. ASSUME NEW w \in Publishers, NEW p \in Packages, PublishAgain(w, p)
        PROVE  History!Next
    BY Zenon, <2>4, AcknowledgeRefines DEF PublishAgain
  <2>5. ASSUME NEW w \in Publishers, PublishConfirm(w)
        PROVE  History!Next
    <3>1. pub[w].pkg \in Packages
      BY Zenon, <2>5 DEF PublishConfirm, IInv, PublisherInv, PublishingOk
    <3> QED
      BY Zenon, <2>5, <3>1, AcknowledgeRefines DEF PublishConfirm
  <2>6. UNCHANGED <<head, acked>> => UNCHANGED History!vars
    BY Zenon DEF History!vars, Contents
  <2> QED
    BY ZenonT(30), <2>1, <2>2, <2>3, <2>4, <2>5, <2>6
       DEF Next, vars, PublisherStep, CompactorStep, PublishBegin, PublishUpload,
           PublishSwapLost, PublishSwapTimeout, PublishRebase, PublishFail,
           PublisherStops, CompactPlan, CompactMerge, CompactRead, CompactAbandon,
           CompactSwapLost, CompactSwapTimeout, CompactorStops
<1> QED
  BY <1>1, <1>2, Invariance, PTL DEF Spec, ImplementsHistory, History!Spec

=============================================================================
