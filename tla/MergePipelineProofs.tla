------------------------- MODULE MergePipelineProofs --------------------------
(***************************************************************************)
(* The safety of a merge, for any number of sorted runs, any page size, any *)
(* capacity of the channels and any reading ahead.                          *)
(***************************************************************************)
EXTENDS MergePipeline, FiniteSetTheorems, WellFoundedInduction, TLAPS

(***************************************************************************)
(* The inductive invariant                                                  *)
(***************************************************************************)

Objects == [kind : {"page", "root"}, content : Seq(Nat)]

TypeOK ==
    /\ runs \in InputSets
    /\ taken \in [1 .. Len(runs) -> Nat]
    /\ \A i \in 1 .. Len(runs) : taken[i] <= Len(runs[i])
    /\ producer \in {"running", "ok", "err"}
    /\ records \in Seq(Nat)
    /\ builder \in [state : {"running", "closing", "ok", "err"},
                    got : Seq(Nat), page : Seq(Nat), out : Seq(Objects)]
    /\ objects \in Seq(Objects)
    /\ uploader \in [state : {"running", "ok", "err"}, puts : SUBSET Objects]
    /\ stored \in SUBSET Objects
    /\ result \in {"none", "ok", "err"}

Rising(s) == \A j, k \in 1 .. Len(s) : j < k => s[j] < s[k]

\* What the builder got, then what waits for it, then what is still in the runs.
StreamRises ==
    /\ Rising(builder.got)
    /\ Rising(records)
    /\ \A j \in 1 .. Len(builder.got), k \in 1 .. Len(records) : builder.got[j] < records[k]
    /\ \A i \in Heads :
         /\ \A j \in 1 .. Len(builder.got) : builder.got[j] < Peek(i)
         /\ \A j \in 1 .. Len(records) : records[j] < Peek(i)

TakenRecords == UNION {{runs[i][j] : j \in 1 .. taken[i]} : i \in 1 .. Len(runs)}

\* A record that left its run reached the builder or waits for it.
NothingDropped ==
    /\ Range(builder.got) \cup Range(records) \subseteq TakenRecords
    /\ builder.state # "err" => TakenRecords \subseteq Range(builder.got) \cup Range(records)

\* The objects made so far, and the pages among them.
Made == stored \cup uploader.puts \cup Range(objects) \cup Range(builder.out)
PagedIn(objs) == UNION {Range(o.content) : o \in {x \in objs : x.kind = "page"}}

\* What the builder got is in a page that it made or is filling, as long as no
\* object was thrown away, and a page holds nothing else.
GotIsPaged ==
    /\ PagedIn(Made) \cup Range(builder.page) \subseteq Range(builder.got)
    /\ builder.state # "err" /\ uploader.state # "err" =>
         Range(builder.got) \subseteq
             PagedIn(Made) \cup (IF builder.state = "running" THEN Range(builder.page) ELSE {})

RootIsMade ==
    builder.state \in {"closing", "ok"} /\ uploader.state # "err" => Root(builder.got) \in Made

\* What each task has seen of the others when it ends.
EndsInOrder ==
    /\ producer = "ok" => Heads = {}
    /\ builder.state \in {"closing", "ok"} => records = << >> /\ producer # "running"
    /\ builder.state = "ok" => builder.out = << >>
    /\ uploader.state = "ok" =>
         uploader.puts = {} /\ objects = << >> /\ builder.state \in {"ok", "err"}
    /\ builder.state = "err" => builder.out = << >> /\ records = << >>
    /\ result = "ok" => Succeeds

PipelineInv ==
    /\ TypeOK /\ StreamRises /\ NothingDropped /\ GotIsPaged /\ RootIsMade /\ EndsInOrder

\* The pages that wait for a scanner are the ones that come next.
RunFetched(i) ==
    /\ fetched[i] = [p \in 1 .. PagesOf(i) |-> IF p <= loaded[i] \/ p \in ready[i] THEN 1 ELSE 0]
    /\ \E k \in 0 .. READ_AHEAD - 1 : ready[i] = (loaded[i] + 1) .. (loaded[i] + k)

FetchInv ==
    /\ runs \in InputSets
    /\ loaded \in [1 .. Len(runs) -> Nat]
    /\ ready \in [1 .. Len(runs) -> SUBSET Nat]
    /\ DOMAIN fetched = 1 .. Len(runs)
    /\ \A i \in 1 .. Len(runs) : RunFetched(i)

LEMMA RunsTyped ==
    ASSUME runs \in InputSets
    PROVE  /\ runs \in Seq(Seq(Nat)) /\ Len(runs) \in Nat
           /\ \A i \in 1 .. Len(runs) :
                /\ runs[i] \in Seq(Nat) /\ Len(runs[i]) \in Nat
                /\ \A j \in 1 .. Len(runs[i]) : runs[i][j] \in Nat
                /\ \A j, k \in 1 .. Len(runs[i]) : j < k => runs[i][j] < runs[i][k]
<1>1. /\ runs \in Seq(Seq(Nat))
      /\ \A i \in 1 .. Len(runs) : \A j, k \in 1 .. Len(runs[i]) :
           j < k => runs[i][j] < runs[i][k]
  BY Zenon, PipelineAssumption
<1>2. \A i \in 1 .. Len(runs) : runs[i] \in Seq(Nat)
  BY <1>1
<1> QED BY <1>1, <1>2

LEMMA HeadTyped ==
    ASSUME TypeOK, NEW i \in Heads
    PROVE  /\ i \in 1 .. Len(runs) /\ taken[i] \in Nat /\ taken[i] + 1 \in 1 .. Len(runs[i])
           /\ Peek(i) \in Nat
<1>1. runs \in InputSets /\ taken \in [1 .. Len(runs) -> Nat]
  BY Zenon DEF TypeOK
<1>2. i \in 1 .. Len(runs) /\ taken[i] < Len(runs[i])
  BY Zenon DEF Heads
<1>3. Len(runs[i]) \in Nat /\ \A j \in 1 .. Len(runs[i]) : runs[i][j] \in Nat
  BY Zenon, <1>1, <1>2, RunsTyped
<1>4. taken[i] \in Nat /\ taken[i] + 1 \in 1 .. Len(runs[i])
  BY <1>1, <1>2, <1>3
<1> QED BY Zenon, <1>2, <1>3, <1>4 DEF Peek

(***************************************************************************)
(* Pages                                                                    *)
(***************************************************************************)

LEMMA PagesOfInt ==
    ASSUME runs \in InputSets, NEW i \in 1 .. Len(runs)
    PROVE  PagesOf(i) \in Int
<1>1. Len(runs[i]) \in Nat /\ PAGE \in Nat \ {0}
  BY PipelineAssumption
<1> QED BY <1>1 DEF PagesOf

LEMMA FetchInit == Init => FetchInv
<1> SUFFICES ASSUME Init PROVE FetchInv
  BY Zenon
<1>1. runs \in InputSets /\ Len(runs) \in Nat /\ READ_AHEAD \in Nat \ {0}
  BY PipelineAssumption DEF Init
<1>2. ASSUME NEW i \in 1 .. Len(runs)
      PROVE  RunFetched(i)
  <2>1. PagesOf(i) \in Int
    BY Zenon, <1>1, PagesOfInt
  <2>2. loaded[i] = 0 /\ ready[i] = {} /\ fetched[i] = [p \in 1 .. PagesOf(i) |-> 0]
    BY Zenon, <1>1 DEF Init
  <2>3. ready[i] = (loaded[i] + 1) .. (loaded[i] + 0)
    BY <2>2
  <2>4. fetched[i] = [p \in 1 .. PagesOf(i) |-> IF p <= loaded[i] \/ p \in ready[i] THEN 1 ELSE 0]
    <3>1. \A p \in 1 .. PagesOf(i) : ~(p <= loaded[i] \/ p \in ready[i])
      BY <2>1, <2>2
    <3> QED BY Zenon, <2>2, <3>1
  <2>5. 0 \in 0 .. READ_AHEAD - 1
    BY <1>1
  <2> QED BY Zenon, <2>3, <2>4, <2>5 DEF RunFetched
<1> QED BY Zenon, <1>1, <1>2 DEF Init, FetchInv

\* A page that waits is handed out; a batch is fetched only when none does.
LEMMA FetchGet ==
    ASSUME FetchInv, NEW i \in Heads, ReadAheadGet(i)
    PROVE  FetchInv'
<1> DEFINE p == loaded[i] + 1
           batch == IF p \in ready[i] THEN {} ELSE {q \in p .. PagesOf(i) : q < p + READ_AHEAD}
<1>1. /\ runs \in InputSets /\ Len(runs) \in Nat /\ READ_AHEAD \in Nat \ {0}
      /\ i \in 1 .. Len(runs) /\ loaded[i] \in Nat /\ PagesOf(i) \in Int
  <2>1. runs \in InputSets /\ i \in 1 .. Len(runs) /\ loaded \in [1 .. Len(runs) -> Nat]
    BY Zenon DEF FetchInv, Heads
  <2>2. Len(runs) \in Nat /\ READ_AHEAD \in Nat \ {0}
    BY <2>1, PipelineAssumption
  <2> QED BY Zenon, <2>1, <2>2, PagesOfInt
<1>2. PICK k \in 0 .. READ_AHEAD - 1 : ready[i] = p .. (loaded[i] + k)
  BY Zenon, <1>1 DEF FetchInv, RunFetched
<1>3. /\ runs' = runs
      /\ loaded' = [loaded EXCEPT ![i] = p]
      /\ ready' = [ready EXCEPT ![i] = (ready[i] \cup batch) \ {p}]
      /\ fetched' = [fetched EXCEPT ![i] =
             [q \in 1 .. PagesOf(i) |-> IF q \in batch THEN fetched[i][q] + 1 ELSE fetched[i][q]]]
  BY Zenon DEF ReadAheadGet
<1>4. loaded'[i] = p /\ ready'[i] = (ready[i] \cup batch) \ {p} /\ batch \in SUBSET Nat
  BY <1>1, <1>3 DEF FetchInv
<1>5. \E m \in 0 .. READ_AHEAD - 1 : ready'[i] = (p + 1) .. (p + m)
  <2>1. CASE k > 0
    <3>1. p \in ready[i]
      BY <1>1, <1>2, <2>1
    <3>2. ready'[i] = (p + 1) .. (p + (k - 1))
      BY <1>1, <1>2, <1>4, <3>1
    <3> QED BY <1>1, <2>1, <3>2
  <2>2. CASE k = 0
    <3>1. ready[i] = {}
      BY <1>1, <1>2, <2>2
    <3>2. CASE PagesOf(i) <= p
      <4>1. ready'[i] = (p + 1) .. (p + 0)
        BY <1>1, <1>4, <3>1, <3>2
      <4> QED BY <1>1, <4>1
    <3>3. CASE p < PagesOf(i) /\ PagesOf(i) < p + READ_AHEAD
      <4>1. ready'[i] = (p + 1) .. (p + (PagesOf(i) - p))
        BY <1>1, <1>4, <3>1, <3>3
      <4> QED BY <1>1, <3>3, <4>1
    <3>4. CASE p + READ_AHEAD <= PagesOf(i)
      <4>1. ready'[i] = (p + 1) .. (p + (READ_AHEAD - 1))
        BY <1>1, <1>4, <3>1, <3>4
      <4> QED BY <1>1, <4>1
    <3> QED BY <1>1, <3>2, <3>3, <3>4
  <2> QED BY <1>2, <2>1, <2>2
<1>6. \A q \in 1 .. PagesOf(i) :
          fetched'[i][q] = IF q <= p \/ q \in ready'[i] THEN 1 ELSE 0
  <2> SUFFICES ASSUME NEW q \in 1 .. PagesOf(i)
               PROVE  fetched'[i][q] = IF q <= p \/ q \in ready'[i] THEN 1 ELSE 0
    BY Zenon
  <2>1. fetched[i][q] = IF q <= loaded[i] \/ q \in ready[i] THEN 1 ELSE 0
    BY <1>1 DEF FetchInv, RunFetched
  <2>2. fetched'[i][q] = IF q \in batch THEN fetched[i][q] + 1 ELSE fetched[i][q]
    BY Zenon, <1>1, <1>3 DEF FetchInv
  <2>3. CASE p \in ready[i]
    BY <1>1, <1>4, <2>1, <2>2, <2>3
  <2>4. CASE p \notin ready[i]
    <3>1. ready[i] = {}
      BY <1>1, <1>2, <2>4
    <3> QED BY <1>1, <1>4, <2>1, <2>2, <2>4, <3>1
  <2> QED BY Zenon, <2>3, <2>4
<1>7. PagesOf(i)' = PagesOf(i)
  BY Zenon, <1>3 DEF PagesOf
<1>8. fetched'[i] = [q \in 1 .. PagesOf(i) |-> IF q <= loaded'[i] \/ q \in ready'[i] THEN 1 ELSE 0]
  <2>1. fetched'[i] =
            [q \in 1 .. PagesOf(i) |-> IF q \in batch THEN fetched[i][q] + 1 ELSE fetched[i][q]]
    BY Zenon, <1>1, <1>3 DEF FetchInv
  <2> HIDE DEF batch, p
  <2> QED BY Zenon, <1>4, <1>6, <2>1
<1>9. ASSUME NEW j \in 1 .. Len(runs), j # i
      PROVE  /\ fetched'[j] = fetched[j] /\ loaded'[j] = loaded[j] /\ ready'[j] = ready[j]
             /\ PagesOf(j)' = PagesOf(j)
  BY Zenon, <1>1, <1>3, <1>9 DEF FetchInv, PagesOf
<1>10. /\ loaded' \in [1 .. Len(runs) -> Nat] /\ ready' \in [1 .. Len(runs) -> SUBSET Nat]
       /\ DOMAIN fetched' = 1 .. Len(runs)
  <2>1. loaded \in [1 .. Len(runs) -> Nat] /\ ready \in [1 .. Len(runs) -> SUBSET Nat]
    BY Zenon DEF FetchInv
  <2>2. p \in Nat /\ (ready[i] \cup batch) \ {p} \in SUBSET Nat
    BY <1>1, <1>4, <2>1
  <2>3. DOMAIN fetched' = 1 .. Len(runs)
    BY Zenon, <1>3 DEF FetchInv
  <2> HIDE DEF batch, p
  <2> QED BY Zenon, <1>1, <1>3, <2>1, <2>2, <2>3
<1>11. ASSUME NEW j \in 1 .. Len(runs)
       PROVE  RunFetched(j)'
  <2>1. CASE j = i
    <3> HIDE DEF batch, p
    <3> QED BY Zenon, <1>4, <1>5, <1>7, <1>8, <2>1 DEF RunFetched
  <2>2. CASE j # i
    <3>1. RunFetched(j)
      BY Zenon DEF FetchInv
    <3> QED BY Zenon, <1>9, <2>2, <3>1 DEF RunFetched
  <2> QED BY Zenon, <2>1, <2>2
<1> QED BY Zenon, <1>1, <1>3, <1>10, <1>11 DEF FetchInv

FetchSame ==
    UNCHANGED <<runs, loaded, ready, fetched>>

LEMMA FetchStep == FetchInv /\ [Next]_vars => FetchInv'
<1> SUFFICES ASSUME FetchInv, [Next]_vars PROVE FetchInv'
  BY Zenon
<1>1. CASE \E i \in Heads : ReadAheadGet(i)
  BY Zenon, <1>1, FetchGet
<1>2. CASE FetchSame
  <2>1. \A i \in 1 .. Len(runs) : RunFetched(i)' = RunFetched(i)
    BY Zenon, <1>2 DEF FetchSame, RunFetched, PagesOf
  <2> QED BY Zenon, <1>2, <2>1 DEF FetchInv, FetchSame
<1>3. CASE ProduceRecord \/ ProduceFails \/ ProduceEnds
  BY Zenon, <1>2, <1>3 DEF FetchSame, ProduceRecord, ProduceFails, ProduceEnds
<1>4. CASE \/ BuildRecord \/ BuildClose \/ BuildSend \/ BuildSendFails \/ BuildEnds
           \/ \E sent \in BOOLEAN : BuildFails(sent)
  BY Zenon, <1>2, <1>4 DEF FetchSame, BuildRecord, BuildClose, BuildSend, BuildSendFails, BuildFails,
     BuildEnds
<1>5. CASE \/ UploadStart \/ UploadEnds
           \/ \E o \in uploader.puts : UploadStored(o)
           \/ \E landed \in SUBSET uploader.puts : UploadFails(landed)
  BY Zenon, <1>2, <1>5 DEF FetchSame, UploadStart, UploadEnds, UploadStored, UploadFails
<1>6. CASE \E summary_stored \in BOOLEAN : Join(summary_stored)
  BY Zenon, <1>2, <1>6 DEF FetchSame, Join
<1>7. CASE UNCHANGED vars
  BY Zenon, <1>2, <1>7 DEF FetchSame, vars
<1> QED BY Zenon, <1>1, <1>3, <1>4, <1>5, <1>6, <1>7 DEF Next

\* However many runs are merged and however far a scanner reads ahead, no page
\* of a run is fetched twice and fewer than READ_AHEAD pages of it wait.
THEOREM EveryPageFetchedOnce == Spec => []PagesFetchedOnce
<1>1. FetchInv => PagesFetchedOnce
  <2> SUFFICES ASSUME FetchInv, NEW i \in 1 .. Len(runs)
               PROVE  /\ \A p \in 1 .. PagesOf(i) :
                           fetched[i][p] = IF p <= loaded[i] \/ p \in ready[i] THEN 1 ELSE 0
                      /\ Cardinality(ready[i]) < READ_AHEAD
    BY Zenon DEF PagesFetchedOnce
  <2>1. RunFetched(i) /\ loaded[i] \in Nat /\ READ_AHEAD \in Nat \ {0}
    <3>1. RunFetched(i) /\ loaded \in [1 .. Len(runs) -> Nat]
      BY Zenon DEF FetchInv
    <3> QED BY Zenon, <3>1, PipelineAssumption
  <2>2. PICK k \in 0 .. READ_AHEAD - 1 : ready[i] = (loaded[i] + 1) .. (loaded[i] + k)
    BY Zenon, <2>1 DEF RunFetched
  <2>3. Cardinality(ready[i]) = k
    <3> DEFINE a == loaded[i] + 1
               b == loaded[i] + k
    <3>1. k \in Nat /\ a \in Int /\ b \in Int
      BY <2>1
    <3>2. Cardinality(a .. b) = IF a > b THEN 0 ELSE b - a + 1
      <4> HIDE DEF a, b
      <4> QED BY Zenon, <3>1, FS_Interval
    <3> QED BY <2>1, <2>2, <3>1, <3>2
  <2> QED BY <2>1, <2>2, <2>3 DEF RunFetched
<1> QED BY <1>1, FetchInit, FetchStep, PTL DEF Spec

(***************************************************************************)
(* The least record                                                         *)
(***************************************************************************)

\* Every set of naturals that has a member has a least one.
LEMMA NatMin ==
    ASSUME NEW T \in SUBSET Nat, T # {}
    PROVE  \E x \in T : \A y \in T : x <= y
<1> DEFINE initials == {1 .. n : n \in T}
           R == StrictSubsetOrdering(Nat)
<1>1. initials \subseteq FiniteSubsetsOf(Nat) /\ initials # {}
  <2>1. \A n \in T : 1 .. n \in FiniteSubsetsOf(Nat)
    BY FS_Interval DEF FiniteSubsetsOf
  <2> QED BY Zenon, <2>1
<1>2. IsWellFoundedOn(R, FiniteSubsetsOf(Nat))
  BY Zenon, FS_StrictSubsetOrderingWellFounded
<1>3. \E i \in initials : \A j \in initials : ~(<<j, i>> \in R)
  <2> HIDE DEF initials, R
  <2> QED BY Zenon, <1>1, <1>2, WFMin
<1>4. PICK x \in T : \A y \in T : ~(<<1 .. y, 1 .. x>> \in R)
  BY Zenon, <1>3
<1>5. ASSUME NEW y \in T, y < x PROVE FALSE
  <2>1. 1 .. y \subseteq 1 .. x /\ x \in 1 .. x /\ x \notin 1 .. y
    BY <1>5
  <2>2. <<1 .. y, 1 .. x>> \in R
    BY <2>1 DEF StrictSubsetOrdering
  <2> QED BY Zenon, <1>4, <2>2
<1> QED BY <1>5

\* The record that is taken next is the least of the heads and, if no version is
\* there twice, below every other.
LEMMA ChosenIsLeast ==
    ASSUME TypeOK, Heads # {}, ~Duplicate
    PROVE  /\ chosen \in Heads
           /\ \A i \in Heads \ {chosen} : Peek(chosen) < Peek(i)
<1>1. \A i \in Heads : Peek(i) \in Nat
  BY Zenon, HeadTyped
<1>2. \E i \in Heads : \A k \in Heads : Peek(i) <= Peek(k)
  <2> DEFINE peeks == {Peek(i) : i \in Heads}
  <2>1. peeks \in SUBSET Nat /\ peeks # {}
    BY Zenon, <1>1
  <2>2. \E x \in peeks : \A y \in peeks : x <= y
    <3> HIDE DEF peeks
    <3> QED BY Zenon, <2>1, NatMin
  <2> QED BY Zenon, <2>2
<1>3. chosen \in Heads /\ \A k \in Heads : Peek(chosen) <= Peek(k)
  BY Zenon, <1>2 DEF chosen
<1>4. ASSUME NEW i \in Heads, i # chosen, Peek(i) = Peek(chosen) PROVE FALSE
  <2>1. i \in Nat /\ chosen \in Nat
    BY <1>3 DEF Heads
  <2> HIDE DEF chosen
  <2>2. CASE i < chosen
    BY Zenon, <1>1, <1>3, <1>4, <2>2 DEF Duplicate
  <2>3. CASE chosen < i
    BY Zenon, <1>1, <1>3, <1>4, <2>3 DEF Duplicate
  <2> QED BY <1>4, <2>1, <2>2, <2>3
<1> QED BY <1>1, <1>3, <1>4

(***************************************************************************)
(* Sequences                                                                *)
(***************************************************************************)

LEMMA AppendRange ==
    ASSUME NEW S, NEW s \in Seq(S), NEW e \in S
    PROVE  /\ Append(s, e) \in Seq(S) /\ Len(Append(s, e)) = Len(s) + 1
           /\ \A j \in 1 .. Len(s) : Append(s, e)[j] = s[j]
           /\ Append(s, e)[Len(s) + 1] = e
           /\ Range(Append(s, e)) = Range(s) \cup {e}
BY DEF Range

LEMMA TailRange ==
    ASSUME NEW S, NEW s \in Seq(S), s # << >>
    PROVE  /\ Tail(s) \in Seq(S) /\ Len(Tail(s)) = Len(s) - 1
           /\ s[1] \in S /\ Len(s) \in Nat \ {0}
           /\ \A j \in 1 .. Len(s) - 1 : Tail(s)[j] = s[j + 1]
           /\ Range(s) = {s[1]} \cup Range(Tail(s))
<1>1. /\ Tail(s) \in Seq(S) /\ Len(Tail(s)) = Len(s) - 1
      /\ s[1] \in S /\ Len(s) \in Nat \ {0}
      /\ \A j \in 1 .. Len(s) - 1 : Tail(s)[j] = s[j + 1]
  OBVIOUS
<1>2. Range(s) \subseteq {s[1]} \cup Range(Tail(s))
  <2> SUFFICES ASSUME NEW j \in 1 .. Len(s), j # 1
               PROVE  s[j] \in Range(Tail(s))
    BY <1>1 DEF Range
  <2>1. j - 1 \in 1 .. Len(s) - 1 /\ Tail(s)[j - 1] = s[j]
    BY <1>1
  <2>2. j - 1 \in DOMAIN Tail(s)
    BY <1>1, <2>1
  <2> QED BY Zenon, <2>1, <2>2 DEF Range
<1>3. {s[1]} \cup Range(Tail(s)) \subseteq Range(s)
  BY <1>1 DEF Range
<1> QED BY Zenon, <1>1, <1>2, <1>3

LEMMA AppendRising ==
    ASSUME NEW s \in Seq(Nat), Rising(s), NEW e \in Nat, \A j \in 1 .. Len(s) : s[j] < e
    PROVE  Rising(Append(s, e))
<1>1. /\ Len(Append(s, e)) = Len(s) + 1 /\ Append(s, e)[Len(s) + 1] = e
      /\ \A j \in 1 .. Len(s) : Append(s, e)[j] = s[j] /\ s[j] \in Nat
  BY AppendRange
<1> SUFFICES ASSUME NEW j \in 1 .. Len(s) + 1, NEW k \in 1 .. Len(s) + 1, j < k
             PROVE  Append(s, e)[j] < Append(s, e)[k]
  BY Zenon, <1>1 DEF Rising
<1>2. Len(s) \in Nat /\ j \in 1 .. Len(s)
  OBVIOUS
<1>3. CASE k \in 1 .. Len(s)
  BY Zenon, <1>1, <1>2, <1>3 DEF Rising
<1>4. CASE k = Len(s) + 1
  BY Zenon, <1>1, <1>2, <1>4
<1> QED BY <1>2, <1>3, <1>4

LEMMA TailRising ==
    ASSUME NEW s \in Seq(Nat), s # << >>, Rising(s)
    PROVE  /\ Rising(Tail(s))
           /\ \A j \in 1 .. Len(Tail(s)) : s[1] < Tail(s)[j]
<1>1. /\ Len(Tail(s)) = Len(s) - 1 /\ Len(s) \in Nat \ {0}
      /\ \A j \in 1 .. Len(s) - 1 : Tail(s)[j] = s[j + 1]
  BY Zenon, TailRange
<1> QED BY <1>1 DEF Rising

LEMMA PairConcat ==
    ASSUME NEW S, NEW x \in S, NEW y \in S
    PROVE  <<x>> \o <<y>> = <<x, y>>
<1> DEFINE p == <<x>> \o <<y>>
           q == <<x, y>>
<1>1. <<x>> \in Seq(S) /\ <<y>> \in Seq(S) /\ Len(<<x>>) = 1 /\ Len(<<y>>) = 1
  OBVIOUS
<1>2. p \in Seq(S) /\ Len(p) = 2 /\ p[1] = x /\ p[2] = y
  BY <1>1
<1>3. q \in Seq(S) /\ Len(q) = 2 /\ q[1] = x /\ q[2] = y
  OBVIOUS
<1> HIDE DEF p, q
<1>4. \A i \in 1 .. Len(p) : p[i] = q[i]
  BY <1>2, <1>3
<1>5. p = q
  BY <1>2, <1>3, <1>4
<1> QED BY Zenon, <1>5 DEF p, q

LEMMA PagedUnion ==
    ASSUME NEW A, NEW B
    PROVE  PagedIn(A \cup B) = PagedIn(A) \cup PagedIn(B)
BY Zenon DEF PagedIn

LEMMA PagedOne ==
    ASSUME NEW s
    PROVE  PagedIn({Page(s)}) = Range(s) /\ PagedIn({Root(s)}) = {}
<1>1. Page(s).kind = "page" /\ Page(s).content = s /\ Root(s).kind = "root"
  BY Zenon DEF Page, Root
<1>2. {x \in {Page(s)} : x.kind = "page"} = {Page(s)} /\ {x \in {Root(s)} : x.kind = "page"} = {}
  BY Zenon, <1>1
<1> QED BY Zenon, <1>1, <1>2 DEF PagedIn

(***************************************************************************)
(* The steps                                                                *)
(***************************************************************************)

LEMMA PipelineInit == Init => PipelineInv
<1> SUFFICES ASSUME Init PROVE PipelineInv
  OBVIOUS
<1>1. runs \in InputSets /\ Len(runs) \in Nat
  BY Zenon, RunsTyped DEF Init
<1>2. TypeOK
  <2>1. \A i \in 1 .. Len(runs) : Len(runs[i]) \in Nat /\ taken[i] = 0
    BY Zenon, <1>1, RunsTyped DEF Init
  <2> QED BY <1>1, <2>1 DEF Init, TypeOK
<1>3. Len(builder.got) = 0 /\ Len(records) = 0 /\ Range(builder.got) = {} /\ Range(records) = {}
  BY DEF Init, Range
<1>4. StreamRises
  BY <1>3 DEF StreamRises, Rising
<1>5. TakenRecords = {}
  BY DEF Init, TakenRecords
<1>6. PagedIn(Made) = {}
  BY DEF Init, Made, PagedIn, Range
<1>7. Range(builder.page) = {}
  BY DEF Init, Range
<1>8. NothingDropped /\ GotIsPaged
  BY Zenon, <1>3, <1>5, <1>6, <1>7 DEF NothingDropped, GotIsPaged
<1>9. RootIsMade /\ EndsInOrder
  BY Zenon DEF Init, RootIsMade, EndsInOrder
<1> QED BY Zenon, <1>2, <1>4, <1>8, <1>9 DEF PipelineInv

Data == <<runs, taken, records, builder, objects, uploader, stored>>

\* A step that moves no record and no object.
LEMMA DataSame ==
    ASSUME PipelineInv, UNCHANGED Data, EndsInOrder',
           producer' \in {"running", "ok", "err"}, result' \in {"none", "ok", "err"}
    PROVE  PipelineInv'
<1>1. TypeOK'
  BY Zenon DEF PipelineInv, TypeOK, Data
<1>2. StreamRises'
  BY Zenon DEF PipelineInv, StreamRises, Heads, Peek, Data
<1>3. NothingDropped'
  BY DEF PipelineInv, NothingDropped, TakenRecords, Data
<1>4. Made' = Made
  BY Zenon DEF Made, Data
<1>5. GotIsPaged' /\ RootIsMade'
  BY Zenon, <1>4 DEF PipelineInv, GotIsPaged, RootIsMade, Data
<1> QED BY Zenon, <1>1, <1>2, <1>3, <1>5 DEF PipelineInv

LEMMA ProduceRecordStep ==
    ASSUME PipelineInv, ProduceRecord
    PROVE  PipelineInv'
<1> DEFINE c == chosen
           e == Peek(c)
<1>1. TypeOK /\ StreamRises /\ NothingDropped /\ EndsInOrder
  BY Zenon DEF PipelineInv
<1>2. c \in Heads /\ \A i \in Heads \ {c} : e < Peek(i)
  BY Zenon, <1>1, ChosenIsLeast DEF ProduceRecord
<1>3. /\ records' = Append(records, e) /\ taken' = [taken EXCEPT ![c] = taken[c] + 1]
      /\ builder.state # "err" /\ producer = "running"
      /\ UNCHANGED <<runs, producer, builder, objects, uploader, stored, result>>
  BY Zenon DEF ProduceRecord
<1> HIDE DEF c
<1>4. /\ c \in 1 .. Len(runs) /\ taken[c] \in Nat /\ taken[c] + 1 \in 1 .. Len(runs[c])
      /\ e \in Nat /\ Len(runs[c]) \in Nat
      /\ runs \in InputSets /\ taken \in [1 .. Len(runs) -> Nat] /\ records \in Seq(Nat)
      /\ \A i \in 1 .. Len(runs) : taken[i] <= Len(runs[i])
      /\ builder.got \in Seq(Nat)
  BY <1>1, <1>2, HeadTyped DEF TypeOK
<1>5. /\ taken'[c] = taken[c] + 1
      /\ \A i \in 1 .. Len(runs) : i # c => taken'[i] = taken[i]
      /\ taken' \in [1 .. Len(runs) -> Nat]
  BY <1>3, <1>4
<1> HIDE DEF e
<1>6. /\ Len(records) \in Nat /\ records' \in Seq(Nat) /\ Len(records') = Len(records) + 1
      /\ \A j \in 1 .. Len(records) : records'[j] = records[j]
      /\ records'[Len(records) + 1] = e
      /\ Range(records') = Range(records) \cup {e}
  <2>1. records \in Seq(Nat) /\ e \in Nat
    BY Zenon, <1>4
  <2> QED BY <1>3, <2>1, AppendRange
<1>7. TypeOK'
  <2>1. \A i \in 1 .. Len(runs) : taken'[i] <= Len(runs[i])
    BY <1>4, <1>5
  <2> QED BY Zenon, <1>1, <1>3, <1>5, <1>6, <2>1 DEF TypeOK
<1>8. StreamRises'
  <2>1. /\ \A j \in 1 .. Len(builder.got) : builder.got[j] < e
        /\ \A j \in 1 .. Len(records) : records[j] < e
    BY Zenon, <1>1, <1>2 DEF StreamRises, e
  <2>2. Rising(records')
    BY Zenon, <1>1, <1>3, <1>4, <2>1, AppendRising DEF StreamRises
  <2>3. ASSUME NEW j \in 1 .. Len(builder.got), NEW k \in 1 .. Len(records')
        PROVE  builder.got[j] < records'[k]
    <3>1. k \in 1 .. Len(records) \/ k = Len(records) + 1
      BY <1>6
    <3> QED BY Zenon, <1>1, <1>6, <2>1, <3>1 DEF StreamRises
  <2>4. ASSUME NEW i \in Heads'
        PROVE  i \in Heads /\ e < Peek(i)' /\ Peek(i)' \in Nat /\ Peek(i) <= Peek(i)' /\ Peek(i) \in Nat
    <3>1. i \in 1 .. Len(runs) /\ taken'[i] < Len(runs[i])
      BY Zenon, <1>3 DEF Heads
    <3>2. Len(runs[i]) \in Nat
      BY Zenon, <1>4, <3>1, RunsTyped
    <3>3. i \in Heads
      <4>1. taken[i] \in Nat /\ (taken'[i] = taken[i] \/ taken'[i] = taken[i] + 1)
        BY Zenon, <1>4, <1>5, <3>1
      <4> QED BY <3>1, <3>2, <4>1 DEF Heads
    <3>4. Peek(i) \in Nat
      BY Zenon, <1>1, <3>3, HeadTyped
    <3>5. CASE i # c
      BY <1>2, <1>3, <1>5, <3>1, <3>3, <3>4, <3>5 DEF Peek
    <3>6. CASE i = c
      <4>1. Peek(i)' = runs[c][taken[c] + 2] /\ Peek(i) = runs[c][taken[c] + 1]
        BY <1>3, <1>4, <1>5, <3>6 DEF Peek
      <4>2. taken[c] + 2 \in 1 .. Len(runs[c])
        BY <1>4, <1>5, <3>1, <3>2, <3>6
      <4>3. runs[c][taken[c] + 1] < runs[c][taken[c] + 2] /\ runs[c][taken[c] + 2] \in Nat
        <5>1. /\ \A j \in 1 .. Len(runs[c]) : runs[c][j] \in Nat
              /\ \A j, k \in 1 .. Len(runs[c]) : j < k => runs[c][j] < runs[c][k]
          BY Zenon, <1>4, RunsTyped
        <5>2. taken[c] \in Nat /\ taken[c] + 1 \in 1 .. Len(runs[c])
          BY Zenon, <1>4
        <5> QED BY <4>2, <5>1, <5>2
      <4> QED BY <1>4, <3>3, <3>4, <3>6, <4>1, <4>3 DEF e
    <3> QED BY Zenon, <3>5, <3>6
  <2>5. ASSUME NEW i \in Heads'
        PROVE  /\ \A j \in 1 .. Len(builder.got) : builder.got[j] < Peek(i)'
               /\ \A j \in 1 .. Len(records') : records'[j] < Peek(i)'
    <3>1. /\ \A j \in 1 .. Len(builder.got) : builder.got[j] < Peek(i) /\ builder.got[j] \in Nat
          /\ \A j \in 1 .. Len(records) : records[j] < Peek(i) /\ records[j] \in Nat
      <4>1. i \in Heads /\ builder.got \in Seq(Nat) /\ records \in Seq(Nat)
        BY Zenon, <1>4, <2>4
      <4> QED BY <1>1, <4>1 DEF StreamRises
    <3>2. Peek(i) \in Nat /\ Peek(i)' \in Nat /\ e < Peek(i)' /\ Peek(i) <= Peek(i)'
      BY Zenon, <2>4
    <3>3. \A j \in 1 .. Len(builder.got) : builder.got[j] < Peek(i)'
      BY <3>1, <3>2
    <3>4. ASSUME NEW j \in 1 .. Len(records') PROVE records'[j] < Peek(i)'
      <4>1. j \in 1 .. Len(records) \/ j = Len(records) + 1
        BY <1>6
      <4> QED BY <1>6, <3>1, <3>2, <4>1
    <3> QED BY Zenon, <3>3, <3>4
  <2> QED BY Zenon, <1>1, <1>3, <2>2, <2>3, <2>5 DEF StreamRises
<1>9. NothingDropped'
  <2>1. TakenRecords' = TakenRecords \cup {e}
    <3>1. \A i \in 1 .. Len(runs) : i # c =>
              {runs[i][j] : j \in 1 .. taken'[i]} = {runs[i][j] : j \in 1 .. taken[i]}
      BY Zenon, <1>5
    <3>2. {runs[c][j] : j \in 1 .. taken'[c]} = {runs[c][j] : j \in 1 .. taken[c]} \cup {e}
      <4>1. 1 .. taken'[c] = (1 .. taken[c]) \cup {taken[c] + 1}
        BY <1>4, <1>5
      <4> QED BY Zenon, <4>1 DEF e, Peek
    <3>3. c \in 1 .. Len(runs) /\ runs' = runs
      BY Zenon, <1>3, <1>4
    <3>4. TakenRecords' = UNION {{runs[i][j] : j \in 1 .. taken'[i]} : i \in 1 .. Len(runs)}
      BY <3>3 DEF TakenRecords
    <3> DEFINE had(i) == {runs[i][j] : j \in 1 .. taken[i]}
               has(i) == {runs[i][j] : j \in 1 .. taken'[i]}
    <3>5. /\ TakenRecords = UNION {had(i) : i \in 1 .. Len(runs)}
          /\ TakenRecords' = UNION {has(i) : i \in 1 .. Len(runs)}
          /\ has(c) = had(c) \cup {e}
          /\ \A i \in 1 .. Len(runs) : i # c => has(i) = had(i)
      BY Zenon, <3>1, <3>2, <3>4 DEF TakenRecords
    <3> HIDE DEF had, has
    <3> QED BY Zenon, <3>3, <3>5
  <2> QED BY Zenon, <1>1, <1>3, <1>6, <2>1 DEF NothingDropped
<1>10. GotIsPaged' /\ RootIsMade'
  <2>1. Made' = Made
    BY Zenon, <1>3 DEF Made
  <2> QED BY Zenon, <1>3, <2>1 DEF PipelineInv, GotIsPaged, RootIsMade
<1>11. EndsInOrder'
  BY Zenon, <1>1, <1>3 DEF EndsInOrder, Succeeds
<1> QED BY Zenon, <1>7, <1>8, <1>9, <1>10, <1>11 DEF PipelineInv

\* The fields that a builder step reads, typed.
LEMMA BuilderTyped ==
    ASSUME TypeOK
    PROVE  /\ builder.got \in Seq(Nat) /\ builder.page \in Seq(Nat) /\ builder.out \in Seq(Objects)
           /\ builder.state \in {"running", "closing", "ok", "err"}
           /\ builder = [state |-> builder.state, got |-> builder.got, page |-> builder.page,
                         out |-> builder.out]
           /\ uploader.puts \in SUBSET Objects /\ uploader.state \in {"running", "ok", "err"}
           /\ uploader = [state |-> uploader.state, puts |-> uploader.puts]
BY Zenon DEF TypeOK

LEMMA ObjectTyped ==
    ASSUME NEW s \in Seq(Nat)
    PROVE  Page(s) \in Objects /\ Root(s) \in Objects
BY Zenon DEF Page, Root, Objects

LEMMA BuildRecordStep ==
    ASSUME PipelineInv, BuildRecord
    PROVE  PipelineInv'
<1> DEFINE r == records[1]
           full == Len(builder.page) = PAGE
<1>1. TypeOK /\ StreamRises /\ NothingDropped /\ GotIsPaged /\ EndsInOrder
  BY Zenon DEF PipelineInv
<1>2. /\ builder.state = "running" /\ builder.out = << >> /\ records # << >>
      /\ records' = Tail(records)
      /\ UNCHANGED <<runs, taken, producer, objects, uploader, stored, result>>
  BY Zenon DEF BuildRecord
<1>3. /\ builder.got \in Seq(Nat) /\ builder.page \in Seq(Nat)
      /\ uploader.state \in {"running", "ok", "err"}
  BY Zenon, <1>1, BuilderTyped
<1>4. /\ builder'.state = "running"
      /\ builder'.got = Append(builder.got, r)
      /\ builder'.page = IF full THEN <<r>> ELSE Append(builder.page, r)
      /\ builder'.out = IF full THEN <<Page(builder.page)>> ELSE << >>
      /\ builder' = [state |-> builder'.state, got |-> builder'.got, page |-> builder'.page,
                     out |-> builder'.out]
  BY Zenon, <1>1, <1>2, BuilderTyped DEF BuildRecord
<1>5. /\ records \in Seq(Nat) /\ r \in Nat /\ Tail(records) \in Seq(Nat)
      /\ Len(Tail(records)) = Len(records) - 1 /\ Len(records) \in Nat \ {0}
      /\ \A j \in 1 .. Len(records) - 1 : Tail(records)[j] = records[j + 1]
      /\ Range(records) = {r} \cup Range(Tail(records))
  <2>1. records \in Seq(Nat)
    BY Zenon, <1>1 DEF TypeOK
  <2> QED BY Zenon, <1>2, <2>1, TailRange
<1> HIDE DEF r, full
<1>6. /\ Len(builder.got) \in Nat
      /\ builder'.got \in Seq(Nat) /\ Len(builder'.got) = Len(builder.got) + 1
      /\ \A j \in 1 .. Len(builder.got) : builder'.got[j] = builder.got[j]
      /\ builder'.got[Len(builder.got) + 1] = r
      /\ Range(builder'.got) = Range(builder.got) \cup {r}
  <2>1. r \in Nat /\ builder.got \in Seq(Nat) /\ builder'.got = Append(builder.got, r)
    BY Zenon, <1>3, <1>4, <1>5
  <2> QED BY <2>1, AppendRange
<1>7. /\ builder'.page \in Seq(Nat)
      /\ Range(builder'.page) = IF full THEN {r} ELSE Range(builder.page) \cup {r}
  <2>1. CASE full
    BY <1>4, <1>5, <2>1 DEF Range
  <2>2. CASE ~full
    <3>1. r \in Nat /\ builder.page \in Seq(Nat) /\ builder'.page = Append(builder.page, r)
      BY Zenon, <1>3, <1>4, <1>5, <2>2
    <3> QED BY <2>2, <3>1, AppendRange
  <2> QED BY Zenon, <2>1, <2>2
<1>8. builder'.out \in Seq(Objects)
  BY <1>3, <1>4, ObjectTyped
<1>9. TypeOK'
  <2>1. builder' \in [state : {"running", "closing", "ok", "err"},
                      got : Seq(Nat), page : Seq(Nat), out : Seq(Objects)]
    BY Zenon, <1>4, <1>6, <1>7, <1>8
  <2> QED BY Zenon, <1>1, <1>2, <1>5, <2>1 DEF TypeOK
<1>10. StreamRises'
  <2>1. /\ \A j \in 1 .. Len(builder.got) : builder.got[j] < r
        /\ \A i \in Heads : r < Peek(i)
    BY <1>1, <1>5 DEF StreamRises, r
  <2>2. Rising(builder'.got)
    BY Zenon, <1>1, <1>3, <1>4, <1>5, <2>1, AppendRising DEF StreamRises
  <2>3. Rising(records') /\ \A j \in 1 .. Len(records') : r < records'[j]
    BY Zenon, <1>1, <1>2, <1>5, TailRising DEF StreamRises, r
  <2>4. ASSUME NEW j \in 1 .. Len(builder'.got), NEW k \in 1 .. Len(records')
        PROVE  builder'.got[j] < records'[k]
    <3>1. j \in 1 .. Len(builder.got) \/ j = Len(builder.got) + 1
      BY <1>6
    <3>2. k + 1 \in 1 .. Len(records) /\ records'[k] = records[k + 1]
      BY <1>2, <1>5
    <3> QED BY Zenon, <1>1, <1>6, <2>3, <3>1, <3>2 DEF StreamRises
  <2>5. Heads' = Heads /\ \A i \in Heads : Peek(i)' = Peek(i)
    BY Zenon, <1>2 DEF Heads, Peek
  <2>6. ASSUME NEW i \in Heads
        PROVE  /\ \A j \in 1 .. Len(builder'.got) : builder'.got[j] < Peek(i)
               /\ \A j \in 1 .. Len(records') : records'[j] < Peek(i)
    <3>1. ASSUME NEW j \in 1 .. Len(builder'.got) PROVE builder'.got[j] < Peek(i)
      <4>1. j \in 1 .. Len(builder.got) \/ j = Len(builder.got) + 1
        BY <1>6
      <4> QED BY Zenon, <1>1, <1>6, <2>1, <4>1 DEF StreamRises
    <3>2. ASSUME NEW j \in 1 .. Len(records') PROVE records'[j] < Peek(i)
      <4>1. j + 1 \in 1 .. Len(records) /\ records'[j] = records[j + 1]
        BY <1>2, <1>5
      <4> QED BY Zenon, <1>1, <4>1 DEF StreamRises
    <3> QED BY Zenon, <3>1, <3>2
  <2> QED BY Zenon, <2>2, <2>3, <2>4, <2>5, <2>6 DEF StreamRises
<1>11. NothingDropped'
  <2>1. TakenRecords' = TakenRecords
    BY <1>2 DEF TakenRecords
  <2> QED BY Zenon, <1>1, <1>2, <1>4, <1>5, <1>6, <2>1 DEF NothingDropped
<1>12. GotIsPaged'
  <2>1. PagedIn(Made') = PagedIn(Made) \cup (IF full THEN Range(builder.page) ELSE {})
    <3>1. CASE full
      <4>1. Range(builder.out) = {} /\ Range(builder'.out) = {Page(builder.page)}
        BY <1>2, <1>4, <3>1 DEF Range
      <4>2. Made' = Made \cup {Page(builder.page)}
        BY Zenon, <1>2, <4>1 DEF Made
      <4>3. PagedIn(Made') = PagedIn(Made) \cup PagedIn({Page(builder.page)})
        BY Zenon, <4>2, PagedUnion
      <4> QED BY Zenon, <3>1, <4>3, PagedOne
    <3>2. CASE ~full
      <4>1. Made' = Made
        BY Zenon, <1>2, <1>4, <3>2 DEF Made
      <4> QED BY Zenon, <3>2, <4>1
    <3> QED BY Zenon, <3>1, <3>2
  <2> QED BY Zenon, <1>1, <1>2, <1>4, <1>6, <1>7, <2>1 DEF GotIsPaged
<1>13. RootIsMade' /\ EndsInOrder'
  <2>1. Heads' = Heads
    BY Zenon, <1>2 DEF Heads
  <2> QED BY Zenon, <1>1, <1>2, <1>4, <2>1 DEF RootIsMade, EndsInOrder, Succeeds
<1> QED BY Zenon, <1>9, <1>10, <1>11, <1>12, <1>13 DEF PipelineInv

\* A step that leaves the records where they are.
LEMMA StreamSame ==
    ASSUME PipelineInv, UNCHANGED <<runs, taken, records>>,
           builder'.got = builder.got, builder'.state = "err" \/ builder.state # "err"
    PROVE  StreamRises' /\ NothingDropped' /\ Heads' = Heads
<1>1. Heads' = Heads /\ \A i \in Heads : Peek(i)' = Peek(i)
  BY Zenon DEF Heads, Peek
<1>2. TakenRecords' = TakenRecords
  BY DEF TakenRecords
<1> QED BY Zenon, <1>1, <1>2 DEF PipelineInv, StreamRises, NothingDropped

LEMMA BuildCloseStep ==
    ASSUME PipelineInv, BuildClose
    PROVE  PipelineInv'
<1> DEFINE last == IF builder.page = << >> THEN << >> ELSE <<Page(builder.page)>>
<1>1. TypeOK /\ GotIsPaged /\ EndsInOrder
  BY Zenon DEF PipelineInv
<1>2. /\ builder.state = "running" /\ builder.out = << >> /\ records = << >> /\ producer # "running"
      /\ UNCHANGED <<runs, taken, producer, records, objects, uploader, stored, result>>
  BY Zenon DEF BuildClose
<1>3. /\ builder.got \in Seq(Nat) /\ builder.page \in Seq(Nat)
      /\ uploader.state \in {"running", "ok", "err"}
  BY Zenon, <1>1, BuilderTyped
<1>4. /\ builder'.state = "closing" /\ builder'.got = builder.got /\ builder'.page = builder.page
      /\ builder'.out = last \o <<Root(builder.got)>>
      /\ builder' = [state |-> builder'.state, got |-> builder'.got, page |-> builder'.page,
                     out |-> builder'.out]
  BY Zenon, <1>1, <1>2, BuilderTyped DEF BuildClose
<1>5. /\ builder'.out \in Seq(Objects)
      /\ Range(builder'.out) =
           (IF builder.page = << >> THEN {} ELSE {Page(builder.page)}) \cup {Root(builder.got)}
  <2>1. Page(builder.page) \in Objects /\ Root(builder.got) \in Objects
    BY Zenon, <1>3, ObjectTyped
  <2>2. CASE builder.page = << >>
    <3>1. builder'.out = <<Root(builder.got)>>
      BY <1>4, <2>1, <2>2
    <3> QED BY <2>1, <2>2, <3>1 DEF Range
  <2>3. CASE builder.page # << >>
    <3>1. builder'.out = <<Page(builder.page), Root(builder.got)>>
      <4>1. <<Page(builder.page)>> \o <<Root(builder.got)>> = <<Page(builder.page), Root(builder.got)>>
        BY Zenon, <2>1, PairConcat
      <4> QED BY Zenon, <1>4, <2>3, <4>1
    <3>2. \A x, y : Range(<<x, y>>) = {x, y}
      <4> TAKE x, y
      <4>1. DOMAIN <<x, y>> = {1, 2} /\ <<x, y>>[1] = x /\ <<x, y>>[2] = y
        OBVIOUS
      <4> QED BY Zenon, <4>1 DEF Range
    <3> QED BY <2>1, <2>3, <3>1, <3>2
  <2> QED BY Zenon, <2>2, <2>3
<1>6. TypeOK'
  <2>1. builder' \in [state : {"running", "closing", "ok", "err"},
                      got : Seq(Nat), page : Seq(Nat), out : Seq(Objects)]
    BY Zenon, <1>3, <1>4, <1>5
  <2> QED BY Zenon, <1>1, <1>2, <2>1 DEF TypeOK
<1>7. StreamRises' /\ NothingDropped' /\ Heads' = Heads
  BY Zenon, <1>2, <1>4, StreamSame
<1>8. Made' = Made \cup ((IF builder.page = << >> THEN {} ELSE {Page(builder.page)})
                         \cup {Root(builder.got)})
  <2>1. Range(builder.out) = {}
    BY <1>2 DEF Range
  <2> QED BY Zenon, <1>2, <1>5, <2>1 DEF Made
<1>9. GotIsPaged'
  <2>1. PagedIn(Made') = PagedIn(Made) \cup Range(builder.page)
    <3>1. CASE builder.page = << >>
      <4>1. Made' = Made \cup {Root(builder.got)} /\ Range(builder.page) = {}
        BY <1>8, <3>1 DEF Range
      <4>2. PagedIn(Made') = PagedIn(Made) \cup PagedIn({Root(builder.got)})
        BY Zenon, <4>1, PagedUnion
      <4> QED BY Zenon, <4>1, <4>2, PagedOne
    <3>2. CASE builder.page # << >>
      <4>1. Made' = Made \cup ({Page(builder.page)} \cup {Root(builder.got)})
        BY Zenon, <1>8, <3>2
      <4>2. PagedIn({Page(builder.page)} \cup {Root(builder.got)}) =
                PagedIn({Page(builder.page)}) \cup PagedIn({Root(builder.got)})
        BY Zenon, PagedUnion
      <4>3. PagedIn(Made') =
                PagedIn(Made) \cup PagedIn({Page(builder.page)} \cup {Root(builder.got)})
        BY Zenon, <4>1, PagedUnion
      <4> QED BY Zenon, <4>2, <4>3, PagedOne
    <3> QED BY Zenon, <3>1, <3>2
  <2> QED BY Zenon, <1>1, <1>2, <1>4, <2>1 DEF GotIsPaged
<1>10. RootIsMade'
  BY Zenon, <1>4, <1>8 DEF RootIsMade
<1>11. EndsInOrder'
  BY Zenon, <1>1, <1>2, <1>4, <1>7 DEF EndsInOrder, Succeeds
<1> QED BY Zenon, <1>6, <1>7, <1>9, <1>10, <1>11 DEF PipelineInv

LEMMA BuildSendStep ==
    ASSUME PipelineInv, BuildSend
    PROVE  PipelineInv'
<1>1. TypeOK /\ GotIsPaged /\ RootIsMade /\ EndsInOrder
  BY Zenon DEF PipelineInv
<1>2. /\ builder.state \in {"running", "closing"} /\ builder.out # << >>
      /\ objects' = Append(objects, builder.out[1])
      /\ UNCHANGED <<runs, taken, producer, records, uploader, stored, result>>
  BY Zenon DEF BuildSend
<1>3. /\ builder'.state = builder.state /\ builder'.got = builder.got /\ builder'.page = builder.page
      /\ builder'.out = Tail(builder.out)
      /\ builder' = [state |-> builder'.state, got |-> builder'.got, page |-> builder'.page,
                     out |-> builder'.out]
  BY Zenon, <1>1, BuilderTyped DEF BuildSend
<1>4. /\ Tail(builder.out) \in Seq(Objects) /\ builder.out[1] \in Objects
      /\ Range(builder.out) = {builder.out[1]} \cup Range(Tail(builder.out))
  <2>1. builder.out \in Seq(Objects)
    BY Zenon, <1>1, BuilderTyped
  <2> QED BY Zenon, <1>2, <2>1, TailRange
<1>5. objects' \in Seq(Objects) /\ Range(objects') = Range(objects) \cup {builder.out[1]}
  <2>1. objects \in Seq(Objects)
    BY Zenon, <1>1 DEF TypeOK
  <2> QED BY <1>2, <1>4, <2>1, AppendRange
<1>6. TypeOK'
  <2>1. builder' \in [state : {"running", "closing", "ok", "err"},
                      got : Seq(Nat), page : Seq(Nat), out : Seq(Objects)]
    BY Zenon, <1>1, <1>3, <1>4, BuilderTyped
  <2> QED BY Zenon, <1>1, <1>2, <1>5, <2>1 DEF TypeOK
<1>7. StreamRises' /\ NothingDropped' /\ Heads' = Heads
  BY Zenon, <1>2, <1>3, StreamSame
<1>8. Made' = Made
  BY Zenon, <1>2, <1>3, <1>4, <1>5 DEF Made
<1>9. GotIsPaged' /\ RootIsMade'
  BY Zenon, <1>1, <1>2, <1>3, <1>8 DEF GotIsPaged, RootIsMade
<1>10. EndsInOrder'
  BY Zenon, <1>1, <1>2, <1>3, <1>7 DEF EndsInOrder, Succeeds
<1> QED BY Zenon, <1>6, <1>7, <1>9, <1>10 DEF PipelineInv

\* A builder that stops may have sent its next page.  From here on it makes
\* nothing, and nothing more is claimed of it.
LEMMA BuilderStops ==
    ASSUME PipelineInv, builder.state \in {"running", "closing"},
           builder' = [builder EXCEPT !.state = "err", !.out = << >>], records' = << >>,
           objects' \in Seq(Objects), Range(objects') \subseteq Range(objects) \cup Range(builder.out),
           UNCHANGED <<runs, taken, producer, uploader, stored, result>>
    PROVE  PipelineInv'
<1>1. TypeOK /\ StreamRises /\ NothingDropped /\ GotIsPaged /\ EndsInOrder
  BY DEF PipelineInv
<1>2. UNCHANGED <<runs, taken, producer, uploader, stored, result>>
  BY Zenon
<1>3. /\ builder'.state = "err" /\ builder'.got = builder.got /\ builder'.page = builder.page
      /\ builder'.out = << >>
      /\ builder' = [state |-> builder'.state, got |-> builder'.got, page |-> builder'.page,
                     out |-> builder'.out]
  BY Zenon, <1>1, BuilderTyped
<1>4. TypeOK'
  <2>1. builder' \in [state : {"running", "closing", "ok", "err"},
                      got : Seq(Nat), page : Seq(Nat), out : Seq(Objects)]
    <3>1. builder'.got \in Seq(Nat) /\ builder'.page \in Seq(Nat) /\ builder'.out \in Seq(Objects)
      BY <1>1, <1>3, BuilderTyped
    <3> QED BY Zenon, <1>3, <3>1
  <2> QED BY <1>1, <1>2, <2>1 DEF TypeOK
<1>5. Heads' = Heads /\ \A i \in Heads : Peek(i)' = Peek(i)
  BY Zenon, <1>2 DEF Heads, Peek
<1>6. Len(records') = 0 /\ Range(records') = {} /\ Range(builder'.out) = {}
  BY <1>2, <1>3 DEF Range
<1>7. StreamRises'
  BY <1>1, <1>3, <1>5, <1>6 DEF StreamRises, Rising
<1>8. NothingDropped'
  <2>1. TakenRecords' = TakenRecords
    BY <1>2 DEF TakenRecords
  <2> QED BY Zenon, <1>1, <1>3, <1>6, <2>1 DEF NothingDropped
<1>9. GotIsPaged' /\ RootIsMade'
  <2>1. Made' \subseteq Made
    BY Zenon, <1>2, <1>6 DEF Made
  <2>2. PagedIn(Made') \subseteq PagedIn(Made)
    BY Zenon, <2>1 DEF PagedIn
  <2> QED BY Zenon, <1>1, <1>3, <2>2 DEF GotIsPaged, RootIsMade
<1>10. EndsInOrder'
  BY Zenon, <1>1, <1>2, <1>3, <1>5 DEF EndsInOrder, Succeeds
<1> QED BY <1>4, <1>7, <1>8, <1>9, <1>10 DEF PipelineInv

\* Its send fails, or it bails on its own.
LEMMA BuildFailsStep ==
    ASSUME PipelineInv, BuildSendFails \/ \E sent \in BOOLEAN : BuildFails(sent)
    PROVE  PipelineInv'
<1>1. objects \in Seq(Objects) /\ builder.out \in Seq(Objects)
  <2>1. TypeOK
    BY Zenon DEF PipelineInv
  <2> QED BY Zenon, <2>1, BuilderTyped DEF TypeOK
<1>2. CASE BuildSendFails
  <2>1. objects' = objects
    BY Zenon, <1>2 DEF BuildSendFails
  <2> QED BY Zenon, <1>1, <1>2, <2>1, BuilderStops DEF BuildSendFails
<1>3. CASE \E sent \in BOOLEAN : BuildFails(sent)
  <2>1. PICK sent \in BOOLEAN : BuildFails(sent)
    BY Zenon, <1>3
  <2>2. objects' \in Seq(Objects) /\ Range(objects') \subseteq Range(objects) \cup Range(builder.out)
    <3>1. CASE ~sent
      <4>1. objects' = objects
        BY Zenon, <2>1, <3>1 DEF BuildFails
      <4> QED BY Zenon, <1>1, <4>1
    <3>2. CASE sent
      <4>1. objects' = Append(objects, builder.out[1]) /\ builder.out # << >>
        BY Zenon, <2>1, <3>2 DEF BuildFails
      <4>2. builder.out[1] \in Objects /\ builder.out[1] \in Range(builder.out)
        BY Zenon, <1>1, <4>1, TailRange
      <4>3. /\ Append(objects, builder.out[1]) \in Seq(Objects)
            /\ Range(Append(objects, builder.out[1])) = Range(objects) \cup {builder.out[1]}
        BY <1>1, <4>2, AppendRange
      <4> QED BY Zenon, <4>1, <4>2, <4>3
    <3> QED BY Zenon, <3>1, <3>2
  <2> QED BY Zenon, <2>1, <2>2, BuilderStops DEF BuildFails
<1> QED BY Zenon, <1>2, <1>3

LEMMA BuildEndsStep ==
    ASSUME PipelineInv, BuildEnds
    PROVE  PipelineInv'
<1>1. TypeOK /\ GotIsPaged /\ RootIsMade /\ EndsInOrder
  BY DEF PipelineInv
<1>2. /\ builder.state = "closing" /\ builder.out = << >>
      /\ UNCHANGED <<runs, taken, producer, records, objects, uploader, stored, result>>
  BY Zenon DEF BuildEnds
<1>3. /\ builder'.state = "ok" /\ builder'.got = builder.got /\ builder'.page = builder.page
      /\ builder'.out = builder.out
      /\ builder' = [state |-> builder'.state, got |-> builder'.got, page |-> builder'.page,
                     out |-> builder'.out]
  BY Zenon, <1>1, BuilderTyped DEF BuildEnds
<1>4. TypeOK'
  <2>1. builder' \in [state : {"running", "closing", "ok", "err"},
                      got : Seq(Nat), page : Seq(Nat), out : Seq(Objects)]
    BY Zenon, <1>1, <1>3, BuilderTyped
  <2> QED BY Zenon, <1>1, <1>2, <2>1 DEF TypeOK
<1>5. StreamRises' /\ NothingDropped' /\ Heads' = Heads
  BY Zenon, <1>2, <1>3, StreamSame
<1>6. Made' = Made
  BY Zenon, <1>2, <1>3 DEF Made
<1>7. GotIsPaged' /\ RootIsMade'
  BY Zenon, <1>1, <1>2, <1>3, <1>6 DEF GotIsPaged, RootIsMade
<1>8. EndsInOrder'
  BY Zenon, <1>1, <1>2, <1>3, <1>5 DEF EndsInOrder, Succeeds
<1> QED BY <1>4, <1>5, <1>7, <1>8 DEF PipelineInv

\* A step of the uploader keeps the objects, or throws some away and fails.
LEMMA UploaderStep ==
    ASSUME PipelineInv, UNCHANGED <<runs, taken, producer, records, builder, result>>,
           TypeOK', EndsInOrder',
           \/ Made' = Made /\ uploader.state # "err"
           \/ Made' \subseteq Made /\ uploader'.state = "err"
    PROVE  PipelineInv'
<1>1. GotIsPaged /\ RootIsMade
  BY Zenon DEF PipelineInv
<1>2. StreamRises' /\ NothingDropped'
  <2>1. TakenRecords' = TakenRecords /\ Heads' = Heads /\ \A i \in Heads : Peek(i)' = Peek(i)
    BY DEF TakenRecords, Heads, Peek
  <2> QED BY Zenon, <2>1 DEF PipelineInv, StreamRises, NothingDropped
<1>3. PagedIn(Made') \subseteq PagedIn(Made)
  BY Zenon DEF PagedIn
<1>4. GotIsPaged' /\ RootIsMade'
  <2>1. CASE Made' = Made /\ uploader.state # "err"
    BY Zenon, <1>1, <2>1 DEF GotIsPaged, RootIsMade
  <2>2. CASE Made' \subseteq Made /\ uploader'.state = "err"
    BY Zenon, <1>1, <1>3, <2>2 DEF GotIsPaged, RootIsMade
  <2> QED BY Zenon, <2>1, <2>2
<1> QED BY Zenon, <1>2, <1>4 DEF PipelineInv

LEMMA UploadSteps ==
    ASSUME PipelineInv,
           \/ UploadStart \/ UploadEnds
           \/ \E o \in uploader.puts : UploadStored(o)
           \/ \E landed \in SUBSET uploader.puts : UploadFails(landed)
    PROVE  PipelineInv'
<1>1. TypeOK /\ EndsInOrder
  BY Zenon DEF PipelineInv
<1>2. CASE UploadStart
  <2>1. /\ uploader.state = "running" /\ objects # << >> /\ objects' = Tail(objects)
        /\ uploader' = [uploader EXCEPT !.puts = @ \cup {objects[1]}]
        /\ UNCHANGED <<runs, taken, producer, records, builder, stored, result>>
    BY Zenon, <1>2 DEF UploadStart
  <2>2. /\ Tail(objects) \in Seq(Objects) /\ objects[1] \in Objects
        /\ Range(objects) = {objects[1]} \cup Range(Tail(objects))
    <3>1. objects \in Seq(Objects)
      BY Zenon, <1>1 DEF TypeOK
    <3> QED BY Zenon, <2>1, <3>1, TailRange
  <2>3. uploader'.state = "running" /\ uploader'.puts = uploader.puts \cup {objects[1]}
    BY Zenon, <1>1, <2>1, BuilderTyped
  <2>4. TypeOK'
    BY Zenon, <1>1, <2>1, <2>2 DEF TypeOK
  <2>5. EndsInOrder'
    BY Zenon, <1>1, <2>1, <2>3 DEF EndsInOrder, Heads, Succeeds
  <2>6. Made' = Made
    BY Zenon, <2>1, <2>2, <2>3 DEF Made
  <2> QED BY Zenon, <2>1, <2>4, <2>5, <2>6, UploaderStep
<1>3. CASE UploadEnds
  <2>1. /\ uploader.state = "running" /\ uploader.puts = {} /\ objects = << >>
        /\ builder.state \in {"ok", "err"} /\ uploader' = [uploader EXCEPT !.state = "ok"]
        /\ UNCHANGED <<runs, taken, producer, records, builder, objects, stored, result>>
    BY Zenon, <1>3 DEF UploadEnds
  <2>2. uploader'.state = "ok" /\ uploader'.puts = uploader.puts
    BY Zenon, <1>1, <2>1, BuilderTyped
  <2>3. TypeOK'
    BY Zenon, <1>1, <2>1 DEF TypeOK
  <2>4. EndsInOrder'
    BY Zenon, <1>1, <2>1, <2>2 DEF EndsInOrder, Heads, Succeeds
  <2>5. Made' = Made
    BY Zenon, <2>1, <2>2 DEF Made
  <2> QED BY Zenon, <2>1, <2>3, <2>4, <2>5, UploaderStep
<1>4. ASSUME NEW o \in uploader.puts, UploadStored(o)
      PROVE  PipelineInv'
  <2>1. /\ uploader.state = "running" /\ stored' = stored \cup {o}
        /\ uploader' = [uploader EXCEPT !.puts = @ \ {o}]
        /\ UNCHANGED <<runs, taken, producer, records, builder, objects, result>>
    BY Zenon, <1>4 DEF UploadStored
  <2>2. uploader'.state = "running" /\ uploader'.puts = uploader.puts \ {o}
    BY Zenon, <1>1, <2>1, BuilderTyped
  <2>3. TypeOK'
    BY Zenon, <1>1, <2>1 DEF TypeOK
  <2>4. EndsInOrder'
    BY Zenon, <1>1, <2>1, <2>2 DEF EndsInOrder, Heads, Succeeds
  <2>5. Made' = Made
    BY Zenon, <2>1, <2>2 DEF Made
  <2> QED BY Zenon, <2>1, <2>3, <2>4, <2>5, UploaderStep
<1>5. ASSUME NEW landed \in SUBSET uploader.puts, UploadFails(landed)
      PROVE  PipelineInv'
  <2>1. /\ uploader.state = "running" /\ stored' = stored \cup landed
        /\ uploader' = [state |-> "err", puts |-> {}]
        /\ UNCHANGED <<runs, taken, producer, records, builder, objects, result>>
    BY Zenon, <1>5 DEF UploadFails
  <2>2. uploader'.state = "err" /\ uploader'.puts = {}
    BY Zenon, <2>1
  <2>3. TypeOK'
    <3>1. /\ uploader.puts \in SUBSET Objects /\ stored \in SUBSET Objects
          /\ uploader.state \in {"running", "ok", "err"}
      BY Zenon, <1>1, BuilderTyped DEF TypeOK
    <3>2. uploader' \in [state : {"running", "ok", "err"}, puts : SUBSET Objects]
      BY Zenon, <2>1, <3>1
    <3>3. stored' \in SUBSET Objects /\ objects' \in Seq(Objects)
      BY Zenon, <1>1, <2>1, <3>1 DEF TypeOK
    <3> QED BY Zenon, <1>1, <2>1, <3>2, <3>3 DEF TypeOK
  <2>4. EndsInOrder'
    BY Zenon, <1>1, <2>1, <2>2 DEF EndsInOrder, Heads, Succeeds
  <2>5. Made' \subseteq Made
    BY Zenon, <2>1, <2>2 DEF Made
  <2> QED BY Zenon, <2>1, <2>2, <2>3, <2>4, <2>5, UploaderStep
<1> QED BY Zenon, <1>2, <1>3, <1>4, <1>5

LEMMA PipelineStep == PipelineInv /\ [Next]_vars => PipelineInv'
<1> SUFFICES ASSUME PipelineInv, [Next]_vars PROVE PipelineInv'
  OBVIOUS
<1>1. TypeOK /\ EndsInOrder
  BY Zenon DEF PipelineInv
<1>2. producer \in {"running", "ok", "err"} /\ result \in {"none", "ok", "err"}
  BY Zenon, <1>1 DEF TypeOK
<1>3. CASE \E i \in Heads : ReadAheadGet(i)
  <2>1. UNCHANGED Data /\ producer' = producer /\ result' = result
    BY Zenon, <1>3 DEF ReadAheadGet, Data
  <2>2. EndsInOrder'
    BY Zenon, <1>1, <2>1 DEF EndsInOrder, Heads, Succeeds, Data
  <2> QED BY Zenon, <1>2, <2>1, <2>2, DataSame
<1>4. CASE ProduceFails \/ ProduceEnds
  <2>1. UNCHANGED Data /\ producer' \in {"ok", "err"} /\ producer = "running" /\ result' = result
    BY Zenon, <1>4 DEF ProduceFails, ProduceEnds, Data
  <2>2. producer' = "ok" => Heads = {}
    BY Zenon, <1>4 DEF ProduceFails, ProduceEnds
  <2>3. EndsInOrder'
    BY Zenon, <1>1, <2>1, <2>2 DEF EndsInOrder, Heads, Succeeds, Data
  <2> QED BY Zenon, <1>2, <2>1, <2>3, DataSame
<1>5. CASE \E summary_stored \in BOOLEAN : Join(summary_stored)
  <2>1. /\ UNCHANGED Data /\ producer' = producer /\ result' \in {"ok", "err"}
        /\ result' = "ok" => Succeeds
    BY Zenon, <1>5 DEF Join, Data
  <2>2. EndsInOrder'
    BY Zenon, <1>1, <2>1 DEF EndsInOrder, Heads, Succeeds, Data
  <2> QED BY Zenon, <1>2, <2>1, <2>2, DataSame
<1>6. CASE UNCHANGED vars
  <2>1. UNCHANGED Data /\ producer' = producer /\ result' = result
    BY Zenon, <1>6 DEF vars, Data
  <2>2. EndsInOrder'
    BY <1>1, <2>1 DEF EndsInOrder, Heads, Succeeds, Data
  <2> QED BY <1>2, <2>1, <2>2, DataSame
<1> QED BY Zenon, <1>3, <1>4, <1>5, <1>6, ProduceRecordStep, BuildRecordStep, BuildCloseStep,
        BuildSendStep, BuildFailsStep, BuildEndsStep, UploadSteps DEF Next

\* Records rise on their way through the channels, and none is dropped unless a
\* task failed: the inductive invariant of the three tasks.
THEOREM PipelineInvariant == Spec => []PipelineInv
BY PipelineInit, PipelineStep, PTL DEF Spec

\* Whatever the runs and the capacities are, and whichever read, put, send
\* or build fails, a merge that succeeds has stored its root and pages of every record.
THEOREM MergeIsComplete == Spec => []OkComplete
<1>1. PipelineInv => OkComplete
  <2> SUFFICES ASSUME PipelineInv, result = "ok"
               PROVE  /\ Range(builder.got) = AllRecords
                      /\ Root(builder.got) \in stored
                      /\ PagedIn(stored) = AllRecords
    BY Zenon DEF OkComplete, PagedIn
  <2>1. TypeOK /\ NothingDropped /\ GotIsPaged /\ RootIsMade /\ EndsInOrder
    BY Zenon DEF PipelineInv
  <2>2. /\ producer = "ok" /\ builder.state = "ok" /\ uploader.state = "ok"
        /\ Heads = {} /\ records = << >> /\ builder.out = << >> /\ objects = << >>
        /\ uploader.puts = {}
    BY Zenon, <2>1 DEF EndsInOrder, Succeeds
  <2>3. Range(records) = {} /\ Range(builder.out) = {} /\ Range(objects) = {}
    BY <2>2 DEF Range
  <2>4. TakenRecords = AllRecords
    <3>1. ASSUME NEW i \in 1 .. Len(runs)
          PROVE  Range(runs[i]) = {runs[i][j] : j \in 1 .. taken[i]}
      <4>1. runs \in InputSets /\ taken[i] \in Nat /\ taken[i] <= Len(runs[i])
        BY Zenon, <2>1 DEF TypeOK
      <4>2. runs[i] \in Seq(Nat) /\ Len(runs[i]) \in Nat
        BY Zenon, <4>1, RunsTyped
      <4>3. taken[i] = Len(runs[i])
        BY <2>2, <4>1, <4>2 DEF Heads
      <4>4. DOMAIN runs[i] = 1 .. taken[i]
        BY <4>2, <4>3
      <4>5. Range(runs[i]) = {runs[i][j] : j \in DOMAIN runs[i]}
        BY Zenon DEF Range
      <4> QED BY Zenon, <4>4, <4>5
    <3> DEFINE had(i) == {runs[i][j] : j \in 1 .. taken[i]}
               all(i) == Range(runs[i])
    <3>2. TakenRecords = UNION {had(i) : i \in 1 .. Len(runs)}
      BY Zenon DEF TakenRecords
    <3>3. AllRecords = UNION {all(i) : i \in 1 .. Len(runs)}
      BY Zenon DEF AllRecords
    <3>4. \A i \in 1 .. Len(runs) : all(i) = had(i)
      BY Zenon, <3>1
    <3> HIDE DEF had, all
    <3> QED BY Zenon, <3>2, <3>3, <3>4
  <2>5. Made = stored
    BY Zenon, <2>2, <2>3 DEF Made
  <2> QED BY Zenon, <2>1, <2>2, <2>3, <2>4, <2>5 DEF NothingDropped, GotIsPaged, RootIsMade
<1> QED BY <1>1, PipelineInvariant, PTL

\* The builder, which refuses records out of order, is never given any.
THEOREM BuilderGetsRising == Spec => []BuilderOrdered
<1>1. PipelineInv => BuilderOrdered
  <2> SUFFICES ASSUME PipelineInv, NEW j \in 1 .. (Len(builder.got) - 1)
               PROVE  builder.got[j] < builder.got[j + 1]
    BY Zenon DEF BuilderOrdered
  <2>1. builder.got \in Seq(Nat) /\ Rising(builder.got)
    BY Zenon, BuilderTyped DEF PipelineInv, StreamRises
  <2>2. j \in 1 .. Len(builder.got) /\ j + 1 \in 1 .. Len(builder.got) /\ j < j + 1
    BY <2>1
  <2> QED BY Zenon, <2>1, <2>2 DEF Rising
<1> QED BY <1>1, PipelineInvariant, PTL
===============================================================================
