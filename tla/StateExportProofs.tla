-------------------------- MODULE StateExportProofs ---------------------------
(***************************************************************************)
(* The properties of StateExport for any chain, any accounts and slots, any *)
(* package size and any number of kills.                                    *)
(*                                                                         *)
(* The argument: what the exporter writes is a function of the chain.  The  *)
(* incarnation of an account is the number of times it came to life again,  *)
(* and the rows of the journal, the records of a block and a whole package  *)
(* can be said in these terms alone.  So a restart repeats what was written *)
(* before, and a lookup is exact by induction over the blocks.              *)
(***************************************************************************)
EXTENDS StateExport, FiniteSetTheorems, TLAPS

Exists(a, n) == StateAt(n)[a].exists
CodeAt(a, n) == StateAt(n)[a].code
Slot(a, s, n) == StateAt(n)[a].slots[s]

(***************************************************************************)
(* What the exporter writes, as a function of the chain                     *)
(***************************************************************************)

\* The probe reported an account that was there before or after.
HasRow(a, n) == \E k \in 1 .. n : a \in changed_accounts(k) /\ (Exists(a, k - 1) \/ Exists(a, k))

\* Block n gives the account a new life: it was wiped, or it comes back.
Reborn(a, n) == Exists(a, n) /\ (IF Exists(a, n - 1) THEN a \in wiped[n] ELSE HasRow(a, n - 1))

Incarnation(a, n) == Cardinality({m \in 1 .. n : Reborn(a, m)})

RowAt(a, n) ==
    IF HasRow(a, n) THEN [incarnation |-> Incarnation(a, n), exists_now |-> Exists(a, n)] ELSE NoRow
RowsAt(n) == [a \in Accounts |-> RowAt(a, n)]

\* The code that the blocks of a package changed, and the records of a package.
Seen(first, last) == UNION {changed_codes(n) : n \in first .. last}
Records(first, last) ==
    UNION {block_records(RowsAt(n), n, changed_codes(n) \ Seen(first, n - 1)) : n \in first .. last}

(***************************************************************************)
(* The inductive invariant                                                  *)
(***************************************************************************)

States == [Accounts -> Live \cup {Absent}]
ChainOk ==
    /\ chain \in Seq(States) /\ wiped \in Seq(SUBSET Accounts)
    /\ Len(chain) = Len(wiped) + 1

JournalOk == journal.last_block \in 0 .. Mined /\ journal.rows = RowsAt(journal.last_block)

\* A package of the exporter, which starts after the journal.
PackageOk(package) ==
    /\ package \in [first : Nat, last : Nat, records : {package.records}]
    /\ package.first \in 1 .. package.last /\ package.last <= Mined
    /\ package.records = Records(package.first, package.last)

\* The account and storage records of the archive are those of every block
\* published; the code that a block brought is there from this block on.
AccountWritten(a, n) == IF n = 0 THEN Exists(a, 0) ELSE a \in changed_accounts(n)
StorageWritten(a, s, n) ==
    IF n = 0 THEN Exists(a, 0) /\ Slot(a, s, 0) # Zero ELSE s \in changed_slots(n, a)
RecordsOk(records, number) ==
    /\ \A r \in records : r.block \in 0 .. number
    /\ \A r \in records, a \in Accounts : r.key = account_key(a) =>
         /\ AccountWritten(a, r.block)
         /\ r.value = account_value(StateAt(r.block)[a], Incarnation(a, r.block))
    /\ \A a \in Accounts, n \in 0 .. number : AccountWritten(a, n) =>
         \E r \in records : r.key = account_key(a) /\ r.block = n
    /\ \A r \in records, a \in Accounts, i \in Nat, s \in Slots : r.key = storage_key(a, i, s) =>
         StorageWritten(a, s, r.block) /\ i = Incarnation(a, r.block) /\ r.value = Slot(a, s, r.block)
    /\ \A a \in Accounts, s \in Slots, n \in 0 .. number : StorageWritten(a, s, n) =>
         \E r \in records : r.key = storage_key(a, Incarnation(a, n), s) /\ r.block = n
    /\ \A r \in records, c \in Codes : r.key = code_key(c) => r.value = c
    /\ \A a \in Accounts : Exists(a, 0) /\ CodeAt(a, 0) \in Codes =>
         \E r \in records : r.key = code_key(CodeAt(a, 0)) /\ r.block = 0
    /\ \A n \in 1 .. number : \A c \in changed_codes(n) :
         \E r \in records : r.key = code_key(c) /\ r.block \in 0 .. n

ArchiveOk ==
    /\ archive.number \in 0 .. Mined
    /\ archive.package.last = archive.number
    /\ archive.number > 0 => PackageOk(archive.package)
    /\ archive.number = 0 => archive.package.first = 0
    /\ journal.last_block \in {archive.number, archive.package.first - 1}
    /\ RecordsOk(archive.records, archive.number)

\* The exporter on its way through a package.
ConvertingOk ==
    LET package == exp.package IN
    /\ package \in [first : Nat, last : Nat, records : {package.records}]
    /\ package.first = journal.last_block + 1
    /\ exp.next \in package.first .. package.last
    /\ package.last <= exp.until /\ exp.until <= Mined
    /\ package.records = Records(package.first, exp.next - 1)
    /\ exp.rows = RowsAt(exp.next - 1)
    /\ exp.seen_code = Seen(package.first, exp.next - 1)

ExporterOk ==
    /\ exp = [pc |-> exp.pc, until |-> exp.until, next |-> exp.next, package |-> exp.package,
              rows |-> exp.rows, seen_code |-> exp.seen_code]
    /\ exp.pc \in {"idle", "refused", "running", "converting", "prepared", "published"}
    /\ exp.until \in Nat
    /\ exp.pc = "running" => journal.last_block < exp.until /\ exp.until <= Mined
    /\ exp.pc = "converting" => ConvertingOk
    /\ exp.pc \in {"prepared", "published"} =>
         /\ PackageOk(exp.package) /\ exp.package.first = journal.last_block + 1
         /\ exp.rows = RowsAt(exp.package.last)
         /\ exp.package.last <= exp.until /\ exp.until <= Mined
    /\ exp.pc = "published" => archive.package = exp.package

IInv == ChainOk /\ JournalOk /\ ArchiveOk /\ ExporterOk

-----------------------------------------------------------------------------
(* Blocks *)

LEMMA Least ==
    ASSUME NEW T \in SUBSET Nat, T # {}
    PROVE  \E m \in T : \A k \in T : m <= k
<1> DEFINE R == OpToRel(<, Nat)
<1>1. PICK m \in T : \A k \in T : ~(<<k, m>> \in R)
  BY Zenon, NatLessThanWellFounded, WFMin
<1>2. \A k \in T : ~(k < m)
  BY Zenon, <1>1 DEF OpToRel
<1>3. \A k \in T : m <= k
  BY <1>2
<1> QED BY Zenon, <1>3

\* Induction over the blocks, for a set of them.
LEMMA BlockInduction ==
    ASSUME NEW S, 0 \in S, \A n \in Nat : n \in S => n + 1 \in S
    PROVE  Nat \subseteq S
<1> DEFINE T == Nat \ S
<1>1. SUFFICES ASSUME T # {} PROVE FALSE
  BY Zenon
<1>2. \E m \in T : \A k \in T : m <= k
  <2>1. T \in SUBSET Nat
    BY Zenon
  <2> HIDE DEF T
  <2> QED BY Zenon, <1>1, <2>1, Least
<1>3. PICK m \in T : \A k \in T : m <= k
  BY Zenon, <1>2
<1>4. m \in Nat /\ m # 0
  BY Zenon
<1> DEFINE k == m - 1
<1>5. k \in Nat /\ ~(m <= k) /\ k + 1 = m
  BY <1>4
<1> HIDE DEF k
<1>6. k \in S
  BY Zenon, <1>3, <1>5
<1>7. m \in S
  BY Zenon, <1>5, <1>6
<1> QED BY Zenon, <1>7

LEMMA MinedFacts ==
    ASSUME ChainOk
    PROVE  Mined \in Nat /\ Mined = Len(wiped)
<1>1. Len(wiped) \in Nat
  BY DEF ChainOk
<1> QED BY <1>1 DEF ChainOk, Mined

\* An account that is not there has no code and no storage.
LEMMA StateFacts ==
    ASSUME ChainOk, NEW n \in 0 .. Mined, NEW a \in Accounts
    PROVE  /\ Exists(a, n) \in BOOLEAN
           /\ Exists(a, n) => CodeAt(a, n) \in Codes \cup {EmptyCode}
           /\ ~Exists(a, n) => CodeAt(a, n) = NoCode
           /\ \A s \in Slots : /\ Slot(a, s, n) \in Nat
                               /\ ~Exists(a, n) => Slot(a, s, n) = Zero
<1>1. StateAt(n) \in States
  <2>1. n + 1 \in 1 .. Len(chain)
    BY MinedFacts DEF ChainOk, Mined
  <2>2. chain[n + 1] \in States
    BY <2>1 DEF ChainOk
  <2> QED BY Zenon, <2>2 DEF StateAt
<1> DEFINE state == StateAt(n)[a]
<1>2. state \in Live \/ state = Absent
  BY Zenon, <1>1 DEF States
<1>3. \A v \in Values \cup {Zero} : v \in Nat
  BY ExportAssumption DEF Zero
<1> HIDE DEF state
<1>4. CASE state \in Live
  <2>1. state.exists = TRUE /\ state.code \in Codes \cup {EmptyCode} /\ state.slots \in [Slots -> Values \cup {Zero}]
    BY Zenon, <1>4 DEF Live
  <2> QED BY Zenon, <1>3, <2>1 DEF Exists, CodeAt, Slot, state
<1>5. CASE state = Absent
  <2>1. state.exists = FALSE /\ state.code = NoCode /\ \A s \in Slots : state.slots[s] = Zero
    BY Zenon, <1>5 DEF Absent
  <2> QED BY Zenon, <1>3, <2>1 DEF Exists, CodeAt, Slot, state
<1> QED BY Zenon, <1>2, <1>4, <1>5

\* What the probe reports, said of the account before and after.
LEMMA ProbeFacts ==
    ASSUME NEW n, NEW a \in Accounts
    PROVE  /\ a \in changed_accounts(n) <=>
                \/ Exists(a, n - 1) # Exists(a, n) \/ CodeAt(a, n - 1) # CodeAt(a, n) \/ a \in wiped[n]
           /\ \A s \in Slots : s \in changed_slots(n, a) <=>
                /\ Exists(a, n)
                /\ Slot(a, s, n) # Slot(a, s, n - 1) \/ (a \in wiped[n] /\ Slot(a, s, n) # Zero)
           /\ changed_slots(n, a) \subseteq Slots
           /\ CodeAt(a, n) # CodeAt(a, n - 1) /\ CodeAt(a, n) \in Codes => CodeAt(a, n) \in changed_codes(n)
<1>1. a \in changed_accounts(n) <=>
        \/ Exists(a, n - 1) # Exists(a, n) \/ CodeAt(a, n - 1) # CodeAt(a, n) \/ a \in wiped[n]
  BY Zenon DEF changed_accounts, Exists, CodeAt
<1>2. /\ \A s \in Slots : s \in changed_slots(n, a) <=>
           /\ Exists(a, n)
           /\ Slot(a, s, n) # Slot(a, s, n - 1) \/ (a \in wiped[n] /\ Slot(a, s, n) # Zero)
      /\ changed_slots(n, a) \subseteq Slots
  BY Zenon DEF changed_slots, Exists, Slot
<1>3. CodeAt(a, n) # CodeAt(a, n - 1) /\ CodeAt(a, n) \in Codes => CodeAt(a, n) \in changed_codes(n)
  BY Zenon DEF changed_codes, CodeAt
<1> QED BY Zenon, <1>1, <1>2, <1>3

-----------------------------------------------------------------------------
(* Lives of an account *)

LEMMA LivesFinite ==
    ASSUME NEW a, NEW n \in Nat
    PROVE  /\ IsFiniteSet({m \in 1 .. n : Reborn(a, m)})
           /\ Incarnation(a, n) \in Nat
<1> DEFINE S == {m \in 1 .. n : Reborn(a, m)}
<1>1. IsFiniteSet(S)
  <2>1. S \in SUBSET Nat /\ \A m \in S : m <= n
    OBVIOUS
  <2> HIDE DEF S
  <2> QED BY Zenon, <2>1, FS_BoundedSetOfNaturals
<1> HIDE DEF S
<1>2. Cardinality(S) \in Nat
  BY Zenon, <1>1, FS_CardinalityType
<1> QED BY Zenon, <1>1, <1>2 DEF Incarnation, S

LEMMA FirstLife ==
    ASSUME NEW a
    PROVE  Incarnation(a, 0) = 0 /\ ~HasRow(a, 0)
<1>1. 1 .. 0 = {}
  OBVIOUS
<1>2. {m \in 1 .. 0 : Reborn(a, m)} = {}
  BY Zenon, <1>1
<1> QED BY Zenon, <1>1, <1>2, FS_EmptySet DEF Incarnation, HasRow

\* A block is one more life, or none.
LEMMA IncarnationStep ==
    ASSUME NEW a, NEW n \in Nat \ {0}
    PROVE  Incarnation(a, n) = IF Reborn(a, n) THEN Incarnation(a, n - 1) + 1 ELSE Incarnation(a, n - 1)
<1> DEFINE S(k) == {m \in 1 .. k : Reborn(a, m)}
<1>1. n - 1 \in Nat /\ n \notin 1 .. n - 1 /\ 1 .. n = (1 .. n - 1) \cup {n}
  OBVIOUS
<1>2. IsFiniteSet(S(n - 1)) /\ n \notin S(n - 1)
  BY Zenon, <1>1, LivesFinite
<1>3. Incarnation(a, n) = Cardinality(S(n)) /\ Incarnation(a, n - 1) = Cardinality(S(n - 1))
  BY Zenon DEF Incarnation
<1>4. S(n) = IF Reborn(a, n) THEN S(n - 1) \cup {n} ELSE S(n - 1)
  BY Zenon, <1>1
<1>5. Cardinality(S(n - 1) \cup {n}) = Cardinality(S(n - 1)) + 1
  <2> HIDE DEF S
  <2> QED BY Zenon, <1>2, FS_AddElement
<1> QED BY Zenon, <1>3, <1>4, <1>5

LEMMA IncarnationRises ==
    ASSUME NEW a, NEW n \in Nat, NEW k \in 0 .. n
    PROVE  Incarnation(a, k) <= Incarnation(a, n)
<1> DEFINE S(m) == {i \in 1 .. m : Reborn(a, i)}
<1>1. IsFiniteSet(S(n))
  BY Zenon, LivesFinite
<1>2. 1 .. k \subseteq 1 .. n
  OBVIOUS
<1>3. S(k) \in SUBSET S(n)
  BY Zenon, <1>2
<1>4. Cardinality(S(k)) <= Cardinality(S(n))
  <2> HIDE DEF S
  <2> QED BY Zenon, <1>1, <1>3, FS_Subset
<1> QED BY Zenon, <1>4 DEF Incarnation

LEMMA HasRowStep ==
    ASSUME NEW a, NEW n \in Nat \ {0}
    PROVE  HasRow(a, n) <=> \/ HasRow(a, n - 1)
                            \/ a \in changed_accounts(n) /\ (Exists(a, n - 1) \/ Exists(a, n))
<1>1. 1 .. n = (1 .. n - 1) \cup {n}
  OBVIOUS
<1> QED BY Zenon, <1>1 DEF HasRow

\* Without a row there was no second life.
LEMMA NoRowOneLife ==
    ASSUME NEW a \in Accounts, NEW n \in Nat, ~HasRow(a, n)
    PROVE  Incarnation(a, n) = 0
<1>1. ASSUME NEW m \in 1 .. n, Reborn(a, m) PROVE FALSE
  <2>1. CASE Exists(a, m - 1)
    <3>1. a \in changed_accounts(m)
      BY Zenon, <1>1, <2>1, ProbeFacts DEF Reborn
    <3> QED BY Zenon, <2>1, <3>1 DEF HasRow
  <2>2. CASE ~Exists(a, m - 1)
    <3>1. HasRow(a, m - 1)
      BY Zenon, <1>1, <2>2 DEF Reborn
    <3>2. 1 .. m - 1 \subseteq 1 .. n
      OBVIOUS
    <3> QED BY Zenon, <3>1, <3>2 DEF HasRow
  <2> QED BY Zenon, <2>1, <2>2
<1>2. {m \in 1 .. n : Reborn(a, m)} = {}
  BY Zenon, <1>1
<1> QED BY Zenon, <1>2, FS_EmptySet DEF Incarnation

\* lifetime() keeps the rows what they should be.
LEMMA RowStep ==
    ASSUME ChainOk, NEW a \in Accounts, NEW n \in 1 .. Mined
    PROVE  RowAt(a, n) = IF a \in changed_accounts(n) THEN lifetime_row(RowAt(a, n - 1), n, a)
                         ELSE RowAt(a, n - 1)
<1> DEFINE was == Exists(a, n - 1)
           is == Exists(a, n)
           wipe == a \in wiped[n]
           had == HasRow(a, n - 1)
           inc == Incarnation(a, n - 1)
<1>1. n \in Nat \ {0} /\ n - 1 \in Nat /\ n - 1 \in 0 .. Mined /\ n \in 0 .. Mined
  BY MinedFacts
<1>2. was \in BOOLEAN /\ is \in BOOLEAN
  BY Zenon, <1>1, StateFacts
<1>3. HasRow(a, n) <=> had \/ (a \in changed_accounts(n) /\ (was \/ is))
  BY Zenon, <1>1, HasRowStep
<1>4. Reborn(a, n) <=> is /\ (IF was THEN wipe ELSE had)
  BY Zenon DEF Reborn
<1>5. Incarnation(a, n) = IF Reborn(a, n) THEN inc + 1 ELSE inc
  BY Zenon, <1>1, IncarnationStep
<1>6. inc \in Nat /\ (~had => inc = 0)
  BY Zenon, <1>1, LivesFinite, NoRowOneLife
<1>7. RowAt(a, n - 1) = IF had THEN [incarnation |-> inc, exists_now |-> was] ELSE NoRow
  BY Zenon DEF RowAt
<1>8. RowAt(a, n) = IF HasRow(a, n) THEN [incarnation |-> Incarnation(a, n), exists_now |-> is] ELSE NoRow
  BY Zenon DEF RowAt
<1>9. a \in changed_accounts(n) <=> was # is \/ CodeAt(a, n - 1) # CodeAt(a, n) \/ wipe
  BY Zenon, <1>1, ProbeFacts
<1> DEFINE kept == [incarnation |-> inc, exists_now |-> was]
<1>10. kept # NoRow /\ kept.incarnation = inc /\ kept.exists_now = was
  <2>1. kept \in [incarnation : Nat, exists_now : BOOLEAN]
    BY Zenon, <1>2, <1>6
  <2>2. kept.incarnation = inc /\ kept.exists_now = was
    BY Zenon
  <2> HIDE DEF kept
  <2> QED BY Zenon, <2>1, <2>2, ExportAssumption
<1> DEFINE row == RowAt(a, n - 1)
<1>11. CASE a \notin changed_accounts(n)
  <2>1. (HasRow(a, n) <=> had) /\ (is <=> was) /\ ~Reborn(a, n)
    BY Zenon, <1>2, <1>3, <1>4, <1>9, <1>11
  <2>2. Incarnation(a, n) = inc /\ is = was
    BY Zenon, <1>2, <1>5, <2>1
  <2> QED BY Zenon, <1>7, <1>8, <1>11, <2>1, <2>2
<1>12. CASE a \in changed_accounts(n)
  <2>1. lifetime_row(row, n, a) = IF ~had /\ ~was /\ ~is THEN NoRow
            ELSE [incarnation |-> lifetime(row, was, is, wipe), exists_now |-> is]
    <3>1. row = NoRow <=> ~had
      <4>1. row = IF had THEN kept ELSE NoRow
        BY Zenon, <1>7
      <4> HIDE DEF kept, row, had
      <4> QED BY Zenon, <1>10, <4>1
    <3> HIDE DEF row, had
    <3> QED BY Zenon, <3>1 DEF lifetime_row, Exists
  <2>2. lifetime(row, was, is, wipe) = Incarnation(a, n)
    <3>1. CASE had
      <4>1. row # NoRow /\ row.incarnation = inc /\ row.exists_now = was
        <5>1. row = kept
          BY Zenon, <1>7, <3>1
        <5> HIDE DEF row, kept
        <5> QED BY Zenon, <1>10, <5>1
      <4> HIDE DEF row, was, is, wipe, had, inc
      <4>2. lifetime(row, was, is, wipe) =
              (inc + (IF is /\ ~was THEN 1 ELSE 0)) + (IF is /\ was /\ wipe THEN 1 ELSE 0)
        BY Zenon, <4>1 DEF lifetime
      <4> QED BY <1>2, <1>4, <1>5, <1>6, <3>1, <4>2
    <3>2. CASE ~had
      <4>1. row = NoRow
        BY Zenon, <1>7, <3>2
      <4> HIDE DEF row, was, is, wipe, had, inc
      <4>2. lifetime(row, was, is, wipe) = 0 + (IF is /\ was /\ wipe THEN 1 ELSE 0)
        BY Zenon, <4>1 DEF lifetime
      <4> QED BY <1>2, <1>4, <1>5, <1>6, <3>2, <4>2
    <3> QED BY Zenon, <3>1, <3>2
  <2> QED BY Zenon, <1>3, <1>8, <1>12, <2>1, <2>2
<1> QED BY Zenon, <1>11, <1>12

LEMMA RowsStep ==
    ASSUME ChainOk, NEW n \in 1 .. Mined
    PROVE  rows_after(RowsAt(n - 1), n) = RowsAt(n) /\ consistent(RowsAt(n - 1), n)
<1>1. rows_after(RowsAt(n - 1), n) = RowsAt(n)
  BY Zenon, RowStep DEF rows_after, RowsAt
<1>2. \A a \in Accounts, k \in Nat : RowAt(a, k) # NoRow => RowAt(a, k).exists_now = Exists(a, k)
  BY Zenon DEF RowAt
<1>3. n - 1 \in Nat /\ n \in Nat
  BY MinedFacts
<1>4. ASSUME NEW a \in changed_accounts(n), RowsAt(n - 1)[a] # NoRow
      PROVE  RowsAt(n - 1)[a].exists_now = StateAt(n - 1)[a].exists
  <2>1. a \in Accounts
    BY Zenon DEF changed_accounts
  <2>2. RowsAt(n - 1)[a] = RowAt(a, n - 1)
    BY Zenon, <2>1 DEF RowsAt
  <2> QED BY Zenon, <1>2, <1>3, <1>4, <2>1, <2>2 DEF Exists
<1>5. ASSUME NEW a \in Accounts, changed_slots(n, a) # {}, RowsAt(n)[a] # NoRow
      PROVE  RowsAt(n)[a].exists_now
  <2>1. Exists(a, n)
    BY Zenon, <1>5, ProbeFacts
  <2>2. RowsAt(n)[a] = RowAt(a, n)
    BY Zenon DEF RowsAt
  <2> QED BY Zenon, <1>2, <1>3, <1>5, <2>1, <2>2
<1>6. consistent(RowsAt(n - 1), n)
  BY Zenon, <1>1, <1>4, <1>5 DEF consistent
<1> QED BY Zenon, <1>1, <1>6

\* Storage is filed under the life it belongs to.
LEMMA FiledUnder ==
    ASSUME ChainOk, NEW n \in 0 .. Mined, NEW a \in Accounts
    PROVE  incarnation_in(RowsAt(n), a) = Incarnation(a, n)
<1>0. n \in Nat
  BY MinedFacts
<1>1. RowsAt(n)[a] = RowAt(a, n)
  BY Zenon DEF RowsAt
<1>2. CASE ~HasRow(a, n)
  <2>1. RowAt(a, n) = NoRow
    BY Zenon, <1>2 DEF RowAt
  <2> QED BY Zenon, <1>0, <1>1, <1>2, <2>1, NoRowOneLife DEF incarnation_in
<1>3. CASE HasRow(a, n)
  <2> DEFINE row == [incarnation |-> Incarnation(a, n), exists_now |-> Exists(a, n)]
  <2>1. RowAt(a, n) = row
    BY Zenon, <1>3 DEF RowAt
  <2>2. row \in [incarnation : Nat, exists_now : BOOLEAN]
    BY Zenon, <1>0, StateFacts, LivesFinite
  <2>3. row.incarnation = Incarnation(a, n)
    BY Zenon
  <2> HIDE DEF row
  <2>4. row # NoRow
    BY Zenon, <2>2, ExportAssumption
  <2> QED BY Zenon, <1>1, <2>1, <2>3, <2>4 DEF incarnation_in
<1> QED BY Zenon, <1>2, <1>3

-----------------------------------------------------------------------------
(* Records *)

\* Keys tell accounts, storage and code apart, and say what they are of.
LEMMA Keys ==
    /\ \A a, b : account_key(a) = account_key(b) => a = b
    /\ \A c, d : code_key(c) = code_key(d) => c = d
    /\ \A a, i, s, b, j, t : storage_key(a, i, s) = storage_key(b, j, t) => a = b /\ i = j /\ s = t
    /\ \A a, c : account_key(a) # code_key(c)
    /\ \A a, b, i, s : account_key(a) # storage_key(b, i, s)
    /\ \A c, b, i, s : code_key(c) # storage_key(b, i, s)
<1>1. \A a, b : account_key(a) = account_key(b) => a = b
  BY DEF account_key
<1>2. \A c, d : code_key(c) = code_key(d) => c = d
  BY DEF code_key
<1>3. \A a, i, s, b, j, t : storage_key(a, i, s) = storage_key(b, j, t) => a = b /\ i = j /\ s = t
  BY DEF storage_key
<1>4. \A a, c : account_key(a) # code_key(c)
  BY DEF account_key, code_key
<1>5. \A a, b, i, s : account_key(a) # storage_key(b, i, s)
  BY DEF account_key, storage_key
<1>6. \A c, b, i, s : code_key(c) # storage_key(b, i, s)
  BY DEF code_key, storage_key
<1> QED BY Zenon, <1>1, <1>2, <1>3, <1>4, <1>5, <1>6

\* What the records of a block say, and what they leave out.
LEMMA BlockRecords ==
    ASSUME ChainOk, NEW n \in 1 .. Mined, NEW codes
    PROVE  /\ \A r \in block_records(RowsAt(n), n, codes) : r.block = n
           /\ \A r \in block_records(RowsAt(n), n, codes), a \in Accounts : r.key = account_key(a) =>
                a \in changed_accounts(n) /\ r.value = account_value(StateAt(n)[a], Incarnation(a, n))
           /\ \A r \in block_records(RowsAt(n), n, codes), a \in Accounts, i \in Nat, s \in Slots :
                r.key = storage_key(a, i, s) =>
                  s \in changed_slots(n, a) /\ i = Incarnation(a, n) /\ r.value = Slot(a, s, n)
           /\ \A r \in block_records(RowsAt(n), n, codes), c \in Codes : r.key = code_key(c) => r.value = c
           /\ \A a \in changed_accounts(n) :
                \E r \in block_records(RowsAt(n), n, codes) : r.key = account_key(a) /\ r.block = n
           /\ \A a \in Accounts : \A s \in changed_slots(n, a) :
                \E r \in block_records(RowsAt(n), n, codes) :
                  r.key = storage_key(a, Incarnation(a, n), s) /\ r.block = n
           /\ \A c \in codes : \E r \in block_records(RowsAt(n), n, codes) : r.key = code_key(c) /\ r.block = n
<1> DEFINE rows == RowsAt(n)
           A(a) == Rec(account_key(a), n, account_value(StateAt(n)[a], incarnation_in(rows, a)))
           S(a, s) == Rec(storage_key(a, incarnation_in(rows, a), s), n, StateAt(n)[a].slots[s])
           C(c) == Rec(code_key(c), n, c)
           B == block_records(rows, n, codes)
<1>1. \A r : r \in B <=> \/ \E a \in changed_accounts(n) : r = A(a)
                         \/ \E a \in Accounts : \E s \in changed_slots(n, a) : r = S(a, s)
                         \/ \E c \in codes : r = C(c)
  BY DEF block_records
<1>2. \A a : /\ A(a).key = account_key(a) /\ A(a).block = n
             /\ A(a).value = account_value(StateAt(n)[a], incarnation_in(rows, a))
  BY Zenon DEF Rec
<1>3. \A a, s : /\ S(a, s).key = storage_key(a, incarnation_in(rows, a), s) /\ S(a, s).block = n
                /\ S(a, s).value = Slot(a, s, n)
  BY Zenon DEF Rec, Slot
<1>4. \A c : C(c).key = code_key(c) /\ C(c).block = n /\ C(c).value = c
  BY Zenon DEF Rec
<1>5. \A a \in Accounts : incarnation_in(rows, a) = Incarnation(a, n)
  <2>1. n \in 0 .. Mined
    BY MinedFacts
  <2> QED BY Zenon, <2>1, FiledUnder
<1> HIDE DEF A, S, C, B, rows
<1>6. \A r \in B : r.block = n
  BY <1>1, <1>2, <1>3, <1>4
<1>7. ASSUME NEW r \in B, NEW a \in Accounts, r.key = account_key(a)
      PROVE  a \in changed_accounts(n) /\ r.value = account_value(StateAt(n)[a], Incarnation(a, n))
  <2>1. PICK b \in changed_accounts(n) : r = A(b)
    BY <1>1, <1>3, <1>4, <1>7, Keys
  <2>2. b = a
    BY Zenon, <1>2, <1>7, <2>1, Keys
  <2> QED BY Zenon, <1>2, <1>5, <2>1, <2>2
<1>8. ASSUME NEW r \in B, NEW a \in Accounts, NEW i \in Nat, NEW s \in Slots, r.key = storage_key(a, i, s)
      PROVE  s \in changed_slots(n, a) /\ i = Incarnation(a, n) /\ r.value = Slot(a, s, n)
  <2>1. PICK b \in Accounts : \E t \in changed_slots(n, b) : r = S(b, t)
    BY <1>1, <1>2, <1>4, <1>8, Keys
  <2>2. PICK t \in changed_slots(n, b) : r = S(b, t)
    BY Zenon, <2>1
  <2>3. storage_key(b, incarnation_in(rows, b), t) = storage_key(a, i, s)
    BY Zenon, <1>3, <1>8, <2>2
  <2>4. b = a /\ t = s /\ incarnation_in(rows, b) = i
    BY <2>3, Keys
  <2> QED BY Zenon, <1>3, <1>5, <2>2, <2>4
<1>9. ASSUME NEW r \in B, NEW c \in Codes, r.key = code_key(c)
      PROVE  r.value = c
  <2>1. PICK d \in codes : r = C(d)
    BY <1>1, <1>2, <1>3, <1>9, Keys
  <2> QED BY Zenon, <1>4, <1>9, <2>1, Keys
<1>10. \A a \in changed_accounts(n) : \E r \in B : r.key = account_key(a) /\ r.block = n
  BY Zenon, <1>1, <1>2
<1>11. \A a \in Accounts : \A s \in changed_slots(n, a) :
         \E r \in B : r.key = storage_key(a, Incarnation(a, n), s) /\ r.block = n
  BY Zenon, <1>1, <1>3, <1>5
<1>12. \A c \in codes : \E r \in B : r.key = code_key(c) /\ r.block = n
  BY Zenon, <1>1, <1>4
<1> QED BY Zenon, <1>6, <1>7, <1>8, <1>9, <1>10, <1>11, <1>12 DEF B, rows

\* A package grows by one block.
LEMMA PackageStep ==
    ASSUME NEW first \in Nat, NEW n \in Nat, first <= n
    PROVE  /\ Seen(first, n) = Seen(first, n - 1) \cup changed_codes(n)
           /\ Records(first, n) = Records(first, n - 1)
                \cup block_records(RowsAt(n), n, changed_codes(n) \ Seen(first, n - 1))
<1>1. first .. n = (first .. n - 1) \cup {n}
  OBVIOUS
<1> DEFINE B(k) == block_records(RowsAt(k), k, changed_codes(k) \ Seen(first, k - 1))
<1>2. Records(first, n) = UNION {B(k) : k \in first .. n} /\ Records(first, n - 1) = UNION {B(k) : k \in first .. n - 1}
  BY Zenon DEF Records
<1>3. Seen(first, n) = Seen(first, n - 1) \cup changed_codes(n)
  BY Zenon, <1>1 DEF Seen
<1>4. Records(first, n) = Records(first, n - 1) \cup B(n)
  <2> HIDE DEF B
  <2> QED BY Zenon, <1>1, <1>2
<1> QED BY Zenon, <1>3, <1>4

LEMMA PackageStart ==
    ASSUME NEW first \in Nat
    PROVE  Seen(first, first - 1) = {} /\ Records(first, first - 1) = {}
<1>1. first .. first - 1 = {}
  OBVIOUS
<1> QED BY Zenon, <1>1 DEF Seen, Records

\* What the records of a package say, and what they leave out.
LEMMA PackageRecords ==
    ASSUME ChainOk, NEW first \in Nat, NEW last \in Nat, 1 <= first, last <= Mined
    PROVE  /\ \A r \in Records(first, last) : r.block \in first .. last
           /\ \A r \in Records(first, last), a \in Accounts : r.key = account_key(a) =>
                /\ a \in changed_accounts(r.block)
                /\ r.value = account_value(StateAt(r.block)[a], Incarnation(a, r.block))
           /\ \A r \in Records(first, last), a \in Accounts, i \in Nat, s \in Slots :
                r.key = storage_key(a, i, s) =>
                  /\ s \in changed_slots(r.block, a) /\ i = Incarnation(a, r.block)
                  /\ r.value = Slot(a, s, r.block)
           /\ \A r \in Records(first, last), c \in Codes : r.key = code_key(c) => r.value = c
           /\ \A n \in first .. last : \A a \in changed_accounts(n) :
                \E r \in Records(first, last) : r.key = account_key(a) /\ r.block = n
           /\ \A n \in first .. last, a \in Accounts : \A s \in changed_slots(n, a) :
                \E r \in Records(first, last) : r.key = storage_key(a, Incarnation(a, n), s) /\ r.block = n
           /\ \A n \in first .. last : \A c \in changed_codes(n) :
                \E r \in Records(first, last) : r.key = code_key(c) /\ r.block \in 0 .. n
<1> DEFINE Fresh(n) == changed_codes(n) \ Seen(first, n - 1)
           B(n) == block_records(RowsAt(n), n, Fresh(n))
           P == Records(first, last)
<1>1. \A r : r \in P <=> \E n \in first .. last : r \in B(n)
  BY Zenon DEF Records
<1>2. \A n \in first .. last : n \in 1 .. Mined
  BY MinedFacts
<1>3. \A n \in first .. last :
        /\ \A r \in B(n) : r.block = n
        /\ \A r \in B(n), a \in Accounts : r.key = account_key(a) =>
             a \in changed_accounts(n) /\ r.value = account_value(StateAt(n)[a], Incarnation(a, n))
        /\ \A r \in B(n), a \in Accounts, i \in Nat, s \in Slots : r.key = storage_key(a, i, s) =>
             s \in changed_slots(n, a) /\ i = Incarnation(a, n) /\ r.value = Slot(a, s, n)
        /\ \A r \in B(n), c \in Codes : r.key = code_key(c) => r.value = c
  <2> TAKE n \in first .. last
  <2> HIDE DEF Fresh
  <2> QED BY <1>2, BlockRecords
<1>4. \A n \in first .. last :
        /\ \A a \in changed_accounts(n) : \E r \in B(n) : r.key = account_key(a) /\ r.block = n
        /\ \A a \in Accounts : \A s \in changed_slots(n, a) :
             \E r \in B(n) : r.key = storage_key(a, Incarnation(a, n), s) /\ r.block = n
        /\ \A c \in Fresh(n) : \E r \in B(n) : r.key = code_key(c) /\ r.block = n
  <2> TAKE n \in first .. last
  <2> HIDE DEF Fresh
  <2> QED BY Zenon, <1>2, BlockRecords
<1> HIDE DEF B, P, Fresh
<1>5. ASSUME NEW r \in P
      PROVE  /\ r.block \in first .. last
             /\ \A a \in Accounts : r.key = account_key(a) =>
                  /\ a \in changed_accounts(r.block)
                  /\ r.value = account_value(StateAt(r.block)[a], Incarnation(a, r.block))
             /\ \A a \in Accounts, i \in Nat, s \in Slots : r.key = storage_key(a, i, s) =>
                  /\ s \in changed_slots(r.block, a) /\ i = Incarnation(a, r.block)
                  /\ r.value = Slot(a, s, r.block)
             /\ \A c \in Codes : r.key = code_key(c) => r.value = c
  <2>1. PICK n \in first .. last : r \in B(n)
    BY Zenon, <1>1
  <2>2. r.block = n
    BY Zenon, <1>3, <2>1
  <2> QED BY <1>3, <2>1, <2>2
<1>6. \A n \in first .. last : \A a \in changed_accounts(n) :
        \E r \in P : r.key = account_key(a) /\ r.block = n
  BY <1>1, <1>4
<1>7. \A n \in first .. last, a \in Accounts : \A s \in changed_slots(n, a) :
        \E r \in P : r.key = storage_key(a, Incarnation(a, n), s) /\ r.block = n
  BY <1>1, <1>4
<1>8. ASSUME NEW n \in first .. last, NEW c \in changed_codes(n)
      PROVE  \E r \in P : r.key = code_key(c) /\ r.block \in 0 .. n
  <2> DEFINE T == {k \in first .. n : c \in changed_codes(k)}
  <2>1. T \in SUBSET Nat /\ n \in T
    OBVIOUS
  <2>2. PICK k \in T : \A j \in T : k <= j
    <3> HIDE DEF T
    <3> QED BY Zenon, <2>1, Least
  <2>3. k \in first .. n /\ k \in first .. last /\ k \in 0 .. n /\ c \in changed_codes(k)
    BY <2>2
  <2>4. \A j \in first .. k - 1 : j \in first .. n /\ ~(k <= j)
    BY <2>3
  <2>5. c \notin Seen(first, k - 1)
    BY Zenon, <2>2, <2>4 DEF Seen
  <2>6. PICK r \in B(k) : r.key = code_key(c) /\ r.block = k
    BY Zenon, <1>4, <2>3, <2>5 DEF Fresh
  <2> QED BY Zenon, <1>1, <2>3, <2>6
<1> QED BY Zenon, <1>5, <1>6, <1>7, <1>8 DEF P

\* Publishing the next package extends what the archive has.
LEMMA PublishedRecords ==
    ASSUME ChainOk, NEW first \in Nat, NEW last \in Nat, 1 <= first, first <= last, last <= Mined,
           NEW records, RecordsOk(records, first - 1)
    PROVE  RecordsOk(records \cup Records(first, last), last)
<1> DEFINE P == Records(first, last)
           All == records \cup P
           m == first - 1
<1>1. /\ \A n \in 0 .. m : n \in 0 .. last
      /\ \A n \in first .. last : n \in 0 .. last /\ n # 0
      /\ \A n \in 0 .. last : n \in 0 .. m \/ n \in first .. last
      /\ \A n \in 1 .. last : n \in 1 .. m \/ n \in first .. last
  OBVIOUS
<1>2. \A r \in P : r.block \in first .. last
  BY Zenon, PackageRecords
<1> HIDE DEF m
<1>3. RecordsOk(records, m)
  BY Zenon DEF m
<1>4. \A n \in first .. last, a \in Accounts : AccountWritten(a, n) <=> a \in changed_accounts(n)
  BY Zenon, <1>1 DEF AccountWritten
<1>5. \A n \in first .. last, a \in Accounts, s \in Slots : StorageWritten(a, s, n) <=> s \in changed_slots(n, a)
  BY Zenon, <1>1 DEF StorageWritten
<1>6. \A r \in All : r.block \in 0 .. last
  BY Zenon, <1>1, <1>2, <1>3 DEF RecordsOk
<1>7. ASSUME NEW r \in All, NEW a \in Accounts, r.key = account_key(a)
      PROVE  AccountWritten(a, r.block) /\ r.value = account_value(StateAt(r.block)[a], Incarnation(a, r.block))
  <2>1. CASE r \in records
    BY Zenon, <1>3, <1>7, <2>1 DEF RecordsOk
  <2>2. CASE r \in P
    <3>1. a \in changed_accounts(r.block) /\ r.value = account_value(StateAt(r.block)[a], Incarnation(a, r.block))
      BY <1>7, <2>2, PackageRecords
    <3> QED BY Zenon, <1>2, <1>4, <2>2, <3>1
  <2> QED BY Zenon, <2>1, <2>2
<1>8. ASSUME NEW a \in Accounts, NEW n \in 0 .. last, AccountWritten(a, n)
      PROVE  \E r \in All : r.key = account_key(a) /\ r.block = n
  <2>1. CASE n \in 0 .. m
    BY <1>3, <1>8, <2>1 DEF RecordsOk
  <2>2. CASE n \in first .. last
    BY <1>4, <1>8, <2>2, PackageRecords
  <2> QED BY Zenon, <1>1, <2>1, <2>2
<1>9. ASSUME NEW r \in All, NEW a \in Accounts, NEW i \in Nat, NEW s \in Slots, r.key = storage_key(a, i, s)
      PROVE  StorageWritten(a, s, r.block) /\ i = Incarnation(a, r.block) /\ r.value = Slot(a, s, r.block)
  <2>1. CASE r \in records
    BY <1>3, <1>9, <2>1 DEF RecordsOk
  <2>2. CASE r \in P
    <3>1. s \in changed_slots(r.block, a) /\ i = Incarnation(a, r.block) /\ r.value = Slot(a, s, r.block)
      BY <1>9, <2>2, PackageRecords
    <3> QED BY Zenon, <1>2, <1>5, <2>2, <3>1
  <2> QED BY Zenon, <2>1, <2>2
<1>10. ASSUME NEW a \in Accounts, NEW s \in Slots, NEW n \in 0 .. last, StorageWritten(a, s, n)
       PROVE  \E r \in All : r.key = storage_key(a, Incarnation(a, n), s) /\ r.block = n
  <2>1. CASE n \in 0 .. m
    BY <1>3, <1>10, <2>1 DEF RecordsOk
  <2>2. CASE n \in first .. last
    BY <1>5, <1>10, <2>2, PackageRecords
  <2> QED BY Zenon, <1>1, <2>1, <2>2
<1>11. \A r \in All, c \in Codes : r.key = code_key(c) => r.value = c
  BY <1>3, PackageRecords DEF RecordsOk
<1>12. \A a \in Accounts : Exists(a, 0) /\ CodeAt(a, 0) \in Codes =>
         \E r \in All : r.key = code_key(CodeAt(a, 0)) /\ r.block = 0
  BY Zenon, <1>3 DEF RecordsOk
<1>13. ASSUME NEW n \in 1 .. last, NEW c \in changed_codes(n)
       PROVE  \E r \in All : r.key = code_key(c) /\ r.block \in 0 .. n
  <2>1. CASE n \in 1 .. m
    BY Zenon, <1>3, <2>1 DEF RecordsOk
  <2>2. CASE n \in first .. last
    BY <2>2, PackageRecords
  <2> QED BY Zenon, <1>1, <2>1, <2>2
<1> HIDE DEF All
<1>14. RecordsOk(All, last)
  BY Zenon, <1>6, <1>7, <1>8, <1>9, <1>10, <1>11, <1>12, <1>13 DEF RecordsOk
<1> QED BY Zenon, <1>14 DEF All

\* Block zero: the anchor.
LEMMA GenesisRecords ==
    ASSUME ChainOk
    PROVE  RecordsOk(genesis_anchor(StateAt(0)), 0)
<1> DEFINE state == StateAt(0)
           alloc == {a \in Accounts : Exists(a, 0)}
           A(a) == Rec(account_key(a), 0, account_value(state[a], 0))
           S(a, s) == Rec(storage_key(a, 0, s), 0, Slot(a, s, 0))
           C(c) == Rec(code_key(c), 0, c)
           G == genesis_anchor(StateAt(0))
<1>1. \A r : r \in G <=> \/ \E a \in alloc : r = A(a)
                         \/ \E a \in alloc : \E s \in Slots : Slot(a, s, 0) # Zero /\ r = S(a, s)
                         \/ \E c \in {CodeAt(a, 0) : a \in alloc} \cap Codes : r = C(c)
  <2> DEFINE M == {Rec(storage_key(p[1], 0, p[2]), 0, state[p[1]].slots[p[2]]) :
                     p \in {q \in alloc \X Slots : state[q[1]].slots[q[2]] # Zero}}
  <2>1. \A r : r \in M <=> \E p \in alloc \X Slots : Slot(p[1], p[2], 0) # Zero /\ r = S(p[1], p[2])
    BY Zenon DEF Slot
  <2>2. G = {A(a) : a \in alloc} \cup M \cup {C(c) : c \in {CodeAt(a, 0) : a \in alloc} \cap Codes}
    BY Zenon DEF genesis_anchor, Exists, CodeAt
  <2> HIDE DEF M, G, A, S, C, alloc
  <2>3. \A r : r \in M <=> \E a \in alloc : \E s \in Slots : Slot(a, s, 0) # Zero /\ r = S(a, s)
    <3>1. \A p \in alloc \X Slots : p[1] \in alloc /\ p[2] \in Slots
      OBVIOUS
    <3>2. \A a \in alloc, s \in Slots :
            <<a, s>> \in alloc \X Slots /\ <<a, s>>[1] = a /\ <<a, s>>[2] = s
      OBVIOUS
    <3>3. ASSUME NEW a \in alloc, NEW s \in Slots, Slot(a, s, 0) # Zero
          PROVE  S(a, s) \in M
      <4> DEFINE q == <<a, s>>
      <4>1. q \in alloc \X Slots /\ q[1] = a /\ q[2] = s
        BY Zenon, <3>2
      <4> HIDE DEF q
      <4> QED BY Zenon, <2>1, <3>3, <4>1
    <3> QED BY Zenon, <2>1, <3>1, <3>3
  <2> QED BY <2>2, <2>3
<1>2. \A a : /\ A(a).key = account_key(a) /\ A(a).block = 0
             /\ A(a).value = account_value(state[a], 0)
  BY Zenon DEF Rec
<1>3. \A a, s : /\ S(a, s).key = storage_key(a, 0, s) /\ S(a, s).block = 0
                /\ S(a, s).value = Slot(a, s, 0)
  BY Zenon DEF Rec
<1>4. \A c : C(c).key = code_key(c) /\ C(c).block = 0 /\ C(c).value = c
  BY Zenon DEF Rec
<1>5. \A a \in Accounts : Incarnation(a, 0) = 0
  BY Zenon, FirstLife
<1>6. /\ \A a \in Accounts : AccountWritten(a, 0) <=> a \in alloc
      /\ \A a \in Accounts, s \in Slots : StorageWritten(a, s, 0) <=> a \in alloc /\ Slot(a, s, 0) # Zero
  BY Zenon DEF AccountWritten, StorageWritten
<1>7. alloc \subseteq Accounts /\ 0 .. 0 = {0} /\ 1 .. 0 = {}
  OBVIOUS
<1>8. \A a \in Accounts : Exists(a, 0) <=> a \in alloc
  BY Zenon
<1> HIDE DEF A, S, C, G, alloc
<1>9. \A r \in G : r.block = 0
  BY <1>1, <1>2, <1>3, <1>4
<1>10. ASSUME NEW r \in G, NEW a \in Accounts, r.key = account_key(a)
       PROVE  a \in alloc /\ r.value = account_value(state[a], 0)
  BY <1>1, <1>2, <1>3, <1>4, <1>10, Keys
<1>11. ASSUME NEW r \in G, NEW a \in Accounts, NEW i \in Nat, NEW s \in Slots, r.key = storage_key(a, i, s)
       PROVE  a \in alloc /\ Slot(a, s, 0) # Zero /\ i = 0 /\ r.value = Slot(a, s, 0)
  BY <1>1, <1>2, <1>3, <1>4, <1>11, Keys
<1>12. ASSUME NEW r \in G, NEW c \in Codes, r.key = code_key(c)
       PROVE  r.value = c
  BY <1>1, <1>2, <1>3, <1>4, <1>12, Keys
<1>13. \A a \in alloc : \E r \in G : r.key = account_key(a) /\ r.block = 0
  BY Zenon, <1>1, <1>2
<1>14. \A a \in alloc, s \in Slots : Slot(a, s, 0) # Zero => \E r \in G : r.key = storage_key(a, 0, s) /\ r.block = 0
  BY <1>1, <1>3
<1>15. \A a \in alloc : CodeAt(a, 0) \in Codes => \E r \in G : r.key = code_key(CodeAt(a, 0)) /\ r.block = 0
  BY Zenon, <1>1, <1>4
<1>16. RecordsOk(G, 0)
  BY <1>5, <1>6, <1>7, <1>8, <1>9, <1>10, <1>11, <1>12, <1>13, <1>14, <1>15 DEF RecordsOk
<1> QED BY Zenon, <1>16 DEF G

-----------------------------------------------------------------------------
(* What was said of mined blocks stays true *)

LEMMA Stable ==
    ASSUME ChainOk, \A n \in 0 .. Mined : StateAt(n)' = StateAt(n), \A n \in 1 .. Mined : wiped'[n] = wiped[n]
    PROVE  /\ \A n \in 0 .. Mined : RowsAt(n)' = RowsAt(n)
           /\ \A first \in Nat, last \in 0 .. Mined : 1 <= first =>
                Records(first, last)' = Records(first, last) /\ Seen(first, last)' = Seen(first, last)
           /\ \A n \in 0 .. Mined : \A records : RecordsOk(records, n) => RecordsOk(records, n)'
<1>1. /\ \A n \in 1 .. Mined : n \in 0 .. Mined /\ n - 1 \in 0 .. Mined
      /\ \A n \in 0 .. Mined : \A k \in 1 .. n : k \in 1 .. Mined /\ k - 1 \in 0 .. Mined /\ k \in 0 .. Mined
      /\ 0 \in 0 .. Mined
  BY MinedFacts
<1>2. \A n \in 0 .. Mined : /\ \A a : Exists(a, n)' = Exists(a, n)
                            /\ \A a : CodeAt(a, n)' = CodeAt(a, n)
                            /\ \A a, s : Slot(a, s, n)' = Slot(a, s, n)
  BY Zenon DEF Exists, CodeAt, Slot
<1>3. \A n \in 1 .. Mined : changed_accounts(n)' = changed_accounts(n)
  BY Zenon, <1>1 DEF changed_accounts
<1>4. \A n \in 1 .. Mined : \A a : changed_slots(n, a)' = changed_slots(n, a)
  BY Zenon, <1>1 DEF changed_slots
<1>5. \A n \in 1 .. Mined : changed_codes(n)' = changed_codes(n)
  BY Zenon, <1>1 DEF changed_codes
<1>6. \A n \in 0 .. Mined : \A a : HasRow(a, n)' <=> HasRow(a, n)
  BY Zenon, <1>1, <1>2, <1>3 DEF HasRow
<1>7. \A n \in 1 .. Mined : \A a : Reborn(a, n)' <=> Reborn(a, n)
  BY Zenon, <1>1, <1>2, <1>6 DEF Reborn
<1>8. \A n \in 0 .. Mined : \A a : Incarnation(a, n)' = Incarnation(a, n)
  <2> TAKE n \in 0 .. Mined
  <2> TAKE a
  <2>1. {m \in 1 .. n : Reborn(a, m)'} = {m \in 1 .. n : Reborn(a, m)}
    BY Zenon, <1>1, <1>7
  <2> QED BY Zenon, <2>1 DEF Incarnation
<1>9. \A n \in 0 .. Mined : \A a : RowAt(a, n)' = RowAt(a, n)
  BY Zenon, <1>2, <1>6, <1>8 DEF RowAt
<1>10. \A n \in 0 .. Mined : RowsAt(n)' = RowsAt(n)
  BY Zenon, <1>9 DEF RowsAt

<1>11. ASSUME NEW first \in Nat, NEW last \in 0 .. Mined, 1 <= first
       PROVE  Seen(first, last)' = Seen(first, last)
  <2>1. \A n \in first .. last : n \in 1 .. Mined
    BY <1>11, MinedFacts
  <2>2. {changed_codes(n)' : n \in first .. last} = {changed_codes(n) : n \in first .. last}
    BY Zenon, <1>5, <2>1
  <2> QED BY Zenon, <2>2 DEF Seen
<1>12. ASSUME NEW first \in Nat, NEW last \in 0 .. Mined, 1 <= first
       PROVE  Records(first, last)' = Records(first, last)
  <2>1. \A n \in first .. last : n \in 1 .. Mined /\ n - 1 \in 0 .. Mined
    BY <1>12, MinedFacts
  <2> DEFINE Fresh(n) == changed_codes(n) \ Seen(first, n - 1)
             B(n) == block_records(RowsAt(n), n, Fresh(n))
  <2>2. \A n \in first .. last : Fresh(n)' = Fresh(n)
    BY Zenon, <1>5, <1>11, <1>12, <2>1
  <2>3. \A n \in first .. last : B(n)' = B(n)
    <3> TAKE n \in first .. last
    <3> HIDE DEF Fresh
    <3>1. n \in 1 .. Mined /\ n \in 0 .. Mined
      BY Zenon, <1>1, <2>1
    <3>2. RowsAt(n)' = RowsAt(n) /\ Fresh(n)' = Fresh(n) /\ changed_accounts(n)' = changed_accounts(n)
          /\ StateAt(n)' = StateAt(n)
      BY Zenon, <1>3, <1>10, <2>2, <3>1
    <3>3. \A a : changed_slots(n, a)' = changed_slots(n, a)
      BY Zenon, <1>4, <3>1
    <3> QED BY <3>2, <3>3 DEF block_records
  <2>4. {B(n)' : n \in first .. last} = {B(n) : n \in first .. last}
    <3> HIDE DEF B
    <3> QED BY Zenon, <2>3
  <2> QED BY Zenon, <2>4 DEF Records
<1>13. ASSUME NEW n \in 0 .. Mined, NEW records, RecordsOk(records, n)
       PROVE  RecordsOk(records, n)'
  <2>1. \A k \in 0 .. n : k \in 0 .. Mined /\ (k # 0 => k \in 1 .. Mined)
    BY MinedFacts
  <2>2. \A k \in 0 .. n : \A a : AccountWritten(a, k)' <=> AccountWritten(a, k)
    BY Zenon, <1>1, <1>2, <1>3, <2>1 DEF AccountWritten
  <2>3. \A k \in 0 .. n : \A a, s : StorageWritten(a, s, k)' <=> StorageWritten(a, s, k)
    BY Zenon, <1>1, <1>2, <1>4, <2>1 DEF StorageWritten
  <2>4. \A r \in records : r.block \in 0 .. n
    BY Zenon, <1>13 DEF RecordsOk
  <2>5. \A k \in 1 .. n : changed_codes(k)' = changed_codes(k)
    BY Zenon, <1>1, <1>5
  <2>6. \A k \in 0 .. n : StateAt(k)' = StateAt(k) /\ \A a : Incarnation(a, k)' = Incarnation(a, k)
    BY Zenon, <1>8, <2>1
  <2>7. \A a : Exists(a, 0)' = Exists(a, 0) /\ CodeAt(a, 0)' = CodeAt(a, 0)
    BY Zenon, <1>1, <1>2
  <2>8. \A k \in 0 .. n : \A a, s : Slot(a, s, k)' = Slot(a, s, k)
    BY Zenon, <1>2, <2>1
  <2> QED BY <1>13, <2>2, <2>3, <2>4, <2>5, <2>6, <2>7, <2>8 DEF RecordsOk
<1> QED BY Zenon, <1>10, <1>11, <1>12, <1>13

\* A step keeps the blocks that are mined.
ChainKept ==
    /\ ChainOk' /\ Mined <= Mined'
    /\ \A n \in 0 .. Mined : StateAt(n)' = StateAt(n)
    /\ \A n \in 1 .. Mined : wiped'[n] = wiped[n]

LEMMA MineKeeps ==
    ASSUME ChainOk, NEW state \in States, NEW wipe \in SUBSET Accounts, Mine(state, wipe)
    PROVE  ChainKept
<1> USE DEF ChainOk, Mine
<1>1. chain' = Append(chain, state) /\ wiped' = Append(wiped, wipe)
  BY Zenon
<1>2. ChainOk' /\ Len(chain') = Len(chain) + 1 /\ Len(wiped') = Len(wiped) + 1
  BY <1>1
<1>3. Len(chain) \in Nat /\ Len(wiped) \in Nat /\ Mined = Len(wiped)
  BY DEF Mined
<1>4. Mined <= Mined'
  BY <1>2, <1>3 DEF Mined
<1>5. \A n \in 0 .. Mined : chain'[n + 1] = chain[n + 1]
  <2> TAKE n \in 0 .. Mined
  <2>1. n + 1 \in 1 .. Len(chain)
    BY <1>3
  <2> QED BY <1>1, <2>1
<1>6. \A n \in 1 .. Mined : wiped'[n] = wiped[n]
  BY <1>1, <1>3
<1> QED BY Zenon, <1>2, <1>4, <1>5, <1>6 DEF ChainKept, StateAt

LEMMA UnchangedKeeps ==
    ASSUME ChainOk, chain' = chain, wiped' = wiped
    PROVE  ChainKept /\ Mined' = Mined
<1>1. ChainOk' /\ Mined' = Mined
  BY Zenon DEF ChainOk, Mined
<1>2. Mined <= Mined'
  BY <1>1, MinedFacts
<1>3. \A n : StateAt(n)' = StateAt(n)
  BY Zenon DEF StateAt
<1> QED BY Zenon, <1>1, <1>2, <1>3 DEF ChainKept

LEMMA KeptFacts ==
    ASSUME ChainOk, ChainKept
    PROVE  /\ \A n \in 0 .. Mined : n \in 0 .. Mined'
           /\ \A n \in Int : n <= Mined => n <= Mined'
           /\ \A n \in 0 .. Mined : RowsAt(n)' = RowsAt(n)
           /\ \A first \in Nat, last \in 0 .. Mined : 1 <= first =>
                Records(first, last)' = Records(first, last) /\ Seen(first, last)' = Seen(first, last)
           /\ \A n \in 0 .. Mined : \A records : RecordsOk(records, n) => RecordsOk(records, n)'
           /\ \A package : PackageOk(package) => PackageOk(package)'
<1>1. ChainOk' /\ Mined <= Mined' /\ Mined \in Nat /\ Mined' \in Nat
  <2>1. Mined \in Nat
    BY Zenon, MinedFacts
  <2>2. ChainOk' => Len(wiped') \in Nat /\ Mined' = Len(wiped')
    BY DEF ChainOk, Mined
  <2> QED BY Zenon, <2>1, <2>2 DEF ChainKept
<1>2. \A n \in 0 .. Mined : n \in 0 .. Mined'
  BY <1>1
<1>3. \A n \in Int : n <= Mined => n <= Mined'
  BY <1>1
<1>4. /\ \A n \in 0 .. Mined : RowsAt(n)' = RowsAt(n)
      /\ \A first \in Nat, last \in 0 .. Mined : 1 <= first =>
           Records(first, last)' = Records(first, last) /\ Seen(first, last)' = Seen(first, last)
      /\ \A n \in 0 .. Mined : \A records : RecordsOk(records, n) => RecordsOk(records, n)'
  BY Zenon, Stable DEF ChainKept
<1>5. ASSUME NEW package, PackageOk(package) PROVE PackageOk(package)'
  <2>1. package \in [first : Nat, last : Nat, records : {package.records}]
    BY Zenon, <1>5 DEF PackageOk
  <2>2. package.first \in Nat /\ package.last \in Nat
    BY Zenon, <2>1
  <2>3. package.first \in 1 .. package.last /\ package.last <= Mined
        /\ package.records = Records(package.first, package.last)
    BY Zenon, <1>5 DEF PackageOk
  <2>4. 1 <= package.first /\ package.last \in 0 .. Mined
    BY <2>2, <2>3, <1>1
  <2>5. Records(package.first, package.last)' = Records(package.first, package.last)
    BY Zenon, <1>4, <2>2, <2>4
  <2>6. package.last <= Mined'
    BY <1>1, <2>2, <2>3
  <2> QED BY Zenon, <2>1, <2>3, <2>5, <2>6 DEF PackageOk
<1> QED BY Zenon, <1>2, <1>3, <1>4, <1>5

-----------------------------------------------------------------------------
(* The inductive invariant is one *)

LEMMA InitIInv ==
    ASSUME Init
    PROVE  IInv
<1>1. PICK state \in States :
        /\ chain = <<state>>
        /\ archive = [number |-> 0, records |-> genesis_anchor(state),
                      package |-> [first |-> 0, last |-> 0, records |-> genesis_anchor(state)]]
  BY Zenon DEF Init, States
<1>2. ChainOk /\ Mined = 0 /\ StateAt(0) = state
  <2>1. wiped = << >>
    BY Zenon DEF Init
  <2> QED BY <1>1, <2>1 DEF ChainOk, Mined, StateAt
<1>3. journal.last_block = 0 /\ journal.rows = [a \in Accounts |-> NoRow]
  BY DEF Init
<1>4. 0 \in 0 .. Mined
  BY <1>2
<1>5. JournalOk
  <2>1. \A a \in Accounts : RowAt(a, 0) = NoRow
    BY Zenon, FirstLife DEF RowAt
  <2> QED BY Zenon, <1>3, <1>4, <2>1 DEF JournalOk, RowsAt
<1>6. /\ archive.number = 0 /\ archive.records = genesis_anchor(state)
      /\ archive.package.first = 0 /\ archive.package.last = 0
  BY Zenon, <1>1
<1>7. ArchiveOk
  <2>1. RecordsOk(archive.records, archive.number)
    BY Zenon, <1>2, <1>6, GenesisRecords
  <2>2. ~(0 > 0)
    OBVIOUS
  <2> QED BY Zenon, <1>3, <1>4, <1>6, <2>1, <2>2 DEF ArchiveOk
<1>8. ExporterOk
  BY DEF Init, IdleExporter, ExporterOk
<1> QED BY Zenon, <1>2, <1>5, <1>7, <1>8 DEF IInv

LEMMA JournalKept ==
    ASSUME ChainOk, ChainKept, JournalOk, journal' = journal
    PROVE  JournalOk'
BY Zenon, KeptFacts DEF JournalOk

LEMMA ArchiveKept ==
    ASSUME ChainOk, ChainKept, ArchiveOk, archive' = archive, journal' = journal
    PROVE  ArchiveOk'
<1>1. archive.number \in 0 .. Mined /\ RecordsOk(archive.records, archive.number)
  BY Zenon DEF ArchiveOk
<1>2. archive.number \in 0 .. Mined' /\ RecordsOk(archive.records, archive.number)'
  BY Zenon, <1>1, KeptFacts
<1>3. PackageOk(archive.package) => PackageOk(archive.package)'
  BY Zenon, KeptFacts
<1> QED BY Zenon, <1>2, <1>3 DEF ArchiveOk

\* An exporter without a package in hand.
LEMMA ExporterResting ==
    ASSUME NEW pc \in {"idle", "refused"}, exp' = [IdleExporter EXCEPT !.pc = pc]
    PROVE  ExporterOk'
BY DEF IdleExporter, ExporterOk

LEMMA ExporterRunning ==
    ASSUME exp'.pc = "running", exp' = [pc |-> exp'.pc, until |-> exp'.until, next |-> exp'.next,
                                        package |-> exp'.package, rows |-> exp'.rows,
                                        seen_code |-> exp'.seen_code],
           exp'.until \in Nat, journal'.last_block < exp'.until, exp'.until <= Mined'
    PROVE  ExporterOk'
<1>1. exp'.pc \notin {"converting", "prepared", "published"}
  OBVIOUS
<1> QED BY Zenon, <1>1 DEF ExporterOk

LEMMA ExporterKept ==
    ASSUME ChainOk, ChainKept, JournalOk, ExporterOk, exp' = exp, journal' = journal, archive' = archive
    PROVE  ExporterOk'
<1>1. exp.until \in Nat /\ (exp.until <= Mined => exp.until <= Mined')
  <2>1. exp.until \in Nat /\ exp.until \in Int
    BY DEF ExporterOk
  <2> QED BY Zenon, <2>1, KeptFacts
<1>2. ASSUME ConvertingOk PROVE ConvertingOk'
  <2> DEFINE package == exp.package
  <2>0. journal.last_block \in Nat
    BY MinedFacts DEF JournalOk
  <2>1. /\ package \in [first : Nat, last : Nat, records : {package.records}]
        /\ package.first = journal.last_block + 1
        /\ exp.next \in package.first .. package.last
        /\ package.last <= exp.until /\ exp.until <= Mined
        /\ package.records = Records(package.first, exp.next - 1)
        /\ exp.rows = RowsAt(exp.next - 1)
        /\ exp.seen_code = Seen(package.first, exp.next - 1)
    BY Zenon, <1>2 DEF ConvertingOk
  <2>2. package.first \in Nat /\ package.last \in Nat
    BY Zenon, <2>1
  <2>3. exp.next - 1 \in 0 .. Mined /\ 1 <= package.first
    BY <1>1, <2>1, <2>2, MinedFacts, <2>0
  <2>4. /\ Records(package.first, exp.next - 1)' = Records(package.first, exp.next - 1)
        /\ Seen(package.first, exp.next - 1)' = Seen(package.first, exp.next - 1)
        /\ RowsAt(exp.next - 1)' = RowsAt(exp.next - 1)
    BY Zenon, <2>2, <2>3, KeptFacts
  <2> QED BY Zenon, <1>1, <2>1, <2>4 DEF ConvertingOk
<1>3. PackageOk(exp.package) => PackageOk(exp.package)'
  BY Zenon, KeptFacts
<1>4. ASSUME PackageOk(exp.package), exp.rows = RowsAt(exp.package.last) PROVE exp.rows = RowsAt(exp.package.last)'
  <2>1. exp.package.last \in 0 .. Mined
    <3>1. exp.package.last \in Nat /\ exp.package.last <= Mined
      BY Zenon, <1>4 DEF PackageOk
    <3> QED BY <3>1, MinedFacts
  <2> QED BY Zenon, <1>4, <2>1, KeptFacts
<1> QED BY Zenon, <1>1, <1>2, <1>3, <1>4 DEF ExporterOk

LEMMA StartIInv ==
    ASSUME IInv, NEW last \in Lasts, Start(last)
    PROVE  IInv'
<1>1. ChainOk /\ JournalOk /\ ArchiveOk /\ ExporterOk
  BY Zenon DEF IInv
<1>2. chain' = chain /\ wiped' = wiped /\ journal' = journal /\ archive' = archive
  BY Zenon DEF Start
<1>3. ChainKept /\ Mined' = Mined /\ ChainOk'
  BY Zenon, <1>1, <1>2, UnchangedKeeps DEF ChainKept
<1>4. exp' = [exp EXCEPT !.pc = "running", !.until = last] /\ journal.last_block < last /\ last <= Mined
  BY Zenon DEF Start
<1>5. exp = [pc |-> exp.pc, until |-> exp.until, next |-> exp.next, package |-> exp.package,
             rows |-> exp.rows, seen_code |-> exp.seen_code]
  BY Zenon, <1>1 DEF ExporterOk
<1>6. exp' = [pc |-> "running", until |-> last, next |-> exp.next, package |-> exp.package,
              rows |-> exp.rows, seen_code |-> exp.seen_code]
  BY Zenon, <1>4, <1>5
<1>7. last \in Nat
  BY Zenon, ExportAssumption
<1>8. exp'.pc = "running" /\ exp'.until = last
  BY Zenon, <1>6
<1>9. exp' = [pc |-> exp'.pc, until |-> exp'.until, next |-> exp'.next, package |-> exp'.package,
              rows |-> exp'.rows, seen_code |-> exp'.seen_code]
  BY <1>6
<1>10. ExporterOk'
  BY Zenon, <1>2, <1>3, <1>4, <1>7, <1>8, <1>9, ExporterRunning
<1> QED BY Zenon, <1>1, <1>2, <1>3, <1>10, JournalKept, ArchiveKept DEF IInv

LEMMA BeginIInv ==
    ASSUME IInv, Begin
    PROVE  IInv'
<1>1. ChainOk /\ JournalOk /\ ArchiveOk /\ ExporterOk
  BY Zenon DEF IInv
<1>2. chain' = chain /\ wiped' = wiped /\ journal' = journal /\ archive' = archive
  BY Zenon DEF Begin
<1>3. ChainKept /\ Mined' = Mined /\ ChainOk'
  BY Zenon, <1>1, <1>2, UnchangedKeeps DEF ChainKept
<1>4. /\ exp.pc = "running" /\ exp.until \in Nat /\ journal.last_block < exp.until /\ exp.until <= Mined
      /\ exp = [pc |-> exp.pc, until |-> exp.until, next |-> exp.next, package |-> exp.package,
                rows |-> exp.rows, seen_code |-> exp.seen_code]
  BY Zenon, <1>1 DEF ExporterOk, Begin
<1>5. journal.last_block \in 0 .. Mined /\ journal.rows = RowsAt(journal.last_block) /\ Mined \in Nat
  BY Zenon, <1>1, MinedFacts DEF JournalOk
<1>first. PICK first : first = journal.last_block + 1
  BY Zenon
<1>last. PICK last : last = IF first + Epoch - 1 <= exp.until THEN first + Epoch - 1 ELSE exp.until
  BY Zenon
<1>package. PICK package : package = [first |-> first, last |-> last, records |-> {}]
  BY Zenon
<1>6. exp' = [exp EXCEPT !.pc = "converting", !.next = first, !.rows = journal.rows, !.seen_code = {},
                 !.package = package]
  BY Zenon, <1>first, <1>last, <1>package DEF Begin
<1>7. /\ first \in Nat /\ last \in Nat /\ first <= last /\ last <= exp.until /\ 1 <= first
      /\ first - 1 = journal.last_block
  BY <1>4, <1>5, <1>first, <1>last, ExportAssumption
<1>8. /\ package \in [first : Nat, last : Nat, records : {package.records}]
      /\ package.first = first /\ package.last = last /\ package.records = {}
  BY Zenon, <1>7, <1>package
<1>9. exp' = [pc |-> "converting", until |-> exp.until, next |-> first, package |-> package,
              rows |-> journal.rows, seen_code |-> {}]
  BY Zenon, <1>4, <1>6
<1>10. /\ exp'.pc = "converting" /\ exp'.until = exp.until /\ exp'.next = first /\ exp'.package = package
       /\ exp'.rows = journal.rows /\ exp'.seen_code = {}
  BY Zenon, <1>9
<1>11. Records(first, first - 1)' = {} /\ Seen(first, first - 1)' = {}
  <2>1. first .. first - 1 = {}
    BY <1>7
  <2> QED BY Zenon, <2>1 DEF Records, Seen
<1>12. RowsAt(first - 1)' = journal.rows
  BY Zenon, <1>1, <1>3, <1>5, <1>7, KeptFacts
<1>13. first \in first .. last
  BY <1>7
<1>14. ConvertingOk'
  <2>1. package.first = journal'.last_block + 1
    BY Zenon, <1>2, <1>8, <1>first
  <2>2. exp'.until <= Mined' /\ package.last <= exp'.until
    BY Zenon, <1>3, <1>4, <1>7, <1>8, <1>10
  <2>3. /\ exp'.package.records = Records(exp.package.first, exp.next - 1)'
        /\ exp'.rows = RowsAt(exp.next - 1)'
        /\ exp'.seen_code = Seen(exp.package.first, exp.next - 1)'
    BY Zenon, <1>8, <1>10, <1>11, <1>12
  <2> QED BY Zenon, <1>8, <1>10, <1>13, <2>1, <2>2, <2>3 DEF ConvertingOk
<1>15. exp' = [pc |-> exp'.pc, until |-> exp'.until, next |-> exp'.next, package |-> exp'.package,
               rows |-> exp'.rows, seen_code |-> exp'.seen_code]
  BY <1>9
<1>16. exp'.pc \notin {"running", "prepared", "published"}
  BY <1>10
<1>17. ExporterOk'
  BY Zenon, <1>4, <1>10, <1>14, <1>15, <1>16 DEF ExporterOk
<1> QED BY Zenon, <1>1, <1>2, <1>3, <1>17, JournalKept, ArchiveKept DEF IInv

\* The exporter never fails on its own journal.
LEMMA ConvertConsistent ==
    ASSUME IInv, convert
    PROVE  /\ exp.next \in 1 .. Mined
           /\ rows_after(exp.rows, exp.next) = RowsAt(exp.next)
           /\ exp' = Converted(exp.next)
<1>1. ChainOk /\ JournalOk /\ ExporterOk /\ exp.pc = "converting"
  BY Zenon DEF IInv, convert
<1>2. ConvertingOk
  BY Zenon, <1>1 DEF ExporterOk
<1>3. exp.next \in 1 .. Mined
  <2>1. journal.last_block \in Nat /\ Mined \in Nat
    BY <1>1, MinedFacts DEF JournalOk
  <2>2. exp.package.first = journal.last_block + 1 /\ exp.next \in exp.package.first .. exp.package.last
        /\ exp.package.last <= exp.until /\ exp.until <= Mined
        /\ exp.package \in [first : Nat, last : Nat, records : {exp.package.records}]
    BY Zenon, <1>2 DEF ConvertingOk
  <2>3. exp.package.last \in Nat /\ exp.until \in Nat
    BY Zenon, <1>1, <2>2 DEF ExporterOk
  <2> QED BY <2>1, <2>2, <2>3
<1>4. exp.rows = RowsAt(exp.next - 1)
  BY Zenon, <1>2 DEF ConvertingOk
<1>5. rows_after(exp.rows, exp.next) = RowsAt(exp.next) /\ consistent(exp.rows, exp.next)
  BY Zenon, <1>1, <1>3, <1>4, RowsStep
<1> QED BY Zenon, <1>3, <1>5 DEF convert

LEMMA convertIInv ==
    ASSUME IInv, convert
    PROVE  IInv'
<1>1. ChainOk /\ JournalOk /\ ArchiveOk /\ ExporterOk
  BY Zenon DEF IInv
<1>2. chain' = chain /\ wiped' = wiped /\ journal' = journal /\ archive' = archive
  BY Zenon DEF convert
<1>3. ChainKept /\ Mined' = Mined /\ ChainOk' /\ Mined \in Nat
  BY Zenon, <1>1, <1>2, MinedFacts, UnchangedKeeps DEF ChainKept
<1>4. ConvertingOk
  BY Zenon, <1>1 DEF ExporterOk, convert
<1>n. PICK n : n = exp.next
  BY Zenon
<1>p. PICK p : p = exp.package
  BY Zenon
<1>5. /\ p \in [first : Nat, last : Nat, records : {p.records}]
      /\ p.first = journal.last_block + 1 /\ n \in p.first .. p.last
      /\ p.last <= exp.until /\ exp.until <= Mined
      /\ p.records = Records(p.first, n - 1) /\ exp.seen_code = Seen(p.first, n - 1)
  BY Zenon, <1>4, <1>n, <1>p DEF ConvertingOk
<1>6. p.first \in Nat /\ p.last \in Nat /\ exp.until \in Nat /\ journal.last_block \in Nat
  <2>1. journal.last_block \in Nat
    BY <1>1, <1>3 DEF JournalOk
  <2> QED BY Zenon, <1>1, <1>5, <2>1 DEF ExporterOk
<1>7. n \in Nat /\ p.first <= n /\ n <= p.last /\ 1 <= p.first /\ n \in 0 .. Mined /\ (n + 1) - 1 = n
  BY <1>3, <1>5, <1>6
<1>8. /\ Seen(p.first, n) = exp.seen_code \cup changed_codes(n)
      /\ Records(p.first, n) = p.records \cup block_records(RowsAt(n), n, changed_codes(n) \ exp.seen_code)
  <2>1. /\ Seen(p.first, n) = Seen(p.first, n - 1) \cup changed_codes(n)
        /\ Records(p.first, n) = Records(p.first, n - 1)
             \cup block_records(RowsAt(n), n, changed_codes(n) \ Seen(p.first, n - 1))
    BY Zenon, <1>6, <1>7, PackageStep
  <2> QED BY Zenon, <1>5, <2>1
<1>9. rows_after(exp.rows, n) = RowsAt(n) /\ exp' = Converted(n)
  BY Zenon, <1>n, ConvertConsistent
<1>q. PICK q : q = [p EXCEPT !.records = Records(p.first, n)]
  BY Zenon
<1>10. q \in [first : Nat, last : Nat, records : {q.records}] /\ q.first = p.first /\ q.last = p.last
       /\ q.records = Records(p.first, n)
  BY <1>5, <1>q
<1>11. exp' = [exp EXCEPT !.pc = IF n = p.last THEN "prepared" ELSE "converting",
                  !.next = n + 1, !.rows = RowsAt(n), !.seen_code = Seen(p.first, n), !.package = q]
  BY Zenon, <1>8, <1>9, <1>p, <1>q DEF Converted
<1>12. exp = [pc |-> exp.pc, until |-> exp.until, next |-> exp.next, package |-> exp.package,
              rows |-> exp.rows, seen_code |-> exp.seen_code]
  BY Zenon, <1>1 DEF ExporterOk
<1>13. exp' = [pc |-> IF n = p.last THEN "prepared" ELSE "converting", until |-> exp.until, next |-> n + 1,
               package |-> q, rows |-> RowsAt(n), seen_code |-> Seen(p.first, n)]
  BY Zenon, <1>11, <1>12
<1>14. /\ exp'.pc = IF n = p.last THEN "prepared" ELSE "converting"
       /\ exp'.until = exp.until /\ exp'.next = n + 1 /\ exp'.package = q
       /\ exp'.rows = RowsAt(n) /\ exp'.seen_code = Seen(p.first, n)
       /\ exp' = [pc |-> exp'.pc, until |-> exp'.until, next |-> exp'.next, package |-> exp'.package,
                  rows |-> exp'.rows, seen_code |-> exp'.seen_code]
  BY <1>13
<1>15. /\ RowsAt(n)' = RowsAt(n) /\ Records(p.first, n)' = Records(p.first, n)
       /\ Seen(p.first, n)' = Seen(p.first, n)
  BY Zenon, <1>1, <1>3, <1>6, <1>7, KeptFacts
<1>16. ASSUME n = p.last PROVE ExporterOk'
  <2>1. exp'.pc = "prepared"
    BY Zenon, <1>14, <1>16
  <2>2. p.first \in 1 .. p.last /\ p.last <= Mined
    BY <1>3, <1>5, <1>6, <1>7
  <2>3. PackageOk(q)'
    BY Zenon, <1>3, <1>10, <1>15, <1>16, <2>2 DEF PackageOk
  <2>4. exp'.pc \notin {"running", "converting", "published"} /\ exp'.pc \in {"prepared"}
    BY <2>1
  <2>5. exp'.rows = RowsAt(q.last)'
    BY Zenon, <1>10, <1>14, <1>15, <1>16
  <2>6. q.last <= exp'.until /\ exp'.until <= Mined' /\ q.first = journal'.last_block + 1 /\ exp'.until \in Nat
    BY Zenon, <1>2, <1>3, <1>5, <1>6, <1>10, <1>14
  <2>7. PackageOk(exp.package)' /\ exp'.rows = RowsAt(exp.package.last)'
    BY Zenon, <1>14, <2>3, <2>5
  <2>8. exp'.package.first = journal'.last_block + 1 /\ exp'.package.last <= exp'.until
        /\ exp' = [pc |-> exp'.pc, until |-> exp'.until, next |-> exp'.next, package |-> exp'.package,
                   rows |-> exp'.rows, seen_code |-> exp'.seen_code]
    BY Zenon, <1>14, <2>6
  <2> QED BY Zenon, <2>1, <2>4, <2>6, <2>7, <2>8 DEF ExporterOk
<1>17. ASSUME n # p.last PROVE ExporterOk'
  <2>1. exp'.pc = "converting"
    BY Zenon, <1>14, <1>17
  <2>2. n + 1 \in p.first .. p.last
    BY <1>6, <1>7, <1>17
  <2>3. /\ exp'.package.records = Records(exp.package.first, exp.next - 1)'
        /\ exp'.rows = RowsAt(exp.next - 1)'
        /\ exp'.seen_code = Seen(exp.package.first, exp.next - 1)'
    BY Zenon, <1>7, <1>10, <1>14, <1>15
  <2>4. ConvertingOk'
    BY Zenon, <1>2, <1>3, <1>5, <1>10, <1>14, <2>2, <2>3 DEF ConvertingOk
  <2>5. exp'.pc \notin {"running", "prepared", "published"}
    BY <2>1
  <2>6. exp'.until \in Nat
        /\ exp' = [pc |-> exp'.pc, until |-> exp'.until, next |-> exp'.next, package |-> exp'.package,
                   rows |-> exp'.rows, seen_code |-> exp'.seen_code]
    BY Zenon, <1>6, <1>14
  <2> QED BY Zenon, <2>1, <2>4, <2>5, <2>6 DEF ExporterOk
<1> QED BY Zenon, <1>1, <1>2, <1>3, <1>16, <1>17, JournalKept, ArchiveKept DEF IInv

LEMMA PublishIInv ==
    ASSUME IInv, Publish
    PROVE  IInv'
<1>1. ChainOk /\ JournalOk /\ ArchiveOk /\ ExporterOk
  BY Zenon DEF IInv
<1>2. chain' = chain /\ wiped' = wiped /\ journal' = journal
  BY Zenon DEF Publish
<1>3. ChainKept /\ Mined' = Mined /\ ChainOk' /\ Mined \in Nat
  BY Zenon, <1>1, <1>2, MinedFacts, UnchangedKeeps DEF ChainKept
<1>p. PICK p : p = exp.package
  BY Zenon
<1>4. /\ PackageOk(p) /\ p.first = journal.last_block + 1
      /\ exp.rows = RowsAt(p.last) /\ exp.until \in Nat /\ p.last <= exp.until /\ exp.until <= Mined
  <2>1. exp.pc \in {"prepared", "published"}
    BY DEF Publish
  <2> QED BY Zenon, <1>1, <1>p, <2>1 DEF ExporterOk
<1>5. /\ p \in [first : Nat, last : Nat, records : {p.records}]
      /\ p.first \in 1 .. p.last /\ p.last <= Mined /\ p.records = Records(p.first, p.last)
  BY Zenon, <1>4 DEF PackageOk
<1>6. /\ p.first \in Nat /\ p.last \in Nat /\ 1 <= p.first /\ p.first <= p.last
      /\ p.last \in 0 .. Mined /\ p.last > 0 /\ p.last # 0
  <2>1. p.first \in Nat /\ p.last \in Nat
    BY Zenon, <1>5
  <2> QED BY <1>3, <1>5, <2>1
<1>7. PackageOk(p)' /\ RowsAt(p.last)' = RowsAt(p.last)
  BY Zenon, <1>1, <1>3, <1>4, <1>6, KeptFacts
<1>8. exp = [pc |-> exp.pc, until |-> exp.until, next |-> exp.next, package |-> exp.package,
             rows |-> exp.rows, seen_code |-> exp.seen_code]
  BY Zenon, <1>1 DEF ExporterOk
<1>9. exp' = [exp EXCEPT !.pc = "published"]
  BY Zenon DEF Publish
<1>10. exp' = [pc |-> "published", until |-> exp.until, next |-> exp.next, package |-> exp.package,
               rows |-> exp.rows, seen_code |-> exp.seen_code]
  BY <1>8, <1>9
<1>11. /\ exp'.pc = "published" /\ exp'.until = exp.until /\ exp'.package = p /\ exp'.rows = exp.rows
       /\ exp' = [pc |-> exp'.pc, until |-> exp'.until, next |-> exp'.next, package |-> exp'.package,
                  rows |-> exp'.rows, seen_code |-> exp'.seen_code]
  BY <1>10, <1>p
<1>12. archive'.package = p => ExporterOk'
  <2>1. exp'.pc \notin {"running", "converting"}
    BY <1>11
  <2>2. PackageOk(exp.package)' /\ exp'.rows = RowsAt(exp.package.last)'
    BY Zenon, <1>4, <1>7, <1>11
  <2> QED BY Zenon, <1>2, <1>3, <1>4, <1>11, <2>1, <2>2 DEF ExporterOk
<1>13. CASE archive.package = p
  <2>1. archive' = archive
    BY Zenon, <1>13, <1>p DEF Publish
  <2> QED BY Zenon, <1>1, <1>2, <1>3, <1>12, <1>13, <2>1, JournalKept, ArchiveKept DEF IInv
<1>14. CASE archive.package # p
  <2>1. /\ archive.number + 1 = p.first
        /\ archive' = [number |-> p.last, package |-> p, records |-> archive.records \cup p.records]
    BY Zenon, <1>14, <1>p DEF Publish, Appendable
  <2>2. archive'.number = p.last /\ archive'.package = p /\ archive'.records = archive.records \cup p.records
    BY Zenon, <2>1
  <2>3. archive.number = p.first - 1 /\ journal.last_block = p.first - 1
    <3>1. archive.number \in Nat /\ journal.last_block \in Nat
      BY <1>1, <1>3 DEF ArchiveOk, JournalOk
    <3> QED BY <1>4, <1>6, <2>1, <3>1
  <2>4. RecordsOk(archive.records \cup p.records, p.last)
    <3>1. RecordsOk(archive.records, p.first - 1)
      BY Zenon, <1>1, <2>3 DEF ArchiveOk
    <3>2. p.last <= Mined
      BY Zenon, <1>5
    <3> QED BY Zenon, <1>1, <1>5, <1>6, <3>1, <3>2, PublishedRecords
  <2>5. RecordsOk(archive.records, archive.number)'
    BY Zenon, <1>1, <1>3, <1>6, <2>2, <2>4, KeptFacts
  <2>6. PackageOk(archive.package)'
    BY Zenon, <1>7, <2>2
  <2>7. ArchiveOk'
    BY Zenon, <1>2, <1>3, <1>6, <2>2, <2>3, <2>5, <2>6 DEF ArchiveOk
  <2> QED BY Zenon, <1>1, <1>2, <1>3, <1>12, <2>2, <2>7, JournalKept DEF IInv
<1> QED BY Zenon, <1>13, <1>14

LEMMA CommitIInv ==
    ASSUME IInv, Commit
    PROVE  IInv'
<1>1. ChainOk /\ JournalOk /\ ArchiveOk /\ ExporterOk
  BY Zenon DEF IInv
<1>2. chain' = chain /\ wiped' = wiped /\ archive' = archive
  BY Zenon DEF Commit
<1>3. ChainKept /\ Mined' = Mined /\ ChainOk' /\ Mined \in Nat
  BY Zenon, <1>1, <1>2, MinedFacts, UnchangedKeeps DEF ChainKept
<1>p. PICK p : p = exp.package
  BY Zenon
<1>4. /\ PackageOk(p) /\ exp.rows = RowsAt(p.last) /\ exp.until \in Nat /\ p.last <= exp.until
      /\ exp.until <= Mined /\ archive.package = p
  <2>1. exp.pc = "published" /\ exp.pc \in {"prepared", "published"}
    BY DEF Commit
  <2> QED BY Zenon, <1>1, <1>p, <2>1 DEF ExporterOk
<1>5. p.last \in Nat /\ p.last \in 0 .. Mined
  <2>1. p.last \in Nat /\ p.last <= Mined
    BY Zenon, <1>4 DEF PackageOk
  <2> QED BY <1>3, <2>1
<1>6. journal' = [last_block |-> p.last, rows |-> exp.rows]
  BY Zenon, <1>p DEF Commit
<1>7. journal'.last_block = p.last /\ journal'.rows = RowsAt(p.last)
  BY Zenon, <1>4, <1>6
<1>8. JournalOk'
  <2>1. RowsAt(p.last)' = RowsAt(p.last)
    BY Zenon, <1>1, <1>3, <1>5, KeptFacts
  <2> QED BY Zenon, <1>3, <1>5, <1>7, <2>1 DEF JournalOk
<1>9. ArchiveOk'
  <2>1. archive.number = p.last
    BY Zenon, <1>1, <1>4 DEF ArchiveOk
  <2>2. archive.number \in 0 .. Mined /\ RecordsOk(archive.records, archive.number)
    BY Zenon, <1>1 DEF ArchiveOk
  <2>3. RecordsOk(archive.records, archive.number)'
    BY Zenon, <1>1, <1>2, <1>3, <2>2, KeptFacts
  <2>4. PackageOk(archive.package) => PackageOk(archive.package)'
    BY Zenon, <1>1, <1>2, <1>3, KeptFacts
  <2> QED BY Zenon, <1>1, <1>2, <1>3, <1>7, <2>1, <2>3, <2>4 DEF ArchiveOk
<1>10. ExporterOk'
  <2>1. CASE p.last = exp.until
    <3>1. exp' = [IdleExporter EXCEPT !.pc = "idle"]
      BY <1>p, <2>1 DEF Commit, IdleExporter
    <3> QED BY Zenon, <3>1, ExporterResting
  <2>2. CASE p.last # exp.until
    <3>1. exp' = [IdleExporter EXCEPT !.pc = "running", !.until = exp.until]
      BY Zenon, <1>p, <2>2 DEF Commit
    <3>2. /\ exp'.pc = "running" /\ exp'.until = exp.until
          /\ exp' = [pc |-> exp'.pc, until |-> exp'.until, next |-> exp'.next, package |-> exp'.package,
                     rows |-> exp'.rows, seen_code |-> exp'.seen_code]
      BY Zenon, <3>1 DEF IdleExporter
    <3>3. p.last < exp.until
      BY <1>4, <1>5, <2>2
    <3> QED BY Zenon, <1>3, <1>4, <1>7, <3>2, <3>3, ExporterRunning
  <2> QED BY Zenon, <2>1, <2>2
<1> QED BY Zenon, <1>3, <1>8, <1>9, <1>10 DEF IInv

LEMMA StopsIInv ==
    ASSUME IInv, PublishRefused \/ Crash
    PROVE  IInv'
<1>1. ChainOk /\ JournalOk /\ ArchiveOk /\ ExporterOk
  BY Zenon DEF IInv
<1>2. chain' = chain /\ wiped' = wiped /\ journal' = journal /\ archive' = archive
  BY Zenon DEF PublishRefused, Crash
<1>3. ChainKept /\ ChainOk'
  BY Zenon, <1>1, <1>2, UnchangedKeeps DEF ChainKept
<1>4. \E pc \in {"idle", "refused"} : exp' = [IdleExporter EXCEPT !.pc = pc]
  BY DEF PublishRefused, Crash, IdleExporter
<1>5. ExporterOk'
  BY Zenon, <1>4, ExporterResting
<1> QED BY Zenon, <1>1, <1>2, <1>3, <1>5, JournalKept, ArchiveKept DEF IInv

LEMMA NextIInv ==
    ASSUME IInv, [Next]_vars
    PROVE  IInv'
<1>1. ChainOk /\ JournalOk /\ ArchiveOk /\ ExporterOk
  BY Zenon DEF IInv
<1>2. ASSUME NEW state \in States, NEW wipe \in SUBSET Accounts, Mine(state, wipe)
      PROVE  IInv'
  <2>1. ChainKept /\ ChainOk'
    BY Zenon, <1>1, <1>2, MineKeeps DEF ChainKept
  <2>2. journal' = journal /\ archive' = archive /\ exp' = exp
    BY Zenon, <1>2 DEF Mine
  <2> QED BY Zenon, <1>1, <2>1, <2>2, JournalKept, ArchiveKept, ExporterKept DEF IInv
<1>3. CASE UNCHANGED vars
  <2>1. chain' = chain /\ wiped' = wiped /\ journal' = journal /\ archive' = archive /\ exp' = exp
    BY Zenon, <1>3 DEF vars
  <2>2. ChainKept /\ ChainOk'
    BY Zenon, <1>1, <2>1, UnchangedKeeps DEF ChainKept
  <2> QED BY Zenon, <1>1, <2>1, <2>2, JournalKept, ArchiveKept, ExporterKept DEF IInv
<1>4. CASE Next
  BY Zenon, <1>2, <1>4, StartIInv, BeginIInv, convertIInv, PublishIInv, StopsIInv, CommitIInv DEF Next, States
<1> QED BY Zenon, <1>3, <1>4

\* What the exporter has in its journal, in its transaction and in the archive
\* is what the chain alone determines, whatever was lost on the way.
THEOREM ExportInvariant == Spec => []IInv
<1>1. Init => IInv
  BY Zenon, InitIInv
<1>2. IInv /\ [Next]_vars => IInv'
  BY Zenon, NextIInv
<1> QED BY <1>1, <1>2, PTL DEF Spec

\* A restart gets through: the exporter never fails on its own journal, and
\* started again for the same blocks it arrives at the published package.
THEOREM RestartGetsThroughHolds == Spec => []RestartGetsThrough
<1>1. IInv => RestartGetsThrough
  <2> SUFFICES ASSUME IInv PROVE RestartGetsThrough
    OBVIOUS
  <2>1. ExporterOk /\ ArchiveOk /\ ChainOk /\ JournalOk
    BY Zenon DEF IInv
  <2>2. exp.pc # "failed"
    BY <2>1 DEF ExporterOk
  <2>3. ASSUME exp.pc = "prepared", exp.package.last = archive.number
        PROVE  exp.package = archive.package
    <3> DEFINE e == exp.package
               p == archive.package
    <3>1. PackageOk(e) /\ e.first = journal.last_block + 1
      <4>1. exp.pc \in {"prepared", "published"}
        BY <2>3
      <4> QED BY Zenon, <2>1, <4>1 DEF ExporterOk
    <3>2. e \in [first : Nat, last : Nat, records : {e.records}] /\ e.first \in 1 .. e.last
          /\ e.records = Records(e.first, e.last)
      BY Zenon, <3>1 DEF PackageOk
    <3>3. archive.number > 0 /\ journal.last_block # archive.number /\ e.first \in Nat
      <4>1. e.first \in Nat /\ e.last \in Nat
        BY Zenon, <3>2
      <4>2. journal.last_block \in Nat
        BY <2>1, MinedFacts DEF JournalOk
      <4> QED BY <2>3, <3>1, <3>2, <4>1, <4>2
    <3>4. PackageOk(p) /\ p.last = archive.number /\ journal.last_block = p.first - 1
      BY Zenon, <2>1, <3>3 DEF ArchiveOk
    <3>5. p \in [first : Nat, last : Nat, records : {p.records}] /\ p.records = Records(p.first, p.last)
      BY Zenon, <3>4 DEF PackageOk
    <3>6. p.first = e.first
      <4>1. p.first \in Nat
        BY Zenon, <3>5
      <4> QED BY <3>1, <3>3, <3>4, <4>1
    <3>7. p.last = e.last /\ p.records = e.records
      BY Zenon, <2>3, <3>2, <3>4, <3>5, <3>6
    <3> HIDE DEF e, p
    <3>8. e = p
      BY <3>2, <3>5, <3>6, <3>7
    <3> QED BY Zenon, <3>8 DEF e, p
  <2> QED BY Zenon, <2>2, <2>3 DEF RestartGetsThrough
<1> QED BY <1>1, ExportInvariant, PTL

-----------------------------------------------------------------------------
(* Lookups *)

LEMMA Greatest ==
    ASSUME NEW b \in Nat, NEW T \in SUBSET (0 .. b), T # {}
    PROVE  \E m \in T : \A k \in T : k <= m
<1> DEFINE D == {b - x : x \in T}
<1>1. D \in SUBSET Nat /\ D # {}
  <2>1. \A x \in 0 .. b : b - x \in Nat
    OBVIOUS
  <2>2. \A x \in T : b - x \in Nat
    BY Zenon, <2>1
  <2> QED BY Zenon, <2>2
<1>2. PICK d \in D : \A e \in D : d <= e
  <2> HIDE DEF D
  <2> QED BY Zenon, <1>1, Least
<1>3. PICK m \in T : d = b - m
  BY Zenon, <1>2
<1>4. \A k \in T : b - m <= b - k
  BY Zenon, <1>2, <1>3
<1>5. \A k \in T : k \in Int
  OBVIOUS
<1>6. ASSUME NEW k \in T PROVE k <= m
  <2>1. k \in Int /\ m \in Int /\ b - m <= b - k
    BY Zenon, <1>4, <1>5
  <2> QED BY <2>1
<1> QED BY Zenon, <1>6

Versions(key, b) == {r \in archive.records : r.key = key /\ r.block <= b}

\* A lookup answers with a newest version.
LEMMA LookupNewest ==
    ASSUME NEW key, NEW b \in Nat, \A r \in archive.records : r.block \in Nat
    PROVE  /\ Versions(key, b) = {} => lookup(key, b) = NoRow
           /\ Versions(key, b) # {} => \E r \in Versions(key, b) :
                /\ \A o \in Versions(key, b) : o.block <= r.block
                /\ lookup(key, b) = r.value
<1> DEFINE V == Versions(key, b)
           newest == CHOOSE r \in V : \A o \in V : o.block <= r.block
<1>1. lookup(key, b) = IF V = {} THEN NoRow ELSE newest.value
  BY Zenon DEF lookup, Versions
<1>2. ASSUME V # {} PROVE newest \in V /\ \A o \in V : o.block <= newest.block
  <2> DEFINE T == {r.block : r \in V}
  <2>1. \A r \in V : r.block \in 0 .. b
    BY DEF Versions
  <2> HIDE DEF V
  <2>2. T \in SUBSET (0 .. b) /\ T # {}
    BY Zenon, <1>2, <2>1
  <2>3. PICK m \in T : \A k \in T : k <= m
    <3> HIDE DEF T
    <3> QED BY Zenon, <2>2, Greatest
  <2>4. \E r \in V : \A o \in V : o.block <= r.block
    BY Zenon, <2>3
  <2> QED BY Zenon, <2>4
<1> HIDE DEF newest
<1> QED BY Zenon, <1>1, <1>2

\* A version of the block asked for is the answer.
LEMMA LookupHere ==
    ASSUME NEW key, NEW b \in Nat, NEW value, \A r \in archive.records : r.block \in Nat,
           \E r \in archive.records : r.key = key /\ r.block = b,
           \A r \in archive.records : r.key = key /\ r.block = b => r.value = value
    PROVE  lookup(key, b) = value
<1>1. PICK here \in archive.records : here.key = key /\ here.block = b
  BY Zenon
<1>2. b <= b
  OBVIOUS
<1>3. here \in Versions(key, b)
  BY Zenon, <1>1, <1>2 DEF Versions
<1>4. PICK r \in Versions(key, b) : (\A o \in Versions(key, b) : o.block <= r.block) /\ lookup(key, b) = r.value
  BY Zenon, <1>3, LookupNewest
<1>5. r \in archive.records /\ r.key = key /\ r.block <= b /\ b <= r.block
  BY Zenon, <1>1, <1>3, <1>4 DEF Versions
<1>6. r.block = b
  <2>1. r.block \in Nat
    BY Zenon, <1>5
  <2> QED BY <1>5, <2>1
<1> QED BY Zenon, <1>4, <1>5, <1>6

\* Without one the block before has the same answer.
LEMMA LookupBefore ==
    ASSUME NEW key, NEW b \in Nat \ {0}, \A r \in archive.records : r.block \in Nat,
           \A r \in archive.records : r.key = key => r.block # b
    PROVE  lookup(key, b) = lookup(key, b - 1)
<1>1. \A k \in Nat : k # b => (k <= b <=> k <= b - 1)
  OBVIOUS
<1>2. \A r \in archive.records : r.key = key => (r.block <= b <=> r.block <= b - 1)
  BY Zenon, <1>1
<1>3. Versions(key, b) = Versions(key, b - 1)
  BY Zenon, <1>2 DEF Versions
<1>4. \A n : lookup(key, n) = IF Versions(key, n) = {} THEN NoRow
        ELSE (CHOOSE r \in Versions(key, n) : \A o \in Versions(key, n) : o.block <= r.block).value
  BY Zenon DEF lookup, Versions
<1> QED BY Zenon, <1>3, <1>4

LEMMA LookupNothing ==
    ASSUME NEW key, NEW b \in Nat, \A r \in archive.records : r.block \in Nat,
           \A r \in archive.records : r.key = key => ~(r.block <= b)
    PROVE  lookup(key, b) = NoRow
<1>1. Versions(key, b) = {}
  BY Zenon DEF Versions
<1> QED BY Zenon, <1>1, LookupNewest

-----------------------------------------------------------------------------
(* Reads *)

LEMMA ArchiveFacts ==
    ASSUME IInv
    PROVE  /\ ChainOk /\ archive.number \in Nat
           /\ RecordsOk(archive.records, archive.number)
           /\ \A n \in 0 .. archive.number : n \in 0 .. Mined
           /\ \A r \in archive.records : r.block \in Nat
<1>1. ChainOk /\ archive.number \in 0 .. Mined /\ RecordsOk(archive.records, archive.number)
  BY Zenon DEF IInv, ArchiveOk
<1>2. archive.number \in Nat /\ \A n \in 0 .. archive.number : n \in 0 .. Mined /\ n \in Nat
  BY <1>1, MinedFacts
<1>3. \A r \in archive.records : r.block \in Nat
  BY Zenon, <1>1, <1>2 DEF RecordsOk
<1> QED BY Zenon, <1>1, <1>2, <1>3

\* What the archive has of an account: nothing, of one that never was there, or
\* what it was at the block.
AccountRead(a, b) ==
    \/ lookup(account_key(a), b) = NoRow /\ ~Exists(a, b) /\ ~HasRow(a, b)
    \/ lookup(account_key(a), b) = account_value(StateAt(b)[a], Incarnation(a, b))

LEMMA AccountWrittenHere ==
    ASSUME IInv, NEW a \in Accounts, NEW b \in 0 .. archive.number, AccountWritten(a, b)
    PROVE  AccountRead(a, b)
<1>1. RecordsOk(archive.records, archive.number) /\ \A r \in archive.records : r.block \in Nat
  BY Zenon, ArchiveFacts
<1>2. b \in Nat
  BY ArchiveFacts
<1>3. \E r \in archive.records : r.key = account_key(a) /\ r.block = b
  BY Zenon, <1>1 DEF RecordsOk
<1>4. \A r \in archive.records : r.key = account_key(a) /\ r.block = b =>
        r.value = account_value(StateAt(b)[a], Incarnation(a, b))
  BY <1>1 DEF RecordsOk
<1>5. lookup(account_key(a), b) = account_value(StateAt(b)[a], Incarnation(a, b))
  BY <1>1, <1>2, <1>3, <1>4, LookupHere
<1> QED BY Zenon, <1>5 DEF AccountRead

LEMMA AccountReads ==
    ASSUME IInv, NEW a \in Accounts, NEW b \in 0 .. archive.number
    PROVE  AccountRead(a, b)
<1> DEFINE N == archive.number
           S == {n \in Nat : n \in 0 .. N => AccountRead(a, n)}
<1>1. ChainOk /\ N \in Nat /\ RecordsOk(archive.records, N)
      /\ (\A n \in 0 .. N : n \in 0 .. Mined) /\ \A r \in archive.records : r.block \in Nat
  BY Zenon, ArchiveFacts
<1>2. \A r \in archive.records : r.key = account_key(a) => AccountWritten(a, r.block)
  BY Zenon, <1>1 DEF RecordsOk
<1>3. 0 \in S
  <2>1. 0 \in Nat /\ 0 \in 0 .. N
    BY <1>1
  <2>2. CASE ~AccountWritten(a, 0)
    <3>1. \A k \in Nat : k # 0 => ~(k <= 0)
      OBVIOUS
    <3>2. lookup(account_key(a), 0) = NoRow
      BY Zenon, <1>1, <1>2, <2>1, <2>2, <3>1, LookupNothing
    <3>3. ~Exists(a, 0) /\ ~HasRow(a, 0)
      BY Zenon, <2>2, FirstLife DEF AccountWritten
    <3> QED BY Zenon, <2>1, <3>2, <3>3 DEF AccountRead
  <2> QED BY Zenon, <2>1, <2>2, AccountWrittenHere
<1>4. ASSUME NEW n \in Nat, n \in S PROVE n + 1 \in S
  <2>n. PICK m : m = n + 1
    BY Zenon
  <2>1. SUFFICES ASSUME m \in 0 .. N PROVE AccountRead(a, m)
    <3>1. m \in Nat
      BY <2>n
    <3> QED BY Zenon, <2>n, <3>1
  <2>2. m \in Nat \ {0} /\ m - 1 = n /\ n \in 0 .. N /\ m \in 1 .. Mined
    <3>1. m \in 0 .. Mined
      BY Zenon, <1>1, <2>1
    <3> QED BY <1>1, <2>n, <2>1, <3>1, MinedFacts
  <2>3. AccountRead(a, n)
    BY Zenon, <1>4, <2>2
  <2>4. CASE AccountWritten(a, m)
    BY Zenon, <2>1, <2>4, AccountWrittenHere
  <2>5. CASE ~AccountWritten(a, m)
    <3>1. a \notin changed_accounts(m)
      BY Zenon, <2>2, <2>5 DEF AccountWritten
    <3>2. Exists(a, n) = Exists(a, m) /\ CodeAt(a, n) = CodeAt(a, m) /\ a \notin wiped[m]
      BY Zenon, <2>2, <3>1, ProbeFacts
    <3>3. HasRow(a, m) <=> HasRow(a, n)
      BY Zenon, <2>2, <3>1, HasRowStep
    <3>4. ~Reborn(a, m)
      BY Zenon, <2>2, <3>2 DEF Reborn
    <3>5. Incarnation(a, m) = Incarnation(a, n)
      BY Zenon, <2>2, <3>4, IncarnationStep
    <3>6. lookup(account_key(a), m) = lookup(account_key(a), n)
      BY Zenon, <1>1, <1>2, <2>2, <2>5, LookupBefore
    <3>7. account_value(StateAt(m)[a], Incarnation(a, m)) = account_value(StateAt(n)[a], Incarnation(a, n))
      BY Zenon, <3>2, <3>5 DEF account_value, Exists, CodeAt
    <3> QED BY Zenon, <2>3, <3>2, <3>3, <3>6, <3>7 DEF AccountRead
  <2> QED BY Zenon, <2>4, <2>5
<1>5. b \in Nat
  BY <1>1
<1>6. b \in S
  <2> HIDE DEF S
  <2> QED BY Zenon, <1>3, <1>4, <1>5, BlockInduction
<1> QED BY Zenon, <1>6

\* An account without a row that is not there has never been there.
LEMMA NeverThere ==
    ASSUME ChainOk, NEW a \in Accounts, NEW n \in 0 .. Mined, ~HasRow(a, n), ~Exists(a, n)
    PROVE  \A k \in 0 .. n : ~Exists(a, k)
<1> DEFINE Never(m) == ~HasRow(a, m) /\ ~Exists(a, m) => \A k \in 0 .. m : ~Exists(a, k)
           S == {m \in Nat : m \in 0 .. Mined => Never(m)}
<1>1. 0 \in S
  <2>1. 0 \in Nat /\ 0 .. 0 = {0}
    OBVIOUS
  <2> QED BY Zenon, <2>1
<1>2. ASSUME NEW i \in Nat, i \in S PROVE i + 1 \in S
  <2>m. PICK m : m = i + 1
    BY Zenon
  <2>1. SUFFICES ASSUME m \in 0 .. Mined, ~HasRow(a, m), ~Exists(a, m) PROVE \A k \in 0 .. m : ~Exists(a, k)
    <3>1. m \in Nat
      BY <2>m
    <3> QED BY Zenon, <2>m, <3>1
  <2>2. /\ m \in Nat \ {0} /\ m - 1 = i /\ i \in 0 .. Mined /\ m \in 0 .. Mined
        /\ \A k \in 0 .. m : k \in 0 .. i \/ k = m
    BY <2>m, <2>1, MinedFacts
  <2>3. ~HasRow(a, i) /\ (a \notin changed_accounts(m) \/ ~Exists(a, i))
    BY Zenon, <2>1, <2>2, HasRowStep
  <2>4. ~Exists(a, i)
    <3>1. Exists(a, i) \in BOOLEAN /\ Exists(a, m) \in BOOLEAN
      BY Zenon, <2>2, StateFacts
    <3>2. a \notin changed_accounts(m) => Exists(a, i) = Exists(a, m)
      BY Zenon, <2>2, ProbeFacts
    <3> QED BY Zenon, <2>1, <2>3, <3>1, <3>2
  <2>5. \A k \in 0 .. i : ~Exists(a, k)
    BY Zenon, <1>2, <2>2, <2>3, <2>4
  <2> QED BY Zenon, <2>1, <2>2, <2>5
<1>3. n \in Nat
  BY MinedFacts
<1>4. n \in S
  <2> HIDE DEF S
  <2> QED BY Zenon, <1>1, <1>2, <1>3, BlockInduction
<1> QED BY Zenon, <1>4

\* What the archive has of a slot in the life an account has at the block.
StorageRead(a, s, b) ==
    LET value == lookup(storage_key(a, Incarnation(a, b), s), b)
    IN  Exists(a, b) => value = Slot(a, s, b) \/ (value = NoRow /\ Slot(a, s, b) = Zero)

LEMMA StorageWrittenHere ==
    ASSUME IInv, NEW a \in Accounts, NEW s \in Slots, NEW b \in 0 .. archive.number, StorageWritten(a, s, b)
    PROVE  StorageRead(a, s, b)
<1>1. RecordsOk(archive.records, archive.number) /\ \A r \in archive.records : r.block \in Nat
  BY Zenon, ArchiveFacts
<1>2. b \in Nat
  BY ArchiveFacts
<1>k. PICK key : key = storage_key(a, Incarnation(a, b), s)
  BY Zenon
<1>3. \E r \in archive.records : r.key = key /\ r.block = b
  <2>1. \A n \in 0 .. archive.number : StorageWritten(a, s, n) =>
          \E r \in archive.records : r.key = storage_key(a, Incarnation(a, n), s) /\ r.block = n
    BY Zenon, <1>1 DEF RecordsOk
  <2> QED BY Zenon, <2>1, <1>k
<1>4. \A r \in archive.records : r.key = key /\ r.block = b => r.value = Slot(a, s, b)
  <2>1. Incarnation(a, b) \in Nat
    BY Zenon, <1>2, LivesFinite
  <2> QED BY <1>1, <1>k, <2>1 DEF RecordsOk
<1>5. lookup(key, b) = Slot(a, s, b)
  BY <1>1, <1>2, <1>3, <1>4, LookupHere
<1> QED BY Zenon, <1>5, <1>k DEF StorageRead

\* The storage of an earlier life is filed elsewhere.
LEMMA EarlierLives ==
    ASSUME IInv, NEW a \in Accounts, NEW s \in Slots, NEW b \in 1 .. archive.number,
           Exists(a, b), ~StorageWritten(a, s, b), Reborn(a, b) \/ ~Exists(a, b - 1)
    PROVE  lookup(storage_key(a, Incarnation(a, b), s), b) = NoRow
<1>1. RecordsOk(archive.records, archive.number) /\ ChainOk
      /\ (\A n \in 0 .. archive.number : n \in 0 .. Mined) /\ \A r \in archive.records : r.block \in Nat
  BY Zenon, ArchiveFacts
<1>2. b \in Nat \ {0} /\ b \in Nat /\ b - 1 \in Nat /\ b \in 0 .. archive.number /\ b - 1 \in 0 .. archive.number
  BY ArchiveFacts
<1>i. PICK i : i = Incarnation(a, b)
  BY Zenon
<1>3. i \in Nat
  BY Zenon, <1>2, <1>i, LivesFinite
<1>4. ASSUME NEW r \in archive.records, r.key = storage_key(a, i, s), r.block <= b PROVE FALSE
  <2>1. StorageWritten(a, s, r.block) /\ i = Incarnation(a, r.block)
    BY <1>1, <1>3, <1>4 DEF RecordsOk
  <2>k. PICK k : k = r.block
    BY Zenon
  <2>2. k \in 0 .. b - 1
    <3>1. k # b /\ k \in Nat /\ k <= b
      BY Zenon, <1>1, <1>4, <2>1, <2>k
    <3> QED BY <1>2, <3>1
  <2>3. CASE Reborn(a, b)
    <3>1. i = Incarnation(a, b - 1) + 1
      BY Zenon, <1>2, <1>i, <2>3, IncarnationStep
    <3>2. i <= Incarnation(a, b - 1)
      BY Zenon, <1>2, <2>1, <2>2, <2>k, IncarnationRises
    <3>3. Incarnation(a, b - 1) \in Nat
      BY Zenon, <1>2, LivesFinite
    <3> QED BY <3>1, <3>2, <3>3
  <2>4. CASE ~Reborn(a, b)
    <3>1. Exists(a, k)
      <4>1. CASE k = 0
        BY Zenon, <2>1, <2>k, <4>1 DEF StorageWritten
      <4>2. CASE k # 0
        BY Zenon, <2>1, <2>k, <4>2, ProbeFacts DEF StorageWritten
      <4> QED BY Zenon, <4>1, <4>2
    <3>2. ~Exists(a, b - 1)
      BY Zenon, <2>4
    <3>3. HasRow(a, b - 1)
      BY Zenon, <1>1, <1>2, <2>2, <3>1, <3>2, NeverThere
    <3> QED BY Zenon, <2>4, <3>2, <3>3 DEF Reborn
  <2> QED BY Zenon, <2>3, <2>4
<1> QED BY Zenon, <1>1, <1>2, <1>4, <1>i, LookupNothing

LEMMA StorageReads ==
    ASSUME IInv, NEW a \in Accounts, NEW s \in Slots, NEW b \in 0 .. archive.number
    PROVE  StorageRead(a, s, b)
<1> DEFINE N == archive.number
           S == {n \in Nat : n \in 0 .. N => StorageRead(a, s, n)}
<1>1. ChainOk /\ N \in Nat /\ RecordsOk(archive.records, N)
      /\ (\A n \in 0 .. N : n \in 0 .. Mined) /\ \A r \in archive.records : r.block \in Nat
  BY Zenon, ArchiveFacts
<1>2. \A r \in archive.records, i \in Nat : r.key = storage_key(a, i, s) => StorageWritten(a, s, r.block)
  BY Zenon, <1>1 DEF RecordsOk
<1>3. 0 \in S
  <2>1. 0 \in Nat /\ 0 \in 0 .. N
    BY <1>1
  <2>2. CASE ~StorageWritten(a, s, 0)
    <3>1. \A k \in Nat : k # 0 => ~(k <= 0)
      OBVIOUS
    <3>2. Incarnation(a, 0) \in Nat
      BY Zenon, <2>1, LivesFinite
    <3>3. lookup(storage_key(a, Incarnation(a, 0), s), 0) = NoRow
      BY Zenon, <1>1, <1>2, <2>1, <2>2, <3>1, <3>2, LookupNothing
    <3>4. Exists(a, 0) => Slot(a, s, 0) = Zero
      BY Zenon, <2>2 DEF StorageWritten
    <3> QED BY Zenon, <2>1, <3>3, <3>4 DEF StorageRead
  <2> QED BY Zenon, <2>1, <2>2, StorageWrittenHere
<1>4. ASSUME NEW n \in Nat, n \in S PROVE n + 1 \in S
  <2>m. PICK m : m = n + 1
    BY Zenon
  <2>1. SUFFICES ASSUME m \in 0 .. N, Exists(a, m), ~StorageWritten(a, s, m) PROVE StorageRead(a, s, m)
    <3>1. m \in Nat
      BY <2>m
    <3>2. ~Exists(a, m) => StorageRead(a, s, m)
      BY Zenon DEF StorageRead
    <3>3. m \in 0 .. N /\ StorageWritten(a, s, m) => StorageRead(a, s, m)
      BY Zenon, StorageWrittenHere
    <3> QED BY Zenon, <2>m, <3>1, <3>2, <3>3
  <2>2. m \in Nat \ {0} /\ m - 1 = n /\ n \in 0 .. N /\ m \in 1 .. N /\ n \in 0 .. Mined /\ m \in Nat
    <3>1. m \in 0 .. Mined
      BY Zenon, <1>1, <2>1
    <3> QED BY <1>1, <2>m, <2>1, <3>1, MinedFacts
  <2>3. StorageRead(a, s, n)
    BY Zenon, <1>4, <2>2
  <2>4. Slot(a, s, m) = Slot(a, s, n) /\ (a \in wiped[m] => Slot(a, s, m) = Zero)
    <3>1. s \notin changed_slots(m, a)
      BY Zenon, <2>1, <2>2 DEF StorageWritten
    <3> QED BY Zenon, <2>1, <2>2, <3>1, ProbeFacts
  <2>5. CASE Reborn(a, m) \/ ~Exists(a, n)
    <3>1. lookup(storage_key(a, Incarnation(a, m), s), m) = NoRow
      BY Zenon, <2>1, <2>2, <2>5, EarlierLives
    <3>2. ~Exists(a, n) => Slot(a, s, n) = Zero
      BY Zenon, <1>1, <2>2, StateFacts
    <3>3. Exists(a, n) /\ Reborn(a, m) => a \in wiped[m]
      BY Zenon, <2>2 DEF Reborn
    <3>4. Slot(a, s, m) = Zero
      BY Zenon, <2>4, <2>5, <3>2, <3>3
    <3> QED BY Zenon, <3>1, <3>4 DEF StorageRead
  <2>6. CASE ~Reborn(a, m) /\ Exists(a, n)
    <3>1. Incarnation(a, m) = Incarnation(a, n) /\ Incarnation(a, m) \in Nat
      BY Zenon, <2>2, <2>6, IncarnationStep, LivesFinite
    <3>2. lookup(storage_key(a, Incarnation(a, m), s), m) = lookup(storage_key(a, Incarnation(a, m), s), n)
      BY Zenon, <1>1, <1>2, <2>1, <2>2, <3>1, LookupBefore
    <3> QED BY Zenon, <2>3, <2>4, <2>6, <3>1, <3>2 DEF StorageRead
  <2> QED BY Zenon, <2>5, <2>6
<1>5. b \in Nat
  BY <1>1
<1>6. b \in S
  <2> HIDE DEF S
  <2> QED BY Zenon, <1>3, <1>4, <1>5, BlockInduction
<1> QED BY Zenon, <1>6

\* The code an account names is in the archive.
CodeThere(a, b) ==
    Exists(a, b) /\ CodeAt(a, b) \in Codes =>
        \E r \in archive.records : r.key = code_key(CodeAt(a, b)) /\ r.block <= b

LEMMA CodeWritten ==
    ASSUME IInv, NEW a \in Accounts, NEW b \in 0 .. archive.number
    PROVE  CodeThere(a, b)
<1> DEFINE N == archive.number
           S == {n \in Nat : n \in 0 .. N => CodeThere(a, n)}
<1>1. ChainOk /\ N \in Nat /\ RecordsOk(archive.records, N)
      /\ (\A n \in 0 .. N : n \in 0 .. Mined) /\ \A r \in archive.records : r.block \in Nat
  BY Zenon, ArchiveFacts
<1>2. 0 \in S
  <2>1. 0 \in Nat /\ 0 <= 0
    OBVIOUS
  <2> QED BY <1>1, <2>1 DEF RecordsOk, CodeThere
<1>3. ASSUME NEW n \in Nat, n \in S PROVE n + 1 \in S
  <2>m. PICK m : m = n + 1
    BY Zenon
  <2>1. SUFFICES ASSUME m \in 0 .. N, Exists(a, m), CodeAt(a, m) \in Codes
                 PROVE  \E r \in archive.records : r.key = code_key(CodeAt(a, m)) /\ r.block <= m
    <3>1. m \in Nat
      BY <2>m
    <3> QED BY Zenon, <2>m, <3>1 DEF CodeThere
  <2>2. /\ m - 1 = n /\ n \in 0 .. N /\ m \in 1 .. N /\ n \in 0 .. Mined
        /\ \A k \in Nat : k <= n => k <= m
        /\ \A k \in 0 .. m : k <= m
    <3>1. m \in 0 .. Mined
      BY Zenon, <1>1, <2>1
    <3> QED BY <1>1, <2>m, <2>1, <3>1, MinedFacts
  <2>3. CASE CodeAt(a, m) # CodeAt(a, n)
    <3>1. CodeAt(a, m) \in changed_codes(m)
      BY Zenon, <2>1, <2>2, <2>3, ProbeFacts
    <3>2. \E r \in archive.records : r.key = code_key(CodeAt(a, m)) /\ r.block \in 0 .. m
      BY Zenon, <1>1, <2>2, <3>1 DEF RecordsOk
    <3> QED BY Zenon, <2>2, <3>2
  <2>4. CASE CodeAt(a, m) = CodeAt(a, n)
    <3>1. Exists(a, n)
      BY Zenon, <1>1, <2>1, <2>2, <2>4, StateFacts, ExportAssumption
    <3>2. CodeThere(a, n)
      BY Zenon, <1>3, <2>2
    <3> QED BY Zenon, <1>1, <2>1, <2>2, <2>4, <3>1, <3>2 DEF CodeThere
  <2> QED BY Zenon, <2>3, <2>4
<1>4. b \in Nat
  BY <1>1
<1>5. b \in S
  <2> HIDE DEF S
  <2> QED BY Zenon, <1>2, <1>3, <1>4, BlockInduction
<1> QED BY Zenon, <1>5

LEMMA CodeReads ==
    ASSUME IInv, NEW a \in Accounts, NEW b \in 0 .. archive.number, Exists(a, b), CodeAt(a, b) \in Codes
    PROVE  lookup(code_key(CodeAt(a, b)), b) = CodeAt(a, b)
<1>1. RecordsOk(archive.records, archive.number) /\ \A r \in archive.records : r.block \in Nat
  BY Zenon, ArchiveFacts
<1>2. b \in Nat
  BY ArchiveFacts
<1>c. PICK c : c = CodeAt(a, b)
  BY Zenon
<1>3. Versions(code_key(c), b) # {}
  BY Zenon, <1>c, CodeWritten DEF CodeThere, Versions
<1>4. PICK r \in Versions(code_key(c), b) : lookup(code_key(c), b) = r.value
  BY Zenon, <1>1, <1>2, <1>3, LookupNewest
<1>5. r.value = c
  BY Zenon, <1>1, <1>4, <1>c DEF Versions, RecordsOk
<1> QED BY Zenon, <1>4, <1>5, <1>c

\* An account that is read is not taken for one never seen.
LEMMA AccountValue ==
    ASSUME ChainOk, NEW a \in Accounts, NEW b \in 0 .. Mined, NEW acct,
           acct = account_value(StateAt(b)[a], Incarnation(a, b))
    PROVE  /\ acct # NoRow
           /\ acct.exists = Exists(a, b) /\ acct.code = CodeAt(a, b) /\ acct.incarnation = Incarnation(a, b)
<1> DEFINE rec == [exists |-> Exists(a, b), incarnation |-> Incarnation(a, b), code |-> CodeAt(a, b)]
<1>1. acct = rec
  BY Zenon DEF account_value, Exists, CodeAt
<1>2. /\ Exists(a, b) \in BOOLEAN /\ CodeAt(a, b) \in Codes \cup {EmptyCode, NoCode}
      /\ Incarnation(a, b) \in Nat
  <2>1. b \in Nat
    BY MinedFacts
  <2> QED BY Zenon, <2>1, StateFacts, LivesFinite
<1>3. rec \in [exists : BOOLEAN, incarnation : Nat, code : Codes \cup {EmptyCode, NoCode}]
  BY Zenon, <1>2
<1>4. rec.exists = Exists(a, b) /\ rec.code = CodeAt(a, b) /\ rec.incarnation = Incarnation(a, b)
  BY Zenon
<1> HIDE DEF rec
<1> QED BY Zenon, <1>1, <1>3, <1>4, ExportAssumption

-----------------------------------------------------------------------------

\* Both readers answer every published block with the storage the chain had
\* then, for any chain of accounts created, destroyed, recreated and wiped, any
\* package size, and any kills of the exporter.
THEOREM StorageExactHolds == Spec => []StorageExact
<1>1. IInv => StorageExact
  <2> SUFFICES ASSUME IInv, NEW b \in 0 .. archive.number, NEW a \in Accounts, NEW s \in Slots
               PROVE  storage(a, s, b) = Slot(a, s, b) /\ storage_at(a, s, b) = Slot(a, s, b)
    BY Zenon DEF StorageExact, Published, Slot
  <2>1. ChainOk /\ b \in 0 .. Mined
    BY Zenon, ArchiveFacts
  <2>2. (~Exists(a, b) => Slot(a, s, b) = Zero) /\ Slot(a, s, b) # NoRow
    BY Zenon, <2>1, StateFacts, ExportAssumption
  <2>a. PICK acct : acct = lookup(account_key(a), b)
    BY Zenon
  <2>v. PICK value : value = lookup(storage_key(a, acct.incarnation, s), b)
    BY Zenon
  <2>3. /\ storage(a, s, b) = IF acct = NoRow THEN Zero ELSE IF ~acct.exists THEN Zero
                              ELSE IF value = NoRow THEN Zero ELSE value
        /\ account_at(a, b) = IF acct = NoRow THEN NoRow ELSE IF acct.exists THEN acct ELSE NoRow
    BY Zenon, <2>a, <2>v DEF storage, account, account_at
  <2>4. CASE acct = NoRow /\ ~Exists(a, b)
    <3>1. account_at(a, b) = NoRow
      BY Zenon, <2>3, <2>4
    <3>2. storage_at(a, s, b) = Zero
      BY Zenon, <3>1 DEF storage_at
    <3> QED BY Zenon, <2>2, <2>3, <2>4, <3>2
  <2>5. CASE acct = account_value(StateAt(b)[a], Incarnation(a, b))
    <3>1. acct # NoRow /\ acct.exists = Exists(a, b) /\ acct.incarnation = Incarnation(a, b)
      BY Zenon, <2>1, <2>5, AccountValue
    <3>2. CASE ~Exists(a, b)
      <4>1. account_at(a, b) = NoRow
        BY Zenon, <2>3, <3>1, <3>2
      <4>2. storage_at(a, s, b) = Zero
        BY Zenon, <4>1 DEF storage_at
      <4> QED BY Zenon, <2>2, <2>3, <3>1, <3>2, <4>2
    <3>3. CASE Exists(a, b)
      <4>1. value = Slot(a, s, b) \/ (value = NoRow /\ Slot(a, s, b) = Zero)
        BY Zenon, <2>v, <3>1, <3>3, StorageReads DEF StorageRead
      <4>2. account_at(a, b) = acct
        BY Zenon, <2>3, <3>1, <3>3
      <4>3. storage_at(a, s, b) = IF value = NoRow THEN Zero ELSE value
        BY Zenon, <2>v, <3>1, <4>2 DEF storage_at
      <4>4. storage(a, s, b) = IF value = NoRow THEN Zero ELSE value
        BY Zenon, <2>3, <3>1, <3>3
      <4>5. CASE value = NoRow
        BY Zenon, <2>2, <4>1, <4>3, <4>4, <4>5
      <4>6. CASE value # NoRow
        BY Zenon, <4>1, <4>3, <4>4, <4>6
      <4> QED BY Zenon, <4>5, <4>6
    <3> QED BY Zenon, <3>2, <3>3
  <2> QED BY Zenon, <2>4, <2>5, <2>a, AccountReads DEF AccountRead
<1> QED BY <1>1, ExportInvariant, PTL

\* Both readers answer every published block with the account's code, and the
\* blob it names is always there, though a package carries only changed code.
THEOREM CodeExactHolds == Spec => []CodeExact
<1>1. IInv => CodeExact
  <2> SUFFICES ASSUME IInv, NEW b \in 0 .. archive.number, NEW a \in Accounts
               PROVE  /\ code(a, b) = IF Exists(a, b) THEN CodeAt(a, b) ELSE EmptyCode
                      /\ code_at(a, b) = IF Exists(a, b) THEN CodeAt(a, b) ELSE EmptyCode
    BY Zenon DEF CodeExact, Published, Exists, CodeAt
  <2>1. ChainOk /\ b \in 0 .. Mined
    BY Zenon, ArchiveFacts
  <2>a. PICK acct : acct = lookup(account_key(a), b)
    BY Zenon
  <2>b. PICK bytes : bytes = lookup(code_key(acct.code), b)
    BY Zenon
  <2>2. /\ code(a, b) = IF acct = NoRow THEN EmptyCode
                        ELSE IF ~acct.exists \/ acct.code = EmptyCode THEN EmptyCode
                        ELSE IF bytes = NoRow THEN "missing" ELSE bytes
        /\ account_at(a, b) = IF acct = NoRow THEN NoRow ELSE IF acct.exists THEN acct ELSE NoRow
    BY Zenon, <2>a, <2>b DEF code, account, account_at
  <2>3. account_at(a, b) = NoRow => code_at(a, b) = EmptyCode
    BY Zenon DEF code_at
  <2>4. CASE acct = NoRow /\ ~Exists(a, b)
    BY Zenon, <2>2, <2>3, <2>4
  <2>5. CASE acct = account_value(StateAt(b)[a], Incarnation(a, b))
    <3>1. acct # NoRow /\ acct.exists = Exists(a, b) /\ acct.code = CodeAt(a, b)
      BY Zenon, <2>1, <2>5, AccountValue
    <3>2. CASE ~Exists(a, b)
      BY Zenon, <2>2, <2>3, <3>1, <3>2
    <3>3. CASE Exists(a, b)
      <4>1. account_at(a, b) = acct
        BY Zenon, <2>2, <3>1, <3>3
      <4>2. code_at(a, b) = IF acct.code = EmptyCode THEN EmptyCode
                            ELSE IF bytes = NoRow THEN "missing" ELSE bytes
        BY Zenon, <2>b, <3>1, <4>1 DEF code_at
      <4>3. code(a, b) = IF acct.code = EmptyCode THEN EmptyCode
                         ELSE IF bytes = NoRow THEN "missing" ELSE bytes
        BY Zenon, <2>2, <3>1, <3>3
      <4>4. acct.code # EmptyCode => acct.code \in Codes
        BY Zenon, <2>1, <3>1, <3>3, StateFacts
      <4>5. acct.code \in Codes => bytes = acct.code /\ bytes # NoRow
        BY Zenon, <2>b, <3>1, <3>3, CodeReads, ExportAssumption
      <4> QED BY Zenon, <3>1, <3>3, <4>2, <4>3, <4>4, <4>5
    <3> QED BY Zenon, <3>2, <3>3
  <2> QED BY Zenon, <2>4, <2>5, <2>a, AccountReads DEF AccountRead
<1> QED BY <1>1, ExportInvariant, PTL

\* The journal commits only what is published, at most one package behind, and
\* its rows are the lifetimes the published records up to its block name.
THEOREM JournalExactHolds == Spec => []JournalExact
<1>1. IInv => JournalExact
  <2> SUFFICES ASSUME IInv PROVE JournalExact
    OBVIOUS
  <2>n. PICK n : n = journal.last_block
    BY Zenon
  <2>1. n \in {archive.number, archive.package.first - 1} /\ ChainOk /\ n \in 0 .. Mined
        /\ journal.rows = RowsAt(n)
    BY Zenon, <2>n DEF IInv, ArchiveOk, JournalOk
  <2>2. n \in 0 .. archive.number /\ n \in Nat
    <3>1. CASE n = archive.number
      BY <3>1, ArchiveFacts
    <3>2. CASE n # archive.number /\ n = archive.package.first - 1
      <4>1. archive.number > 0
        BY <2>1, <3>2, ArchiveFacts, MinedFacts DEF IInv, ArchiveOk
      <4>2. PackageOk(archive.package) /\ archive.package.last = archive.number
        BY Zenon, <4>1 DEF IInv, ArchiveOk
      <4>3. archive.package.first \in 1 .. archive.number /\ archive.package.first \in Nat
        BY Zenon, <4>2 DEF PackageOk
      <4> QED BY <3>2, <4>3, ArchiveFacts
    <3> QED BY Zenon, <2>1, <3>1, <3>2
  <2>3. ASSUME NEW a \in Accounts
        PROVE  LET acct == account(a, n) row == journal.rows[a]
               IN  IF row = NoRow THEN acct # NoRow => acct.incarnation = 0
                   ELSE acct.incarnation = row.incarnation /\ acct.exists = row.exists_now
    <3>a. PICK acct : acct = lookup(account_key(a), n)
      BY Zenon
    <3>r. PICK row : row = journal.rows[a]
      BY Zenon
    <3>1. row = RowAt(a, n) /\ (~HasRow(a, n) => row = NoRow)
      BY Zenon, <2>1, <3>r DEF RowsAt, RowAt
    <3>2. HasRow(a, n) => /\ row.incarnation = Incarnation(a, n) /\ row.exists_now = Exists(a, n)
                          /\ row # NoRow
      <4> DEFINE rec == [incarnation |-> Incarnation(a, n), exists_now |-> Exists(a, n)]
      <4>1. HasRow(a, n) => row = rec
        BY Zenon, <3>1 DEF RowAt
      <4>2. Incarnation(a, n) \in Nat /\ Exists(a, n) \in BOOLEAN
        BY Zenon, <2>1, <2>2, LivesFinite, StateFacts
      <4>3. rec \in [incarnation : Nat, exists_now : BOOLEAN]
        BY Zenon, <4>2
      <4>4. rec.incarnation = Incarnation(a, n) /\ rec.exists_now = Exists(a, n)
        BY Zenon
      <4> HIDE DEF rec
      <4> QED BY Zenon, <4>1, <4>3, <4>4, ExportAssumption
    <3>3. (acct = NoRow /\ ~HasRow(a, n)) \/ acct = account_value(StateAt(n)[a], Incarnation(a, n))
      BY Zenon, <2>2, <3>a, AccountReads DEF AccountRead
    <3>4. acct = account_value(StateAt(n)[a], Incarnation(a, n)) =>
            acct.exists = Exists(a, n) /\ acct.incarnation = Incarnation(a, n)
      BY Zenon, <2>1, AccountValue
    <3>5. ~HasRow(a, n) => Incarnation(a, n) = 0
      BY Zenon, <2>2, NoRowOneLife
    <3>6. IF row = NoRow THEN acct # NoRow => acct.incarnation = 0
          ELSE acct.incarnation = row.incarnation /\ acct.exists = row.exists_now
      <4>1. CASE HasRow(a, n)
        BY Zenon, <3>2, <3>3, <3>4, <4>1
      <4>2. CASE ~HasRow(a, n)
        BY Zenon, <3>1, <3>3, <3>4, <3>5, <4>2
      <4> QED BY Zenon, <4>1, <4>2
    <3> QED BY Zenon, <3>6, <3>a, <3>r DEF account
  <2> QED BY Zenon, <2>1, <2>3, <2>n DEF JournalExact
<1> QED BY <1>1, ExportInvariant, PTL

=============================================================================
