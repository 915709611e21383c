----------------------------- MODULE StateExport ------------------------------
(***************************************************************************)
(* From chain to answers: the block-zero anchor (bootstrap.rs), the replay  *)
(* probe, the exporter with its incarnation journal (export.py), the        *)
(* publication of its packages (tiered.rs), and the reads of the native and *)
(* the worker reader.  The exporter may be killed between any two steps.    *)
(*                                                                         *)
(* An account is whether it exists, its code and its storage; the archive   *)
(* is the set of its records, looked up as TieredArchive and RunCodec       *)
(* establish: the newest version at or before the block.                    *)
(***************************************************************************)
EXTENDS Integers, Sequences

CONSTANTS
    Accounts, Slots,
    Values,      \* nonzero storage words
    Codes,       \* nonempty bytecode, which is its own hash
    EmptyCode, NoCode,
    Epoch,       \* blocks of a full package (1000)
    MaxBlock,    \* bound: blocks of the chain
    Lasts,       \* the values the operator passes as --last
    MaxCrashes,  \* bound: kills of the exporter
    NoRow

Zero == 0
ASSUME ExportAssumption ==
    /\ Values \subseteq Nat \ {0}
    /\ EmptyCode \notin Codes /\ NoCode \notin Codes \cup {EmptyCode}
    /\ Epoch \in Nat \ {0} /\ MaxBlock \in Nat
    /\ Lasts \subseteq Nat \ {0}
    /\ NoRow \notin Nat \cup Codes
    /\ NoRow \notin [incarnation : Nat, exists_now : BOOLEAN]
    /\ NoRow \notin [exists : BOOLEAN, incarnation : Nat, code : Codes \cup {EmptyCode, NoCode}]

Absent == [exists |-> FALSE, code |-> NoCode, slots |-> [s \in Slots |-> Zero]]
Live == [exists : {TRUE}, code : Codes \cup {EmptyCode}, slots : [Slots -> Values \cup {Zero}]]

VARIABLES
    chain,    \* state after each block; chain[1] is the genesis state
    wiped,    \* per block, the accounts whose storage it wiped
    journal,  \* committed SQLite journal: last_block and the lifetime table
    archive,  \* published number, the package it came from, and the records
    exp,      \* the exporter process
    crashes

vars == <<chain, wiped, journal, archive, exp, crashes>>

StateAt(b) == chain[b + 1]
Mined == Len(chain) - 1

-----------------------------------------------------------------------------
(* The replay probe: what block n changed *)

\* Variant: a slot that a recreated account sets to its old value is not listed.
changed_slots_Diff(n, a) ==
    LET was == StateAt(n - 1)[a] is == StateAt(n)[a]
    IN  {s \in Slots : is.exists /\ is.slots[s] # was.slots[s]}

changed_slots(n, a) ==
    LET was == StateAt(n - 1)[a] is == StateAt(n)[a]
    IN  {s \in Slots :
            /\ is.exists
            /\ \/ is.slots[s] # was.slots[s]
               \/ a \in wiped[n] /\ is.slots[s] # Zero}

changed_accounts(n) ==
    {a \in Accounts :
        \/ StateAt(n - 1)[a].exists # StateAt(n)[a].exists
        \/ StateAt(n - 1)[a].code # StateAt(n)[a].code
        \/ a \in wiped[n]}

\* Variant: only code of accounts the block created.
changed_codes_Created(n) ==
    {StateAt(n)[a].code : a \in {x \in Accounts :
        ~StateAt(n - 1)[x].exists /\ StateAt(n)[x].code \in Codes}}

\* Code that changed to nonempty bytecode.
changed_codes(n) ==
    {StateAt(n)[a].code : a \in {x \in Accounts :
        StateAt(n)[x].code # StateAt(n - 1)[x].code /\ StateAt(n)[x].code \in Codes}}

-----------------------------------------------------------------------------
(* Records *)

account_key(a) == <<"account", a>>
storage_key(a, incarnation, slot) == <<"storage", a, incarnation, slot>>
code_key(code) == <<"code", code>>
Rec(key, block, value) == [key |-> key, block |-> block, value |-> value]

account_value(state, incarnation) ==
    [exists |-> state.exists, incarnation |-> incarnation, code |-> state.code]

\* Block zero: every allocated account is live at incarnation zero.
genesis_anchor(state) ==
    LET alloc == {a \in Accounts : state[a].exists} IN
    {Rec(account_key(a), 0, account_value(state[a], 0)) : a \in alloc}
    \cup {Rec(storage_key(p[1], 0, p[2]), 0, state[p[1]].slots[p[2]]) :
             p \in {q \in alloc \X Slots : state[q[1]].slots[q[2]] # Zero}}
    \cup {Rec(code_key(c), 0, c) : c \in {state[a].code : a \in alloc} \cap Codes}

-----------------------------------------------------------------------------
(* The exporter: the lifetime journal and one package *)

\* The incarnation of an account after a block.
lifetime(row, previous_exists, exists, wipe) ==
    (IF row = NoRow THEN 0
     ELSE row.incarnation + (IF exists /\ ~row.exists_now THEN 1 ELSE 0))
    + (IF exists /\ previous_exists /\ wipe THEN 1 ELSE 0)

lifetime_row(row, n, a) ==
    LET was == StateAt(n - 1)[a].exists is == StateAt(n)[a].exists
    IN  IF row = NoRow /\ ~was /\ ~is THEN NoRow
        ELSE [incarnation |-> lifetime(row, was, is, a \in wiped[n]), exists_now |-> is]

\* The rows after block n, and the incarnation its storage is filed under.
rows_after(rows, n) ==
    [a \in Accounts |-> IF a \in changed_accounts(n) THEN lifetime_row(rows[a], n, a) ELSE rows[a]]
incarnation_in(rows, a) == IF rows[a] = NoRow THEN 0 ELSE rows[a].incarnation

\* The records of block n, for which the rows after it are needed.
block_records(rows, n, codes) ==
    {Rec(account_key(a), n, account_value(StateAt(n)[a], incarnation_in(rows, a))) :
        a \in changed_accounts(n)}
    \cup (UNION {{Rec(storage_key(a, incarnation_in(rows, a), s), n, StateAt(n)[a].slots[s]) :
                     s \in changed_slots(n, a)} : a \in Accounts})
    \cup {Rec(code_key(c), n, c) : c \in codes}

\* The journal knows what the probe says of the block before, and storage
\* changes only of accounts that exist.
consistent(rows, n) ==
    /\ \A a \in changed_accounts(n) :
          rows[a] # NoRow => rows[a].exists_now = StateAt(n - 1)[a].exists
    /\ \A a \in Accounts : changed_slots(n, a) # {} =>
          LET row == rows_after(rows, n)[a] IN row = NoRow \/ row.exists_now

\* Storage of an account the package touches must carry its incarnation.
validate_lifecycle(records) ==
    \A r \in records : r.key[1] = "storage" =>
        LET versions == {v \in records : v.key = account_key(r.key[2]) /\ v.block <= r.block}
            current == CHOOSE v \in versions : \A o \in versions : o.block <= v.block
        IN  versions # {} => IF current.value.exists
                             THEN current.value.incarnation = r.key[3]
                             ELSE r.value = Zero

-----------------------------------------------------------------------------

\* The exporter between two packages: the next block to convert, and the rows
\* and the code seen in the transaction.
IdleExporter ==
    [pc |-> "idle", until |-> 0, next |-> 0, package |-> [first |-> 0, last |-> 0, records |-> {}],
     rows |-> [a \in Accounts |-> NoRow], seen_code |-> {}]

Init ==
    /\ \E state \in [Accounts -> Live \cup {Absent}] :
         /\ chain = <<state>>
         /\ archive = [number |-> 0, records |-> genesis_anchor(state),
                       package |-> [first |-> 0, last |-> 0, records |-> genesis_anchor(state)]]
    /\ wiped = << >>
    /\ journal = [last_block |-> 0, rows |-> [a \in Accounts |-> NoRow]]
    /\ exp = IdleExporter
    /\ crashes = 0

\* The chain gains a finalized block, in which accounts came, changed and went;
\* wipe are those whose storage was wiped on the way.
Mine(state, wipe) ==
    /\ Mined < MaxBlock
    /\ chain' = Append(chain, state)
    /\ wiped' = Append(wiped, wipe)
    /\ UNCHANGED <<journal, archive, exp, crashes>>

\* The operator starts the exporter after the journal's last block.
Start(last) ==
    /\ exp.pc \in {"idle", "refused"}
    /\ journal.last_block < last /\ last <= Mined
    /\ exp' = [exp EXCEPT !.pc = "running", !.until = last]
    /\ UNCHANGED <<chain, wiped, journal, archive, crashes>>

\* Open the transaction for the next epoch.
Begin ==
    LET first == journal.last_block + 1
        last == IF first + Epoch - 1 <= exp.until THEN first + Epoch - 1 ELSE exp.until
    IN
    /\ exp.pc = "running"
    /\ exp' = [exp EXCEPT !.pc = "converting", !.next = first, !.rows = journal.rows, !.seen_code = {},
                  !.package = [first |-> first, last |-> last, records |-> {}]]
    /\ UNCHANGED <<chain, wiped, journal, archive, crashes>>

\* The exporter after block n.
Converted(n) ==
    LET rows == rows_after(exp.rows, n) IN
    [exp EXCEPT !.pc = IF n = exp.package.last THEN "prepared" ELSE "converting",
                !.next = n + 1, !.rows = rows,
                !.seen_code = exp.seen_code \cup changed_codes(n),
                !.package = [exp.package EXCEPT !.records =
                    exp.package.records \cup block_records(rows, n, changed_codes(n) \ exp.seen_code)]]

\* Variant: the journal is committed once the package is written.
convert_Commits ==
    LET n == exp.next rows == rows_after(exp.rows, n) IN
    /\ exp.pc = "converting" /\ consistent(exp.rows, n)
    /\ exp' = Converted(n)
    /\ journal' = IF n = exp.package.last THEN [last_block |-> n, rows |-> rows] ELSE journal
    /\ UNCHANGED <<chain, wiped, archive, crashes>>

\* Variant: the rows are written outside the transaction.
convert_Autocommit ==
    LET n == exp.next IN
    /\ exp.pc = "converting"
    /\ exp' = IF consistent(exp.rows, n) THEN Converted(n) ELSE [IdleExporter EXCEPT !.pc = "failed"]
    /\ journal' = [journal EXCEPT !.rows = rows_after(exp.rows, n)]
    /\ UNCHANGED <<chain, wiped, archive, crashes>>

\* Convert the next block of the package.
convert ==
    LET n == exp.next IN
    /\ exp.pc = "converting"
    /\ exp' = IF consistent(exp.rows, n) THEN Converted(n) ELSE [IdleExporter EXCEPT !.pc = "failed"]
    /\ UNCHANGED <<chain, wiped, journal, archive, crashes>>

Appendable(package) ==
    /\ archive.number + 1 = package.first
    /\ validate_lifecycle(package.records)

\* fossil archive succeeds: at once if this very package is the published one.
Publish ==
    /\ exp.pc = "prepared"
    /\ IF archive.package = exp.package THEN UNCHANGED archive
       ELSE /\ Appendable(exp.package)
            /\ archive' = [number |-> exp.package.last, package |-> exp.package,
                           records |-> archive.records \cup exp.package.records]
    /\ exp' = [exp EXCEPT !.pc = "published"]
    /\ UNCHANGED <<chain, wiped, journal, crashes>>

\* fossil archive refuses the package: the transaction is rolled back.
PublishRefused ==
    /\ exp.pc = "prepared"
    /\ archive.package # exp.package /\ ~Appendable(exp.package)
    /\ exp' = [IdleExporter EXCEPT !.pc = "refused"]
    /\ UNCHANGED <<chain, wiped, journal, archive, crashes>>

Commit ==
    /\ exp.pc = "published"
    /\ journal' = [last_block |-> exp.package.last, rows |-> exp.rows]
    /\ exp' = IF exp.package.last = exp.until THEN IdleExporter
              ELSE [IdleExporter EXCEPT !.pc = "running", !.until = exp.until]
    /\ UNCHANGED <<chain, wiped, archive, crashes>>

\* The exporter is killed, or any step of it raises: the transaction is lost.
Crash ==
    /\ exp.pc \in {"running", "converting", "prepared", "published"}
    /\ crashes < MaxCrashes
    /\ crashes' = crashes + 1
    /\ exp' = IdleExporter
    /\ UNCHANGED <<chain, wiped, journal, archive>>

Next ==
    \/ \E state \in [Accounts -> Live \cup {Absent}], wipe \in SUBSET Accounts : Mine(state, wipe)
    \/ \E last \in Lasts : Start(last)
    \/ Begin \/ convert \/ Publish \/ PublishRefused \/ Commit \/ Crash

Spec == Init /\ [][Next]_vars

-----------------------------------------------------------------------------
(* Reads *)

lookup(key, block) ==
    LET versions == {r \in archive.records : r.key = key /\ r.block <= block}
    IN  IF versions = {} THEN NoRow
        ELSE (CHOOSE r \in versions : \A o \in versions : o.block <= r.block).value

\* The native reader keeps tombstones apart from accounts never seen.
account(a, block) == lookup(account_key(a), block)

storage(a, slot, block) ==
    LET acct == account(a, block)
        value == lookup(storage_key(a, acct.incarnation, slot), block)
    IN  IF acct = NoRow THEN Zero
        ELSE IF ~acct.exists THEN Zero
        ELSE IF value = NoRow THEN Zero ELSE value

code(a, block) ==
    LET acct == account(a, block)
        bytes == lookup(code_key(acct.code), block)
    IN  IF acct = NoRow THEN EmptyCode
        ELSE IF ~acct.exists \/ acct.code = EmptyCode THEN EmptyCode
        ELSE IF bytes = NoRow THEN "missing" ELSE bytes

\* The worker's reader drops tombstones first.
account_at(a, block) ==
    LET acct == lookup(account_key(a), block)
    IN  IF acct = NoRow THEN NoRow ELSE IF acct.exists THEN acct ELSE NoRow

storage_at(a, slot, block) ==
    LET acct == account_at(a, block)
        value == lookup(storage_key(a, acct.incarnation, slot), block)
    IN  IF acct = NoRow THEN Zero
        ELSE IF value = NoRow THEN Zero ELSE value

code_at(a, block) ==
    LET acct == account_at(a, block)
        bytes == lookup(code_key(acct.code), block)
    IN  IF acct = NoRow THEN EmptyCode
        ELSE IF acct.code = EmptyCode THEN EmptyCode
        ELSE IF bytes = NoRow THEN "missing" ELSE bytes

-----------------------------------------------------------------------------

Published == 0 .. archive.number

\* Both readers answer every published block with the storage the chain had
\* then: no slot of an earlier lifetime of an account shows through after it was
\* destroyed, recreated or wiped, whatever the exporter lost on the way.
StorageExact ==
    \A b \in Published, a \in Accounts, s \in Slots :
        /\ storage(a, s, b) = StateAt(b)[a].slots[s]
        /\ storage_at(a, s, b) = StateAt(b)[a].slots[s]

\* Both readers answer every published block with the account's code, and the
\* blob it names is always there, though a package carries only changed code.
CodeExact ==
    \A b \in Published, a \in Accounts :
        LET expected == IF StateAt(b)[a].exists THEN StateAt(b)[a].code ELSE EmptyCode
        IN  code(a, b) = expected /\ code_at(a, b) = expected

\* The journal commits only what is published, at most one package behind, and
\* its rows are the lifetimes the published records up to its block name.
JournalExact ==
    /\ journal.last_block \in {archive.number, archive.package.first - 1}
    /\ \A a \in Accounts :
         LET acct == account(a, journal.last_block) row == journal.rows[a]
         IN  IF row = NoRow THEN acct # NoRow => acct.incarnation = 0
             ELSE acct.incarnation = row.incarnation /\ acct.exists = row.exists_now

\* A restart gets through: the exporter never fails on its own journal, and when
\* it was killed between publication and commit and is started again for the same
\* blocks, it arrives at the very package that is published, which fossil archive
\* then recognises.
RestartGetsThrough ==
    /\ exp.pc # "failed"
    /\ exp.pc = "prepared" /\ exp.package.last = archive.number => exp.package = archive.package
===============================================================================
