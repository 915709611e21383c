----------------------------- MODULE PackageInput -----------------------------
(***************************************************************************)
(* A normalized package on its way into the archive: a writer (export.py,    *)
(* bootstrap.rs) prints it record by record, the file may lose, repeat or    *)
(* exchange records or have a field changed, and parse_package               *)
(* (normalized.rs) reads it record by record before publish turns it into    *)
(* the records of a run.                                                     *)
(*                                                                         *)
(* Hashes, addresses and slots are numbers; a storage key is the triple of   *)
(* address, incarnation and slot.                                            *)
(***************************************************************************)
EXTENDS Integers, SequencesExt

CONSTANTS
    Plans,       \* what writers want to say: see Emit
    MaxFaults,   \* bound: faults of a file
    MAX_U64,     \* largest block number
    GENESIS,     \* hash of block zero
    None

ASSUME InputAssumption == MaxFaults \in Nat /\ MAX_U64 \in Nat

VARIABLES
    written,     \* the file as it was printed
    file,        \* the file as it is read
    faults,      \* what happened to it in between
    rest,        \* records not read yet
    parser

vars == <<written, file, faults, rest, parser>>

HashOf(n) == IF n = 0 THEN GENESIS ELSE 100 + n

-----------------------------------------------------------------------------
(* The writers *)

Header(mode, anchor, preceding) ==
    [type |-> "header", mode |-> mode, genesis |-> GENESIS, anchor |-> anchor, preceding |-> preceding]
Block(n) == [type |-> "block", number |-> n, hash |-> HashOf(n), parent |-> HashOf(n - 1)]
\* given: how many of nonce, balance and code hash are there.
Account(n, address, exists) ==
    [type |-> "account", block |-> n, address |-> address, exists |-> exists,
     given |-> IF exists THEN "all" ELSE "none"]
Storage(n, key) == [type |-> "storage", block |-> n, key |-> key]
Code(code) == [type |-> "code", hash |-> code, bytes |-> code]
BlockEnd(n, count) == [type |-> "block_end", number |-> n, event_count |-> count]
Trailer(n, count) == [type |-> "trailer", number |-> n, hash |-> HashOf(n), block_count |-> count]

Point(n) == [number |-> n, hash |-> HashOf(n)]

\* One block: accounts, then storage, then code, each sorted.
EmitBlock(n, says) ==
    LET events == [i \in DOMAIN says.accounts |-> Account(n, says.accounts[i][1], says.accounts[i][2])]
                  \o [i \in DOMAIN says.storage |-> Storage(n, says.storage[i])]
                  \o [i \in DOMAIN says.codes |-> Code(says.codes[i])]
    IN  <<Block(n)>> \o events \o <<BlockEnd(n, Len(events))>>

\* A plan is the first block and, per block, its sorted accounts, slots and code.
Emit(plan) ==
    LET last == plan.first + Len(plan.blocks) - 1 IN
    <<IF plan.first = 0 THEN Header("anchor", Point(0), None)
      ELSE Header("delta", None, Point(plan.first - 1))>>
    \o FlattenSeq([i \in DOMAIN plan.blocks |-> EmitBlock(plan.first + i - 1, plan.blocks[i])])
    \o <<Trailer(last, Len(plan.blocks))>>

-----------------------------------------------------------------------------
(* Faults of a file *)

Pairs(s) == {p \in (DOMAIN s) \X (DOMAIN s) : p[1] <= p[2]}
Lost(s) == {SubSeq(s, 1, p[1] - 1) \o SubSeq(s, p[2] + 1, Len(s)) : p \in Pairs(s)}
Repeated(s) == {SubSeq(s, 1, p[2]) \o SubSeq(s, p[1], Len(s)) : p \in Pairs(s)}
Exchanged(s) == {[s EXCEPT ![i] = s[i + 1], ![i + 1] = s[i]] : i \in 1 .. Len(s) - 1}

\* Other values for one field of a record.
Changed(r) ==
    CASE r.type = "header" ->
            {[r EXCEPT !.anchor = None], [r EXCEPT !.preceding = None], [r EXCEPT !.genesis = @ + 1],
             [r EXCEPT !.mode = "anchor"], [r EXCEPT !.mode = "delta"], [r EXCEPT !.mode = "other"],
             [r EXCEPT !.anchor = Point(1)], [r EXCEPT !.preceding = Point(1)],
             [r EXCEPT !.preceding = Point(MAX_U64)]}
      [] r.type = "block" ->
            {[r EXCEPT !.number = @ + 1], [r EXCEPT !.hash = @ + 50], [r EXCEPT !.parent = @ + 50]}
      [] r.type = "account" ->
            {[r EXCEPT !.block = @ + 1], [r EXCEPT !.address = 3 - @], [r EXCEPT !.exists = ~@],
             [r EXCEPT !.given = "some"]}
      [] r.type = "storage" ->
            {[r EXCEPT !.block = @ + 1], [r EXCEPT !.key[1] = 3 - @], [r EXCEPT !.key[2] = @ + 1],
             [r EXCEPT !.key[3] = 3 - @]}
      [] r.type = "code" -> {[r EXCEPT !.hash = 3 - @], [r EXCEPT !.bytes = 3 - @, !.hash = 3 - @]}
      [] r.type = "block_end" -> {[r EXCEPT !.number = @ + 1], [r EXCEPT !.event_count = @ + 1]}
      [] r.type = "trailer" ->
            {[r EXCEPT !.number = @ + 1], [r EXCEPT !.hash = @ + 50], [r EXCEPT !.block_count = @ + 1]}

Altered(s) == UNION {{[s EXCEPT ![i] = r] : r \in Changed(s[i])} : i \in DOMAIN s}

Init ==
    /\ written \in {Emit(plan) : plan \in Plans}
    /\ file = written /\ faults = << >> /\ rest = None /\ parser = None

\* Before the file is opened.
Fault(kind, results) ==
    /\ parser = None /\ Len(faults) < MaxFaults
    /\ file' \in results
    /\ faults' = Append(faults, kind)
    /\ UNCHANGED <<written, rest, parser>>

-----------------------------------------------------------------------------
(* parse_package *)

Start == [status |-> "reading", header |-> None, blocks |-> << >>, accounts |-> << >>,
          storage |-> << >>, code |-> << >>, current |-> None, event_count |-> 0,
          last_account |-> None, last_storage |-> None, trailer |-> None]

\* parse_package wants a header, a block and a trailer at least.
Open ==
    /\ parser = None
    /\ rest' = file
    /\ parser' = IF Len(file) < 3 THEN [Start EXCEPT !.status = "refused"] ELSE Start
    /\ UNCHANGED <<written, file, faults>>

Refusal(p) == [p EXCEPT !.status = "refused"]
Checked(ok, next) == IF ok THEN next ELSE Refusal(parser)
Successor(n) == IF n = MAX_U64 THEN None ELSE n + 1
Less(a, b) == \E i \in DOMAIN a : a[i] < b[i] /\ \A j \in 1 .. i - 1 : a[j] = b[j]

\* The first record, and no other, is a header.
header(r) ==
    Checked(/\ parser.header = None /\ r.mode \in {"anchor", "delta"}
            /\ IF r.mode = "anchor" THEN r.anchor # None ELSE r.preceding # None,
            [parser EXCEPT !.header = r])

\* Variant: the order of accounts is not forgotten between blocks.
block_KeepsOrder(r) ==
    LET previous == Last(parser.blocks) IN
    Checked(/\ parser.current = None
            /\ IF parser.blocks # << >>
               THEN Successor(previous.number) = r.number /\ r.parent = previous.hash
               ELSE parser.header.mode = "delta" => r.parent = parser.header.preceding.hash,
            [parser EXCEPT !.current = r, !.event_count = 0, !.last_storage = None])

block(r) ==
    LET previous == Last(parser.blocks) IN
    Checked(/\ parser.current = None
            /\ IF parser.blocks # << >>
               THEN Successor(previous.number) = r.number /\ r.parent = previous.hash
               ELSE parser.header.mode = "delta" => r.parent = parser.header.preceding.hash,
            [parser EXCEPT !.current = r, !.event_count = 0,
                           !.last_account = None, !.last_storage = None])

checked_current(n) == parser.current # None /\ parser.current.number = n

account(r) ==
    Checked(/\ checked_current(r.block)
            /\ parser.last_account = None \/ parser.last_account < r.address
            /\ r.given = (IF r.exists THEN "all" ELSE "none"),
            [parser EXCEPT !.last_account = r.address, !.event_count = @ + 1,
                           !.accounts = Append(@, r)])

storage(r) ==
    Checked(/\ checked_current(r.block)
            /\ parser.last_storage = None \/ Less(parser.last_storage, r.key),
            [parser EXCEPT !.last_storage = r.key, !.event_count = @ + 1,
                           !.storage = Append(@, r)])

\* Variant: the blob may be there already.
code_Again(r) ==
    Checked(parser.current # None /\ r.bytes = r.hash,
            [parser EXCEPT !.event_count = @ + 1,
                           !.code = Append(@, [first_seen_block |-> parser.current.number, hash |-> r.hash])])

\* A blob hashes to its name and is in the package once.
code(r) ==
    Checked(/\ parser.current # None /\ r.bytes = r.hash
            /\ \A i \in DOMAIN parser.code : parser.code[i].hash # r.hash,
            [parser EXCEPT !.event_count = @ + 1,
                           !.code = Append(@, [first_seen_block |-> parser.current.number, hash |-> r.hash])])

\* Variant: the events are not counted.
block_end_Uncounted(r) ==
    Checked(checked_current(r.number),
            [parser EXCEPT !.blocks = Append(@, parser.current), !.current = None])

block_end(r) ==
    Checked(checked_current(r.number) /\ r.event_count = parser.event_count,
            [parser EXCEPT !.blocks = Append(@, parser.current), !.current = None])

trailer(r) == Checked(parser.current = None, [parser EXCEPT !.trailer = r])

\* The record in hand, of the kind given, and what the parser makes of it; nothing
\* may follow a trailer.
Read(kind, outcome) ==
    /\ parser # None
    /\ parser.status = "reading" /\ rest # << >>
    /\ Head(rest).type = kind
    /\ rest' = Tail(rest)
    /\ parser' = IF parser.trailer # None \/ (kind # "header" /\ parser.header = None)
                 THEN Refusal(parser) ELSE outcome
    /\ UNCHANGED <<written, file, faults>>

\* What trailer and header say of the blocks that were read.
Fits ==
    LET first == Head(parser.blocks) last == Last(parser.blocks) h == parser.header t == parser.trailer IN
    /\ t # None /\ parser.blocks # << >>
    /\ t.number = last.number /\ t.hash = last.hash /\ t.block_count = Len(parser.blocks)
    /\ h.mode = "anchor" => h.anchor.number = first.number /\ h.anchor.hash = first.hash
    /\ first.number = 0 => first.hash = h.genesis
    /\ h.mode = "delta" => Successor(h.preceding.number) = first.number

Finish ==
    /\ parser # None
    /\ parser.status = "reading" /\ rest = << >>
    /\ parser' = [parser EXCEPT !.status = IF Fits THEN "accepted" ELSE "refused"]
    /\ UNCHANGED <<written, file, faults, rest>>

Next ==
    \/ Fault("lost", Lost(file))
    \/ Fault("repeated", Repeated(file))
    \/ Fault("exchanged", Exchanged(file))
    \/ Fault("altered", Altered(file))
    \/ Open
    \/ Read("header", header(Head(rest)))
    \/ Read("block", block(Head(rest)))
    \/ Read("account", account(Head(rest)))
    \/ Read("storage", storage(Head(rest)))
    \/ Read("code", code(Head(rest)))
    \/ Read("block_end", block_end(Head(rest)))
    \/ Read("trailer", trailer(Head(rest)))
    \/ Finish

Spec == Init /\ [][Next]_vars

-----------------------------------------------------------------------------
(* What a package is *)

Of(kind, s) == SelectSeq(s, LAMBDA r : r.type = kind)
At(kind, s) == {i \in DOMAIN s : s[i].type = kind}

\* The records of a block are those after its "block" and before the next.
Owner(s, i) == CHOOSE b \in At("block", s) : b <= i /\ \A c \in At("block", s) : c <= i => c <= b

WellFormed(s) ==
    LET blocks == Of("block", s) last == Len(s) h == s[1] t == s[last]
        events == At("account", s) \cup At("storage", s) \cup At("code", s)
        number(i) == s[Owner(s, i)].number
    IN
    /\ last >= 3 /\ At("header", s) = {1} /\ At("trailer", s) = {last} /\ s[2].type = "block"
    /\ \A b \in At("block", s) : s[b - 1].type \in {"header", "block_end"}
    /\ \A e \in At("block_end", s) :
          /\ s[e + 1].type \in {"block", "trailer"}
          /\ s[e].number = number(e) /\ s[e].event_count = e - Owner(s, e) - 1
    /\ s[last - 1].type = "block_end"
    /\ \A i \in 1 .. Len(blocks) - 1 :
          /\ blocks[i].number < MAX_U64 /\ blocks[i + 1].number = blocks[i].number + 1
          /\ blocks[i + 1].parent = blocks[i].hash
    /\ \A i \in events : s[i].type # "code" => s[i].block = number(i)
    /\ \A i, j \in At("account", s) : i < j /\ Owner(s, i) = Owner(s, j) => s[i].address < s[j].address
    /\ \A i, j \in At("storage", s) : i < j /\ Owner(s, i) = Owner(s, j) => Less(s[i].key, s[j].key)
    /\ \A i, j \in At("code", s) : i # j => s[i].hash # s[j].hash
    /\ \A i \in At("code", s) : s[i].bytes = s[i].hash
    /\ \A i \in At("account", s) : <<s[i].exists, s[i].given>> \in {<<TRUE, "all">>, <<FALSE, "none">>}
    /\ CASE h.mode = "anchor" ->
              h.anchor # None /\ h.anchor = [number |-> blocks[1].number, hash |-> blocks[1].hash]
         [] h.mode = "delta" ->
              /\ h.preceding # None /\ h.preceding.number + 1 = blocks[1].number
              /\ h.preceding.number # MAX_U64 /\ h.preceding.hash = blocks[1].parent
         [] OTHER -> FALSE
    /\ blocks[1].number = 0 => blocks[1].hash = h.genesis
    /\ t.number = Last(blocks).number /\ t.hash = Last(blocks).hash /\ t.block_count = Len(blocks)

Accepted == parser # None /\ parser.status = "accepted"
Refused == parser # None /\ parser.status = "refused"

\* The parser, which remembers little of what it read, accepts a file if and only
\* if the file as a whole is a package.
AcceptsPackages == (Accepted => WellFormed(file)) /\ (Refused => ~WellFormed(file))

Events(s) ==
    {<<s[i], IF s[i].type = "code" THEN s[Owner(s, i)].number ELSE s[i].block>> :
        i \in At("account", s) \cup At("storage", s) \cup At("code", s)}

\* A file that lost, repeated or exchanged records is refused, or it still says
\* what its writer said: no event is lost or moved to another block unnoticed.
NothingLostUnnoticed ==
    Accepted /\ "altered" \notin Range(faults) =>
        /\ Of("block", file) = Of("block", written)
        /\ Events(file) = Events(written)

\* package_records: the key and block of every record of the run to be.
package_records ==
    [i \in DOMAIN parser.accounts |-> <<"account", parser.accounts[i].address, parser.accounts[i].block>>]
    \o [i \in DOMAIN parser.storage |-> <<"storage", parser.storage[i].key, parser.storage[i].block>>]
    \o [i \in DOMAIN parser.code |-> <<"code", parser.code[i].hash, parser.code[i].first_seen_block>>]

\* What the parser accepts can be published: all its records lie in its blocks and
\* no two have the same key and block, which the run builder would refuse.
PublishableRecords ==
    Accepted =>
        LET records == package_records
            first == Head(parser.blocks).number last == Last(parser.blocks).number
        IN  /\ \A i, j \in DOMAIN records : i # j => records[i] # records[j]
            /\ \A i \in DOMAIN records : records[i][3] \in first .. last
===============================================================================
