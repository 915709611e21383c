--------------------------- MODULE ServingLookups ----------------------------
(***************************************************************************)
(* Why a lookup finds the truth: the inductive invariant of Serving, the   *)
(* lemmas about chains of runs, and that every step of a call keeps what   *)
(* the invariant says of the call.                                         *)
(***************************************************************************)
EXTENDS Serving, WellFoundedInduction, TLAPS

(***************************************************************************)
(* The inductive invariant                                                  *)
(***************************************************************************)

Runs == [start : Nat, end : Nat]

Heads == [number : 0 .. MaxBlock, runs : Seq(Runs)]

\* The runs of a head follow one another and hold every block up to its number.
HeadOK(head) ==
    /\ head \in Heads
    /\ Len(head.runs) \in 1 .. MAX_RUNS
    /\ \A p \in 1 .. Len(head.runs) :
         head.runs[p].start <= head.runs[p].end /\ head.runs[p].end <= head.number
    /\ \A p, q \in 1 .. Len(head.runs) : p < q => head.runs[p].end < head.runs[q].start
    /\ \A b \in 0 .. head.number : \E p \in 1 .. Len(head.runs) :
         b \in head.runs[p].start .. head.runs[p].end

ArchiveInv ==
    /\ history \in Histories
    /\ heads \in Seq(Heads) /\ heads # << >>
    /\ \A h \in 1 .. Len(heads) : HeadOK(heads[h])
    /\ \A g, h \in 1 .. Len(heads) : g <= h => heads[g].number <= heads[h].number

CallStates ==
    [method : Methods, selector : Nat \cup {Latest}, block : Nat \cup {None},
     step : Nat, pos : Nat, pc : {"queued", "probe", "spill", "tree"} \cup Stopped,
     spent : Nat, walk : Nat, shards : SUBSET (Runs \X {"address", "spill"} \X Methods),
     account : Nat \cup {None}, false_positive : BOOLEAN, value : Nat \cup {None}]
Calling == [kind : {"native", "edge"}, calls : Seq(CallStates)]

Sources == {"static", "refreshing", "loaded"}

\* The front end that is deployed holds the head it needs, and shows no client an
\* earlier block than before.
ServerInv ==
    /\ server \in [kind : {"native", "edge"}, source : Sources, opened : Nat, faults : Nat, shown : Nat]
    /\ server.opened <= Len(heads) /\ (server.kind = "edge" => server.opened = 0)
    /\ server.shown <= Newest(heads).number
    /\ readers \in Seq(1 .. Len(heads))
    /\ request.kind = "native" => server.kind = "native"
    /\ request.kind \in {"edge", "object"} => server.kind = "edge"
    /\ server.kind = "native" => readers # << >> /\ HeadOf(Pinned).number <= InUse.number
    /\ request.kind = "edge" => readers # << >>
    /\ server.kind = "native" \/ request.kind = "edge" => server.shown <= HeadOf(Pinned).number

\* What the chain holds for a key at a block.
Value(key, block) == At(Run(0, block), key, block)
AccountKey == [kind |-> "account"]

\* No run after pos has a version that a lookup at block may return.
NoneAbove(head, key, block, pos) ==
    \A p \in pos + 1 .. Len(head.runs) :
        \A b \in head.runs[p].start .. head.runs[p].end : b <= block => ~Writer(b, key)

\* A call in the middle of a lookup.
Looking(kind, head, c) ==
    LET plan == Plan(kind, c.method) IN
    /\ c.block \in 0 .. head.number /\ c.value = None
    /\ c.step \in 1 .. Len(plan) /\ c.pos \in 1 .. Len(head.runs)
    /\ NoneAbove(head, KeyOf(kind, c), c.block, c.pos)
    /\ plan[c.step].key # "account" =>
         /\ c.account = Value(AccountKey, c.block) /\ Exists(c.account)
         /\ c.method = "code" => HasCode(c.account)

\* A call is at the block it asks for: the head's, for "latest".
Resolved(head, c) == c.block = IF c.selector = Latest THEN head.number ELSE c.selector

CallOK(kind, head, c) ==
    /\ c.pc = "queued" => c.block = None /\ c.value = None /\ c.step = 1
    /\ c.block # None => Resolved(head, c)
    /\ c.pc \in {"probe", "spill", "tree"} => Looking(kind, head, c)
    /\ c.pc = "ok" => c.value = Truth(c.method, c.block)
    /\ c.pc # "no_blob"

CallsOK ==
    \A kind \in {request.kind}, head \in {HeadOf(Pinned)} :
        \A i \in DOMAIN request.calls : \A c \in {CallOf(i)} : CallOK(kind, head, c)

\* The bytes of the object are asked for when metadata did not settle the answer.
ObjectOK ==
    /\ request.pc = "get" => AfterHead(request.asked, TRUE, request.size) = NoResponse
    /\ GatewayExact

Responses == [status : Nat, offset : Int, length : Int, cacheable : BOOLEAN]
Gatewaying == [kind : {"object"}, asked : ObjectRequests, run : Runs, size : Sizes,
               pc : {"head", "get", "done"},
               response : Responses]

RequestInv ==
    /\ request \in {Idle} \cup Calling \cup Gatewaying
    /\ StateRequest => CallsOK
    /\ request.kind = "object" => ObjectOK

ServingInv == ArchiveInv /\ ServerInv /\ RequestInv

-----------------------------------------------------------------------------
(* Numbers *)

LEMMA Amounts ==
    /\ MaxBlock \in Nat /\ FirstHead \in Nat /\ MAX_RUNS \in Nat /\ FirstHead < MAX_RUNS
    /\ MAX_REQUEST \in Nat /\ HeadCost \in Nat /\ ShardCost \in Nat /\ TreeCost \in Nat
    /\ WalkGets \in Nat \ {0} /\ None \notin Nat /\ Latest \notin Nat
BY ServingAssumption

\* Integers that have an upper bound have a greatest one.
LEMMA MaxFacts ==
    ASSUME NEW S \in SUBSET Int, S # {}, NEW n \in Int, \A x \in S : x <= n
    PROVE  Max(S) \in S /\ \A y \in S : y <= Max(S)
<1> DEFINE D == {n - x : x \in S}
           R == OpToRel(<, Nat)
<1>1. D \in SUBSET Nat /\ D # {}
  <2>1. \A x \in S : n - x \in Nat
    OBVIOUS
  <2> QED BY Zenon, <2>1
<1>2. \E i \in D : \A j \in D : ~(<<j, i>> \in R)
  <2> HIDE DEF D
  <2> QED BY Zenon, <1>1, NatLessThanWellFounded, WFMin
<1>3. PICK x \in S : \A y \in S : ~(<<n - y, n - x>> \in R)
  BY Zenon, <1>2
<1>4. ASSUME NEW y \in S, x < y PROVE FALSE
  <2>1. n - y \in Nat /\ n - x \in Nat /\ n - y < n - x
    BY <1>4
  <2>2. <<n - y, n - x>> \in R
    BY Zenon, <2>1 DEF OpToRel
  <2> QED BY Zenon, <1>3, <2>2
<1>5. \A y \in S : x >= y
  BY <1>4
<1> QED BY Zenon, <1>5 DEF Max

-----------------------------------------------------------------------------
(* What the chain holds *)

\* The last block that writes something, or -1.
LEMMA LastFacts ==
    ASSUME NEW block \in Nat, NEW what
    PROVE  /\ Last(what, block) \in -1 .. block
           /\ Last(what, block) # -1 => Writes(Last(what, block), what)
           /\ \A b \in 0 .. block : Writes(b, what) => b <= Last(what, block)
<1> DEFINE S == {-1} \cup {b \in 0 .. block : Writes(b, what)}
<1>1. Max(S) \in S /\ \A y \in S : y <= Max(S)
  <2>1. S \in SUBSET Int /\ S # {} /\ \A x \in S : x <= block
    OBVIOUS
  <2> HIDE DEF S
  <2> QED BY <2>1, MaxFacts
<1>2. Last(what, block) = Max(S)
  BY Zenon DEF Last
<1> DEFINE m == Max(S)
<1>3. m \in S /\ \A y \in S : y <= m
  BY Zenon, <1>1
<1> HIDE DEF m
<1>4. /\ m \in -1 .. block
      /\ m # -1 => Writes(m, what)
      /\ \A b \in 0 .. block : Writes(b, what) => b <= m
  BY <1>3
<1> QED BY Zenon, <1>2, <1>4 DEF m

\* The version of a key that a run has for a block is the last one up to it.
LEMMA AtFacts ==
    ASSUME NEW run \in Runs, NEW key, NEW block \in Nat
    PROVE  \/ /\ At(run, key, block) = None
              /\ \A b \in run.start .. run.end : b <= block => ~Writer(b, key)
           \/ /\ At(run, key, block) \in run.start .. run.end
              /\ At(run, key, block) <= block
              /\ Writer(At(run, key, block), key)
              /\ \A b \in run.start .. run.end : b <= block /\ Writer(b, key) => b <= At(run, key, block)
<1> DEFINE S == {b \in run.start .. run.end : b <= block /\ Writer(b, key)}
<1>1. At(run, key, block) = IF S = {} THEN None ELSE Max(S)
  BY Zenon DEF At
<1>2. S \in SUBSET Int /\ \A x \in S : x <= block
  BY DEF Runs
<1>3. CASE S = {}
  BY Zenon, <1>1, <1>3
<1>4. CASE S # {}
  <2> DEFINE m == Max(S)
  <2>1. m \in S /\ \A y \in S : y <= m
    <3> HIDE DEF S
    <3> QED BY <1>2, <1>4, MaxFacts
  <2>2. At(run, key, block) = m
    BY Zenon, <1>1, <1>4
  <2> HIDE DEF m
  <2> QED BY Zenon, <2>1, <2>2
<1> QED BY Zenon, <1>3, <1>4

\* Two blocks are of one incarnation when no destruction lies between them.
LEMMA IncarnationFacts ==
    ASSUME NEW a \in Nat, NEW b \in Nat, a <= b
    PROVE  Incarnation(a) = Incarnation(b) <=> \A d \in a .. b - 1 : ~Writes(d, "destroyed")
<1> DEFINE S(n) == {d \in 0 .. n - 1 : Writes(d, "destroyed")}
<1>1. S(a) = S(b) <=> \A d \in a .. b - 1 : ~Writes(d, "destroyed")
  OBVIOUS
<1> QED BY Zenon, <1>1 DEF Incarnation

\* The record of the account tells whether it exists, and which block wrote it.
LEMMA AccountFacts ==
    ASSUME history \in Histories, NEW block \in 0 .. MaxBlock
    PROVE  /\ Value(AccountKey, block) \in (0 .. block) \cup {None}
           /\ Exists(Value(AccountKey, block)) =>
                /\ Since("account", block) = Value(AccountKey, block)
                /\ Value(AccountKey, block) = Last("account", block)
                /\ Last("destroyed", block) < Last("account", block)
           /\ ~Exists(Value(AccountKey, block)) => Since("account", block) = None
<1> DEFINE v == Value(AccountKey, block)
           A == Last("account", block)
           D == Last("destroyed", block)
<1>1. block \in Nat /\ None \notin Nat
  BY Amounts
<1>2. \A b \in 0 .. block : Writer(b, AccountKey) <=> Writes(b, "account") \/ Writes(b, "destroyed")
  BY Zenon DEF Writer, AccountKey
<1>3. \/ v = None /\ \A b \in 0 .. block : ~Writer(b, AccountKey)
      \/ v \in 0 .. block /\ Writer(v, AccountKey) /\ \A b \in 0 .. block : Writer(b, AccountKey) => b <= v
  <2> DEFINE run == Run(0, block)
  <2>1. run \in Runs /\ run.start = 0 /\ run.end = block
    BY Zenon, <1>1 DEF Run, Runs
  <2> HIDE DEF run
  <2>2. v = At(run, AccountKey, block)
    BY Zenon DEF Value, run
  <2> HIDE DEF v
  <2> QED BY <1>1, <2>1, <2>2, AtFacts
<1>4. /\ A \in -1 .. block /\ (A # -1 => Writes(A, "account"))
      /\ \A b \in 0 .. block : Writes(b, "account") => b <= A
  BY Zenon, <1>1, LastFacts
<1>5. /\ D \in -1 .. block /\ (D # -1 => Writes(D, "destroyed"))
      /\ \A b \in 0 .. block : Writes(b, "destroyed") => b <= D
  BY Zenon, <1>1, LastFacts
<1>6. \A b \in 0 .. block : ~(Writes(b, "account") /\ Writes(b, "destroyed"))
  BY ServingAssumption DEF Writes
<1>7. Exists(v) <=> v # None /\ ~Writes(v, "destroyed")
  BY Zenon DEF Exists
<1>8. Since("account", block) = IF A > D THEN A ELSE None
  BY Zenon DEF Since
<1> HIDE DEF v, A, D
<1>9. Exists(v) => v = A /\ D < A
  BY <1>1, <1>2, <1>3, <1>4, <1>5, <1>6, <1>7
<1>10. ~Exists(v) => ~(A > D)
  BY <1>1, <1>2, <1>3, <1>4, <1>5, <1>6, <1>7
<1> QED BY Zenon, <1>1, <1>3, <1>8, <1>9, <1>10 DEF v, A, D

\* The blocks of the account's incarnation are those after its last destruction.
LEMMA IncarnationOf ==
    ASSUME history \in Histories, NEW block \in 0 .. MaxBlock,
           Exists(Value(AccountKey, block)), NEW b \in 0 .. block
    PROVE  Incarnation(b) = Incarnation(Value(AccountKey, block)) <=> b > Last("destroyed", block)
<1> DEFINE v == Value(AccountKey, block)
           D == Last("destroyed", block)
<1>1. block \in Nat
  BY Amounts
<1>2. D < v /\ v \in 0 .. block
  BY <1>1, Amounts, AccountFacts, LastFacts
<1>3. /\ D \in -1 .. block /\ (D # -1 => Writes(D, "destroyed"))
      /\ \A d \in 0 .. block : Writes(d, "destroyed") => d <= D
  BY Zenon, <1>1, LastFacts
<1> HIDE DEF v, D
<1>4. CASE b <= v
  <2>1. Incarnation(b) = Incarnation(v) <=> \A d \in b .. v - 1 : ~Writes(d, "destroyed")
    BY <1>2, <1>4, IncarnationFacts
  <2> QED BY <1>2, <1>3, <2>1 DEF v, D
<1>5. CASE v <= b
  <2>1. Incarnation(v) = Incarnation(b) <=> \A d \in v .. b - 1 : ~Writes(d, "destroyed")
    BY <1>2, <1>5, IncarnationFacts
  <2> QED BY <1>2, <1>3, <1>5, <2>1 DEF v, D
<1> QED BY <1>2, <1>4, <1>5

StorageKey(account) == [kind |-> "storage", incarnation |-> Incarnation(account)]
CodeKey(account) == [kind |-> "code", hash |-> Max(Codes(account))]

\* What the chain holds for a key, as one block or none.
LEMMA ValueFacts ==
    ASSUME NEW key, NEW block \in Nat
    PROVE  \/ Value(key, block) = None /\ \A b \in 0 .. block : ~Writer(b, key)
           \/ /\ Value(key, block) \in 0 .. block /\ Writer(Value(key, block), key)
              /\ \A b \in 0 .. block : Writer(b, key) => b <= Value(key, block)
<1> DEFINE run == Run(0, block)
           v == Value(key, block)
<1>1. run \in Runs /\ run.start = 0 /\ run.end = block
  BY Zenon DEF Run, Runs
<1> HIDE DEF run
<1>2. v = At(run, key, block)
  BY Zenon DEF Value, run
<1> HIDE DEF v
<1>3. \/ v = None /\ \A b \in 0 .. block : ~Writer(b, key)
      \/ v \in 0 .. block /\ Writer(v, key) /\ \A b \in 0 .. block : Writer(b, key) => b <= v
  BY <1>1, <1>2, AtFacts
<1> QED BY Zenon, <1>3 DEF v

\* The slot under the account's incarnation is the slot since the last destruction.
LEMMA StorageFacts ==
    ASSUME history \in Histories, NEW block \in 0 .. MaxBlock, Exists(Value(AccountKey, block))
    PROVE  Value(StorageKey(Value(AccountKey, block)), block) = Since("slot", block)
<1> DEFINE key == StorageKey(Value(AccountKey, block))
           v == Value(key, block)
           L == Last("slot", block)
           D == Last("destroyed", block)
<1>1. block \in Nat /\ None \notin Nat
  BY Amounts
<1>2. \A b \in 0 .. block : Writer(b, key) <=> Writes(b, "slot") /\ b > D
  <2>1. \A b \in 0 .. block : Writer(b, key) <=>
          Writes(b, "slot") /\ Incarnation(b) = Incarnation(Value(AccountKey, block))
    BY Zenon DEF Writer, StorageKey
  <2> QED BY Zenon, <2>1, IncarnationOf
<1>3. /\ L \in -1 .. block /\ (L # -1 => Writes(L, "slot"))
      /\ \A b \in 0 .. block : Writes(b, "slot") => b <= L
  BY Zenon, <1>1, LastFacts
<1>4. D \in -1 .. block
  BY Zenon, <1>1, LastFacts
<1>5. Since("slot", block) = IF L > D THEN L ELSE None
  BY Zenon DEF Since
<1> HIDE DEF key
<1>6. \/ v = None /\ \A b \in 0 .. block : ~Writer(b, key)
      \/ v \in 0 .. block /\ Writer(v, key) /\ \A b \in 0 .. block : Writer(b, key) => b <= v
  BY Zenon, <1>1, ValueFacts
<1> HIDE DEF v, L, D
<1>7. v = IF L > D THEN L ELSE None
  BY <1>1, <1>2, <1>3, <1>4, <1>6
<1> QED BY Zenon, <1>5, <1>7 DEF v, key, L, D

\* The record of the account holds the hash of the code it was last given since
\* its last destruction, and the blob is that code.
LEMMA CodeFacts ==
    ASSUME history \in Histories, NEW block \in 0 .. MaxBlock, Exists(Value(AccountKey, block))
    PROVE  /\ ~HasCode(Value(AccountKey, block)) => Since("code", block) = None
           /\ HasCode(Value(AccountKey, block)) =>
                /\ Since("code", block) # None
                /\ Value(CodeKey(Value(AccountKey, block)), block) = Since("code", block)
<1> DEFINE v == Value(AccountKey, block)
           S == Codes(v)
           L == Last("code", block)
           A == Last("account", block)
           D == Last("destroyed", block)
<1>1. block \in Nat /\ None \notin Nat
  BY Amounts
<1>2. v = A /\ D < A /\ A \in -1 .. block /\ \A b \in 0 .. block : Writes(b, "account") => b <= A
  BY Zenon, <1>1, AccountFacts, LastFacts
<1>3. /\ L \in -1 .. block /\ (L # -1 => Writes(L, "code"))
      /\ \A b \in 0 .. block : Writes(b, "code") => b <= L
  BY Zenon, <1>1, LastFacts
<1>4. D \in -1 .. block
  BY <1>1, LastFacts
<1>5. \A b \in 0 .. block : Writes(b, "code") => Writes(b, "account")
  BY ServingAssumption DEF Writes
<1>6. \A b \in 0 .. block : Incarnation(b) = Incarnation(v) <=> b > D
  BY Zenon, IncarnationOf
<1>7. S = {b \in 0 .. v : Writes(b, "code") /\ Incarnation(b) = Incarnation(v)}
  BY Zenon DEF Codes
<1>8. Since("code", block) = IF L > D THEN L ELSE None
  BY Zenon DEF Since
<1>9. HasCode(v) <=> S # {}
  BY Zenon DEF HasCode
<1> HIDE DEF v, S, L, A, D
<1>10. S # {} <=> L > D
  BY <1>1, <1>2, <1>3, <1>4, <1>5, <1>6, <1>7
<1>11. ASSUME L > D PROVE Value(CodeKey(v), block) = L
  <2>1. L \in S /\ \A b \in S : b <= L
    BY <1>1, <1>2, <1>3, <1>4, <1>5, <1>6, <1>7, <1>11
  <2>2. S \in SUBSET Int /\ S # {} /\ block \in Int /\ \A x \in S : x <= block
    BY <1>1, <1>2, <1>7, <2>1
  <2>3. Max(S) \in S /\ \A y \in S : y <= Max(S)
    BY Zenon, <2>2, MaxFacts
  <2>4. Max(S) = L
    <3> DEFINE m == Max(S)
    <3>1. m \in S /\ \A y \in S : y <= m
      BY Zenon, <2>3
    <3> HIDE DEF m
    <3>2. m \in Int /\ L \in Int /\ m <= L /\ L <= m
      BY Zenon, <2>1, <2>2, <3>1
    <3> QED BY <3>2 DEF m
  <2> DEFINE key == CodeKey(v)
             w == Value(key, block)
  <2>5. \A b \in 0 .. block : Writer(b, key) <=> Writes(b, "code") /\ b = L
    BY Zenon, <2>4 DEF Writer, CodeKey, S
  <2> HIDE DEF key
  <2>6. \/ w = None /\ \A b \in 0 .. block : ~Writer(b, key)
        \/ w \in 0 .. block /\ Writer(w, key) /\ \A b \in 0 .. block : Writer(b, key) => b <= w
    BY Zenon, <1>1, ValueFacts
  <2> HIDE DEF w
  <2>7. w = L
    BY <1>1, <1>3, <1>4, <1>11, <2>5, <2>6
  <2> QED BY Zenon, <2>7 DEF w, key
<1>12. ~HasCode(v) => Since("code", block) = None
  BY Zenon, <1>8, <1>9, <1>10
<1>13. HasCode(v) => Since("code", block) # None /\ Value(CodeKey(v), block) = Since("code", block)
  <2>1. L > D => L # None
    BY <1>1, <1>3, <1>4
  <2> QED BY Zenon, <1>8, <1>9, <1>10, <1>11, <2>1
<1> QED BY Zenon, <1>12, <1>13 DEF v

\* What the lookups of a call tell, put together, is what the chain says.
LEMMA TruthFacts ==
    ASSUME history \in Histories, NEW block \in 0 .. MaxBlock, NEW v, v = Value(AccountKey, block)
    PROVE  /\ v \in (0 .. block) \cup {None}
           /\ ~Exists(v) => \A method \in Methods : Truth(method, block) = None
           /\ Exists(v) =>
                /\ Truth("account", block) = v
                /\ Truth("storage", block) = Value(StorageKey(v), block)
                /\ ~HasCode(v) => Truth("code", block) = None
                /\ HasCode(v) => Value(CodeKey(v), block) # None /\ Truth("code", block) = Value(CodeKey(v), block)
<1>1. None \notin Nat /\ block \in Nat
  BY Amounts
<1>2. /\ v \in (0 .. block) \cup {None}
      /\ Exists(v) => Since("account", block) = v /\ v # None
      /\ ~Exists(v) => Since("account", block) = None
  BY Zenon, AccountFacts DEF Exists
<1>3. CASE ~Exists(v)
  BY Zenon, <1>2, <1>3 DEF Truth
<1>4. CASE Exists(v)
  <2>1. Value(StorageKey(v), block) = Since("slot", block)
    BY Zenon, <1>4, StorageFacts
  <2>2. /\ ~HasCode(v) => Since("code", block) = None
        /\ HasCode(v) => Since("code", block) # None /\ Value(CodeKey(v), block) = Since("code", block)
    BY Zenon, <1>4, CodeFacts
  <2>3. /\ Truth("account", block) = Since("account", block)
        /\ Truth("storage", block) = Since("slot", block)
        /\ Truth("code", block) = Since("code", block)
    BY Zenon, <1>2, <1>4 DEF Truth
  <2> QED BY Zenon, <1>2, <1>4, <2>1, <2>2, <2>3
<1> QED BY Zenon, <1>3, <1>4

-----------------------------------------------------------------------------
(* A lookup, run by run *)

LEMMA HeadTyped ==
    ASSUME NEW head, HeadOK(head)
    PROVE  /\ head.number \in 0 .. MaxBlock /\ head.number \in Nat
           /\ head.runs \in Seq(Runs) /\ Len(head.runs) \in Nat
           /\ \A p \in 1 .. Len(head.runs) :
                head.runs[p] \in Runs /\ head.runs[p].start \in Nat /\ head.runs[p].end \in Nat
<1>1. head.number \in 0 .. MaxBlock /\ head.runs \in Seq(Runs)
  BY Zenon DEF HeadOK, Heads
<1>2. \A p \in 1 .. Len(head.runs) : head.runs[p] \in Runs
  BY <1>1
<1>3. \A run \in Runs : run.start \in Nat /\ run.end \in Nat
  BY Zenon DEF Runs
<1> QED BY <1>1, <1>2, <1>3, Amounts

\* A version that a run has, when no later run has any, is the chain's.
LEMMA FoundIsValue ==
    ASSUME NEW head, HeadOK(head), NEW key, NEW block \in 0 .. head.number,
           NEW pos \in 1 .. Len(head.runs), NoneAbove(head, key, block, pos),
           At(head.runs[pos], key, block) # None
    PROVE  At(head.runs[pos], key, block) = Value(key, block)
<1> DEFINE runs == head.runs
           v == At(runs[pos], key, block)
           w == Value(key, block)
<1>1. /\ runs \in Seq(Runs) /\ block \in Nat /\ Len(runs) \in Nat
      /\ \A p \in 1 .. Len(runs) : runs[p] \in Runs /\ runs[p].start \in Nat /\ runs[p].end \in Nat
  BY HeadTyped
<1>2. /\ v \in runs[pos].start .. runs[pos].end /\ v <= block /\ Writer(v, key)
      /\ \A b \in runs[pos].start .. runs[pos].end : b <= block /\ Writer(b, key) => b <= v
  BY Zenon, <1>1, AtFacts
<1>3. \/ w = None /\ \A b \in 0 .. block : ~Writer(b, key)
      \/ w \in 0 .. block /\ Writer(w, key) /\ \A b \in 0 .. block : Writer(b, key) => b <= w
  BY Zenon, <1>1, ValueFacts
<1> HIDE DEF v, w
<1>4. v \in 0 .. block
  BY <1>1, <1>2
<1>5. w \in 0 .. block /\ Writer(w, key) /\ v <= w
  BY Zenon, <1>2, <1>3, <1>4
<1>6. PICK p \in 1 .. Len(runs) : w \in runs[p].start .. runs[p].end
  <2>1. w \in 0 .. head.number
    BY <1>1, <1>5, HeadTyped
  <2> QED BY Zenon, <2>1 DEF HeadOK
<1>7. ~(p > pos)
  <2>1. SUFFICES ASSUME p > pos PROVE FALSE
    BY Zenon
  <2>2. p \in pos + 1 .. Len(runs)
    BY <1>1, <2>1
  <2> QED BY <1>5, <1>6, <2>2 DEF NoneAbove
<1>8. p < pos => w < runs[pos].start
  BY <1>1, <1>6 DEF HeadOK
<1>9. v = w
  BY <1>1, <1>2, <1>4, <1>5, <1>6, <1>7, <1>8
<1> QED BY Zenon, <1>9 DEF v, w

\* When no run has a version, there is none.
LEMMA NoneIsValue ==
    ASSUME NEW head, HeadOK(head), NEW key, NEW block \in 0 .. head.number,
           NoneAbove(head, key, block, 0)
    PROVE  Value(key, block) = None
<1>1. block \in Nat /\ head.number \in Nat
  BY HeadTyped
<1>2. ASSUME NEW b \in 0 .. block PROVE ~Writer(b, key)
  <2>1. b \in 0 .. head.number /\ Len(head.runs) \in Nat
    BY <1>1, HeadTyped
  <2>2. PICK p \in 1 .. Len(head.runs) : b \in head.runs[p].start .. head.runs[p].end
    BY Zenon, <2>1 DEF HeadOK
  <2>3. p \in 0 + 1 .. Len(head.runs) /\ b <= block
    BY <2>2
  <2> QED BY Zenon, <2>2, <2>3 DEF NoneAbove
<1> QED BY Zenon, <1>1, <1>2, ValueFacts

\* The runs that a lookup skips start after the block.
LEMMA BelowFacts ==
    ASSUME NEW head, HeadOK(head), NEW key, NEW block \in 0 .. head.number,
           NEW pos \in 1 .. Len(head.runs) + 1, NoneAbove(head, key, block, pos - 1)
    PROVE  /\ Below(head.runs, pos, block) \in 0 .. pos - 1
           /\ NoneAbove(head, key, block, Below(head.runs, pos, block))
           /\ pos = Len(head.runs) + 1 => Below(head.runs, pos, block) # 0
           /\ LET below == Below(head.runs, pos, block) IN below # 0 => head.runs[below].start <= block
<1> DEFINE runs == head.runs
           S == {0} \cup {p \in 1 .. pos - 1 : runs[p].start <= block}
           m == Below(runs, pos, block)
<1>1. /\ block \in Nat /\ Len(runs) \in Nat
      /\ \A p \in 1 .. Len(runs) : runs[p].start \in Nat /\ runs[p].end \in Nat
  BY HeadTyped
<1>2. m \in S /\ \A y \in S : y <= m
  <2>1. m = Max(S)
    BY Zenon DEF Below
  <2>2. S \in SUBSET Int /\ S # {} /\ \A x \in S : x <= pos
    BY <1>1
  <2>3. pos \in Int
    BY <1>1
  <2> HIDE DEF S, m
  <2> QED BY Zenon, <2>1, <2>2, <2>3, MaxFacts
<1> HIDE DEF m
<1>3. m \in 0 .. pos - 1
  BY <1>1, <1>2
<1>4. \A p \in m + 1 .. pos - 1 : runs[p].start > block
  BY <1>1, <1>2, <1>3
<1>5. NoneAbove(head, key, block, m)
  <2>1. SUFFICES ASSUME NEW p \in m + 1 .. Len(runs), NEW b \in runs[p].start .. runs[p].end, b <= block
                 PROVE  ~Writer(b, key)
    BY Zenon DEF NoneAbove
  <2>2. p \in 1 .. Len(runs) /\ (p \in m + 1 .. pos - 1 \/ p \in (pos - 1) + 1 .. Len(runs))
    BY <1>1, <1>3
  <2>3. p \notin m + 1 .. pos - 1
    BY <1>1, <1>4, <2>1, <2>2
  <2> QED BY Zenon, <2>1, <2>2, <2>3 DEF NoneAbove
<1>6. pos = Len(runs) + 1 => m # 0
  <2>1. PICK p \in 1 .. Len(runs) : block \in runs[p].start .. runs[p].end
    BY Zenon DEF HeadOK
  <2>2. runs[p].start <= block
    BY <1>1, <2>1
  <2>3. ASSUME pos = Len(runs) + 1 PROVE p \in S
    BY <1>1, <2>2, <2>3
  <2> HIDE DEF S
  <2> QED BY <1>2, <1>3, <2>3
<1>7. m # 0 => runs[m].start <= block
  BY Zenon, <1>2
<1> QED BY Zenon, <1>3, <1>5, <1>6, <1>7 DEF m

-----------------------------------------------------------------------------
(* The lookups of a call *)

LEMMA PlanFacts ==
    ASSUME NEW kind \in {"native", "edge"}, NEW method \in Methods
    PROVE  LET plan == Plan(kind, method) IN
           /\ Len(plan) \in 1 .. 3 /\ plan[Len(plan)].key = method /\ plan[1].key = "account"
           /\ \A step \in 1 .. Len(plan) :
                \/ step = Len(plan)
                \/ plan[step].key = "account" /\ plan[step + 1].key \in {"account", method}
<1>1. CASE method = "account"
  BY <1>1 DEF Plan
<1>2. CASE method = "storage"
  BY <1>2 DEF Plan
<1>3. CASE method = "code" /\ kind = "native"
  BY <1>3 DEF Plan
<1>4. CASE method = "code" /\ kind = "edge"
  BY <1>4 DEF Plan
<1> QED BY Zenon, <1>1, <1>2, <1>3, <1>4 DEF Methods

LEMMA KeyFacts ==
    ASSUME NEW kind, NEW c
    PROVE  LET k == Plan(kind, c.method)[c.step].key IN
           /\ k = "account" => KeyOf(kind, c) = AccountKey
           /\ k = "storage" => KeyOf(kind, c) = StorageKey(c.account)
           /\ k = "code" => KeyOf(kind, c) = CodeKey(c.account)
BY Zenon DEF KeyOf, AccountKey, StorageKey, CodeKey

LEMMA EndsFacts ==
    ASSUME NEW c \in CallStates, NEW outcome \in Stopped
    PROVE  /\ Ends(c, outcome) \in CallStates /\ Ends(c, outcome).pc = outcome
           /\ Ends(c, outcome).block = c.block /\ Ends(c, outcome).selector = c.selector
           /\ Ends(c, outcome).method = c.method /\ Ends(c, outcome).value = c.value
BY ZenonT(30) DEF Ends, CallStates

\* A call that ended well is right if its value is.
LEMMA EndedOK ==
    ASSUME NEW kind, NEW head, NEW c \in CallStates, Resolved(head, c), NEW outcome \in Stopped \ {"no_blob"},
           NEW value \in Nat \cup {None}, outcome = "ok" => value = Truth(c.method, c.block)
    PROVE  /\ c.value = value => Ends(c, outcome) \in CallStates /\ CallOK(kind, head, Ends(c, outcome))
           /\ [Ends(c, outcome) EXCEPT !.value = value] \in CallStates
           /\ CallOK(kind, head, [Ends(c, outcome) EXCEPT !.value = value])
<1> DEFINE d == Ends(c, outcome)
           e == [d EXCEPT !.value = value]
<1>1. /\ d \in CallStates /\ d.pc = outcome /\ d.block = c.block /\ d.selector = c.selector
      /\ d.method = c.method /\ d.value = c.value
  BY Zenon, EndsFacts
<1>2. outcome \notin {"queued", "probe", "spill", "tree"}
  BY Zenon DEF Stopped
<1> HIDE DEF d
<1>3. c.value = value => CallOK(kind, head, d)
  BY Zenon, <1>1, <1>2 DEF CallOK, Resolved
<1>4. /\ e \in CallStates /\ e.pc = outcome /\ e.block = c.block /\ e.selector = c.selector
      /\ e.method = c.method /\ e.value = value
  BY <1>1 DEF CallStates
<1> HIDE DEF e
<1>5. CallOK(kind, head, e)
  BY Zenon, <1>2, <1>4 DEF CallOK, Resolved
<1> QED BY Zenon, <1>1, <1>3, <1>4, <1>5 DEF d, e

\* What the lookup in hand returned leads to the next lookup or to the answer.
LEMMA CallReturned ==
    ASSUME history \in Histories, NEW kind \in {"native", "edge"}, kind = request.kind,
           NEW head, HeadOK(head), head = HeadOf(Pinned),
           NEW c \in CallStates, Looking(kind, head, c), Resolved(head, c),
           NEW value, value = Value(KeyOf(kind, c), c.block)
    PROVE  Returned(c, value) \in CallStates /\ CallOK(kind, head, Returned(c, value))
<1> DEFINE plan == Plan(kind, c.method)
           k == plan[c.step].key
           last == c.step = Len(plan)
           known == k = "account" /\ (last \/ plan[c.step + 1].key # "account")
           stops == known /\ (~Exists(value) \/ (c.method = "code" /\ ~HasCode(value)))
           fresh == ~last /\ plan[c.step + 1].budget # plan[c.step].budget
           next == [c EXCEPT !.step = @ + 1, !.pos = First(head.runs, c.block), !.pc = "probe",
                             !.account = value, !.spent = IF fresh THEN 0 ELSE @]
           d == Returned(c, value)
<1>1. d = CASE stops -> Ends(c, "ok")
            [] last /\ ~stops -> IF c.method = "code" /\ value = None THEN Ends(c, "no_blob")
                                 ELSE [Ends(c, "ok") EXCEPT !.value = value]
            [] OTHER -> next
  BY Zenon DEF Returned
<1>2. /\ Len(plan) \in 1 .. 3 /\ plan[Len(plan)].key = c.method /\ plan[1].key = "account"
      /\ c.step \in 1 .. Len(plan)
      /\ last \/ (k = "account" /\ plan[c.step + 1].key \in {"account", c.method})
  BY ZenonT(30), PlanFacts DEF Looking, CallStates
<1>3. c.block \in 0 .. head.number /\ head.number \in 0 .. MaxBlock /\ c.block \in 0 .. MaxBlock /\ c.block \in Nat
  BY HeadTyped, Amounts DEF Looking
<1>4. value \in Nat \cup {None}
  BY <1>3, ValueFacts
<1>5. c.method \in Methods /\ c.value = None /\ None \notin Nat
  BY Zenon, Amounts DEF Looking, CallStates
<1>6. k = "account" => value = Value(AccountKey, c.block)
  BY Zenon, KeyFacts
<1>7. k # "account" => /\ last /\ k = c.method
                       /\ c.account = Value(AccountKey, c.block) /\ Exists(c.account)
                       /\ c.method = "code" => HasCode(c.account)
  BY Zenon, <1>2 DEF Looking
<1>8. ASSUME NEW v, v = Value(AccountKey, c.block)
      PROVE  /\ ~Exists(v) => Truth(c.method, c.block) = None
             /\ Exists(v) =>
                  /\ Truth("account", c.block) = v
                  /\ Truth("storage", c.block) = Value(StorageKey(v), c.block)
                  /\ ~HasCode(v) => Truth("code", c.block) = None
                  /\ HasCode(v) => /\ Value(CodeKey(v), c.block) # None
                                   /\ Truth("code", c.block) = Value(CodeKey(v), c.block)
  BY Zenon, <1>3, <1>5, <1>8, TruthFacts
<1>9. CASE stops
  <2>1. Truth(c.method, c.block) = None
    BY Zenon, <1>6, <1>8, <1>9
  <2>2. d = Ends(c, "ok")
    BY Zenon, <1>1, <1>9
  <2>3. "ok" \in Stopped \ {"no_blob"} /\ None \in Nat \cup {None}
    BY Zenon DEF Stopped
  <2>4. Ends(c, "ok") \in CallStates /\ CallOK(kind, head, Ends(c, "ok"))
    BY Zenon, <1>5, <2>1, <2>3, EndedOK
  <2> QED BY Zenon, <2>2, <2>4
<1>10. CASE last /\ ~stops
  <2>1. k = c.method
    BY Zenon, <1>2, <1>10
  <2>2. Truth(c.method, c.block) = value /\ ~(c.method = "code" /\ value = None)
    <3>1. CASE k = "account"
      BY Zenon, <1>6, <1>8, <1>10, <2>1, <3>1
    <3>2. CASE k = "storage"
      <4>1. value = Value(StorageKey(c.account), c.block)
        BY Zenon, <3>2, KeyFacts
      <4> QED BY Zenon, <1>7, <1>8, <2>1, <3>2, <4>1
    <3>3. CASE k = "code"
      <4>1. value = Value(CodeKey(c.account), c.block)
        BY Zenon, <3>3, KeyFacts
      <4> QED BY Zenon, <1>7, <1>8, <2>1, <3>3, <4>1
    <3> QED BY Zenon, <1>5, <2>1, <3>1, <3>2, <3>3 DEF Methods
  <2>3. d = [Ends(c, "ok") EXCEPT !.value = value]
    BY Zenon, <1>1, <1>10, <2>2
  <2>4. "ok" \in Stopped \ {"no_blob"}
    BY Zenon DEF Stopped
  <2>5. /\ [Ends(c, "ok") EXCEPT !.value = value] \in CallStates
        /\ CallOK(kind, head, [Ends(c, "ok") EXCEPT !.value = value])
    BY Zenon, <1>4, <2>2, <2>4, EndedOK
  <2> QED BY Zenon, <2>3, <2>5
<1>11. CASE ~last /\ ~stops
  <2> DEFINE pos == First(head.runs, c.block)
  <2>1. d = next
    BY Zenon, <1>1, <1>11
  <2>2. Len(head.runs) \in Nat
    BY Zenon, HeadTyped
  <2>3. pos \in 1 .. Len(head.runs) /\ NoneAbove(head, KeyOf(kind, next), c.block, pos)
    <3> DEFINE key == KeyOf(kind, next)
    <3> HIDE DEF key
    <3>1. NoneAbove(head, key, c.block, Len(head.runs) + 1 - 1) /\ Len(head.runs) + 1 \in 1 .. Len(head.runs) + 1
      BY <2>2 DEF NoneAbove
    <3>2. /\ pos \in 0 .. Len(head.runs) + 1 - 1
          /\ NoneAbove(head, key, c.block, pos) /\ pos # 0
      <4> DEFINE above == Len(head.runs) + 1
      <4>1. pos = Below(head.runs, above, c.block)
        BY Zenon DEF First
      <4>2. above \in 1 .. Len(head.runs) + 1 /\ NoneAbove(head, key, c.block, above - 1)
        BY <3>1
      <4> HIDE DEF pos, above
      <4>3. /\ pos \in 0 .. above - 1 /\ NoneAbove(head, key, c.block, pos)
            /\ above = Len(head.runs) + 1 => pos # 0
        BY Zenon, <1>3, <4>1, <4>2, BelowFacts
      <4> QED BY <4>3 DEF above
    <3> QED BY <2>2, <3>2 DEF key
  <2> HIDE DEF pos
  <2>4. /\ next \in CallStates /\ next.pc = "probe" /\ next.block = c.block /\ next.value = None
        /\ next.step = c.step + 1 /\ next.pos = pos /\ next.account = value
        /\ next.method = c.method /\ next.selector = c.selector
    <3> DEFINE step == c.step + 1
               spent == IF fresh THEN 0 ELSE c.spent
    <3>1. step \in Nat /\ pos \in Nat /\ c.spent \in Nat
      BY <2>2, <2>3 DEF CallStates
    <3> HIDE DEF fresh
    <3>2. spent \in Nat
      BY Zenon, <3>1
    <3>3. next = [c EXCEPT !.step = step, !.pos = pos, !.pc = "probe", !.account = value, !.spent = spent]
      BY Zenon DEF pos
    <3> HIDE DEF next, step, spent
    <3>4. /\ next \in CallStates /\ next.pc = "probe" /\ next.block = c.block /\ next.value = c.value
          /\ next.step = step /\ next.pos = pos /\ next.account = value
          /\ next.method = c.method /\ next.selector = c.selector
      BY ZenonT(30), <1>4, <3>1, <3>2, <3>3 DEF CallStates
    <3> QED BY Zenon, <1>5, <3>4 DEF step
  <2>5. c.step + 1 \in 1 .. Len(plan)
    BY <1>2, <1>11
  <2>6. plan[c.step + 1].key # "account" =>
          value = Value(AccountKey, c.block) /\ Exists(value) /\ (c.method = "code" => HasCode(value))
    BY Zenon, <1>2, <1>6, <1>11
  <2> HIDE DEF next
  <2>7. Looking(kind, head, next)
    BY Zenon, <1>3, <2>3, <2>4, <2>5, <2>6 DEF Looking
  <2>8. Resolved(head, next)
    BY Zenon, <2>4 DEF Resolved
  <2> QED BY Zenon, <2>1, <2>4, <2>7, <2>8 DEF CallOK
<1> QED BY Zenon, <1>9, <1>10, <1>11

\* The run in hand has no version: the lookup goes on, or it returns none.
LEMMA CallNextRun ==
    ASSUME history \in Histories, NEW kind \in {"native", "edge"}, kind = request.kind,
           NEW head, HeadOK(head), head = HeadOf(Pinned),
           NEW c \in CallStates, Looking(kind, head, c), Resolved(head, c),
           NoneAbove(head, KeyOf(kind, c), c.block, c.pos - 1)
    PROVE  NextRun(c) \in CallStates /\ CallOK(kind, head, NextRun(c))
<1> DEFINE next == Below(head.runs, c.pos, c.block)
           key == KeyOf(kind, c)
           d == [c EXCEPT !.pos = next, !.pc = "probe"]
<1>1. NextRun(c) = IF next # 0 THEN d ELSE Returned(c, None)
  BY Zenon DEF NextRun
<1>2. c.block \in 0 .. head.number /\ c.pos \in 1 .. Len(head.runs) /\ Len(head.runs) \in Nat
  BY Zenon, HeadTyped DEF Looking
<1>3. next \in 0 .. c.pos - 1 /\ NoneAbove(head, key, c.block, next)
  <2>1. c.pos \in 1 .. Len(head.runs) + 1
    BY <1>2
  <2> QED BY Zenon, <1>2, <2>1, BelowFacts
<1>4. CASE next = 0
  <2>1. Value(key, c.block) = None
    BY Zenon, <1>2, <1>3, <1>4, NoneIsValue
  <2> QED BY Zenon, <1>1, <1>4, <2>1, CallReturned
<1>5. CASE next # 0
  <2> HIDE DEF next
  <2>1. /\ d \in CallStates /\ d.pc = "probe" /\ d.block = c.block /\ d.value = c.value
        /\ d.step = c.step /\ d.pos = next /\ d.account = c.account
        /\ d.method = c.method /\ d.selector = c.selector
    <3>1. next \in Nat
      BY <1>2, <1>3
    <3>2. d = [c EXCEPT !.pos = next, !.pc = "probe"]
      BY Zenon
    <3> HIDE DEF d
    <3> QED BY Zenon, <3>1, <3>2 DEF CallStates
  <2>2. KeyOf(kind, d) = key
    BY Zenon, <2>1 DEF KeyOf
  <2> HIDE DEF d
  <2>3. Looking(kind, head, d) /\ Resolved(head, d)
    <3>1. next \in 1 .. Len(head.runs)
      BY <1>2, <1>3, <1>5
    <3> QED BY Zenon, <1>3, <2>1, <2>2, <3>1 DEF Looking, Resolved
  <2> QED BY Zenon, <1>1, <1>5, <2>1, <2>3 DEF CallOK, next
<1> QED BY Zenon, <1>4, <1>5

\* The chain does not change, so a call looks for the same key, and the same
\* blocks write it.
LEMMA KeysStable ==
    ASSUME history' = history, NEW kind, NEW c
    PROVE  KeyOf(kind, c)' = KeyOf(kind, c) /\ \A b, key : Writer(b, key)' <=> Writer(b, key)
<1>1. \A b : Incarnation(b)' = Incarnation(b)
  BY Zenon DEF Incarnation, Writes
<1>2. \A b, key : Writer(b, key)' <=> Writer(b, key)
  BY Zenon, <1>1 DEF Writer, Writes
<1>3. \A a : Codes(a)' = Codes(a)
  BY Zenon, <1>1 DEF Codes, Writes
<1>4. KeyOf(kind, c)' = KeyOf(kind, c)
  BY Zenon, <1>1, <1>3 DEF KeyOf
<1> QED BY Zenon, <1>2, <1>4

\* The chain does not change, so what was found about a call stays true.
LEMMA CallStable ==
    ASSUME history' = history, NEW kind, NEW head, NEW c, CallOK(kind, head, c)
    PROVE  CallOK(kind, head, c)'
<1>1. \A a : (Exists(a)' <=> Exists(a)) /\ (HasCode(a)' <=> HasCode(a))
  BY Zenon DEF Codes, Exists, HasCode, Writes, Incarnation
<1>2. Truth(c.method, c.block)' = Truth(c.method, c.block)
  BY Zenon DEF Truth, Since, Last, Writes
<1>3. NoneAbove(head, KeyOf(kind, c), c.block, c.pos)' <=> NoneAbove(head, KeyOf(kind, c), c.block, c.pos)
  BY Zenon, KeysStable DEF NoneAbove
<1>4. \A a : (a = Value(AccountKey, c.block))' <=> a = Value(AccountKey, c.block)
  BY Zenon DEF AccountKey, Value, At, Writer, Writes, Incarnation
<1>5. Looking(kind, head, c)' <=> Looking(kind, head, c)
  BY Zenon, <1>1, <1>3, <1>4 DEF Looking
<1> QED BY Zenon, <1>2, <1>5 DEF CallOK, Resolved

-----------------------------------------------------------------------------
(* The steps of a call *)

\* d has come as far as c in the same lookup of the same call.
AsFar(d, c) ==
    /\ d.method = c.method /\ d.selector = c.selector /\ d.block = c.block /\ d.step = c.step
    /\ d.pos = c.pos /\ d.account = c.account /\ d.value = c.value

\* The budget, the cached shards and the walk are no part of what is looked up.
LEMMA SameLookup ==
    ASSUME NEW kind, NEW head, NEW c, Looking(kind, head, c), Resolved(head, c), NEW d, AsFar(d, c)
    PROVE  /\ Looking(kind, head, d) /\ Resolved(head, d) /\ KeyOf(kind, d) = KeyOf(kind, c)
           /\ d.pc \in {"probe", "spill", "tree"} => CallOK(kind, head, d)
<1>1. KeyOf(kind, d) = KeyOf(kind, c)
  BY Zenon DEF KeyOf, AsFar
<1>2. Looking(kind, head, d)
  BY Zenon, <1>1 DEF Looking, AsFar
<1>3. Resolved(head, d)
  BY Zenon DEF Resolved, AsFar
<1> QED BY Zenon, <1>1, <1>2, <1>3 DEF CallOK

\* The request and head that a call runs under.
Context(kind, head) ==
    /\ history \in Histories
    /\ kind \in {"native", "edge"} /\ kind = request.kind
    /\ HeadOK(head) /\ head = HeadOf(Pinned)

LEMMA LookingFacts ==
    ASSUME NEW kind, NEW head, Context(kind, head), NEW c \in CallStates, CallOK(kind, head, c),
           c.pc \in {"probe", "spill", "tree"}
    PROVE  /\ Looking(kind, head, c) /\ Resolved(head, c)
           /\ c.pos \in 1 .. Len(head.runs) /\ Len(head.runs) \in Nat /\ head.runs[c.pos] \in Runs
           /\ c.block \in 0 .. head.number /\ c.block \in Nat
<1>1. Looking(kind, head, c)
  BY Zenon DEF CallOK
<1>2. HeadOK(head)
  BY Zenon DEF Context
<1>3. /\ c.pos \in 1 .. Len(head.runs) /\ Len(head.runs) \in Nat /\ head.runs[c.pos] \in Runs
      /\ c.block \in 0 .. head.number /\ c.block \in Nat
  BY <1>1, <1>2, HeadTyped DEF Looking
<1>4. Resolved(head, c)
  BY Zenon, <1>3, Amounts DEF CallOK
<1> QED BY Zenon, <1>1, <1>3, <1>4

\* A run without a version that the lookup may return is passed.
LEMMA PassRun ==
    ASSUME NEW kind, NEW head, Context(kind, head), NEW c \in CallStates, Looking(kind, head, c),
           \A b \in head.runs[c.pos].start .. head.runs[c.pos].end :
               b <= c.block => ~Writer(b, KeyOf(kind, c))
    PROVE  NoneAbove(head, KeyOf(kind, c), c.block, c.pos - 1)
<1> DEFINE key == KeyOf(kind, c)
<1>1. NoneAbove(head, key, c.block, c.pos) /\ c.pos \in Nat
  BY Zenon DEF Looking, CallStates
<1>2. \A b \in head.runs[c.pos].start .. head.runs[c.pos].end : b <= c.block => ~Writer(b, key)
  BY Zenon
<1> HIDE DEF key
<1>3. ASSUME NEW p \in c.pos - 1 + 1 .. Len(head.runs) PROVE p = c.pos \/ p \in c.pos + 1 .. Len(head.runs)
  BY <1>1, HeadTyped DEF Context
<1>4. NoneAbove(head, key, c.block, c.pos - 1)
  BY Zenon, <1>1, <1>2, <1>3 DEF NoneAbove
<1> QED BY Zenon, <1>4 DEF key

\* A GET that is refused ends the call without an answer.
LEMMA RefusedOK ==
    ASSUME NEW kind, NEW head, NEW c \in CallStates, Resolved(head, c), NEW why \in {"limit", "missing"}
    PROVE  Refused(c, why) \in CallStates /\ CallOK(kind, head, Refused(c, why))
<1>1. why \in Stopped \ {"no_blob"} /\ why # "ok"
  BY Zenon DEF Stopped
<1>2. c.value \in Nat \cup {None}
  BY Zenon DEF CallStates
<1> QED BY Zenon, <1>1, <1>2, EndedOK DEF Refused

LEMMA StartCallOK ==
    ASSUME NEW kind, NEW head, Context(kind, head), NEW i, CallOf(i) \in CallStates,
           CallOK(kind, head, CallOf(i)), StartCall(i)
    PROVE  \E d \in CallStates : CallOK(kind, head, d) /\ SetCall(i, d)
<1> DEFINE c == CallOf(i)
           block == resolve_selector(c.selector)
           pos == First(head.runs, block)
           late == [c EXCEPT !.block = block, !.pc = "unavailable"]
           d == [c EXCEPT !.block = block, !.pc = "probe", !.pos = pos]
<1>1. /\ c.pc = "queued"
      /\ SetCall(i, IF block > head.number THEN late ELSE d)
  BY Zenon DEF StartCall, Context
<1>2. c \in CallStates /\ c.value = None /\ c.step = 1
  BY Zenon, <1>1 DEF CallOK
<1>3. head.number \in Nat /\ Len(head.runs) \in Nat /\ block \in Nat
  BY Zenon, <1>2, HeadTyped DEF Context, CallStates, resolve_selector
<1>4. block = IF c.selector = Latest THEN head.number ELSE c.selector
  BY Zenon DEF resolve_selector, Context
<1>5. CASE block > head.number
  <2> HIDE DEF c, block
  <2>1. /\ late \in CallStates /\ late.pc = "unavailable" /\ late.block = block /\ late.selector = c.selector
    BY ZenonT(30), <1>2, <1>3 DEF CallStates, Stopped
  <2> HIDE DEF late
  <2>2. CallOK(kind, head, late)
    BY Zenon, <1>4, <2>1 DEF CallOK, Resolved
  <2> QED BY Zenon, <1>1, <1>5, <2>1, <2>2
<1>6. CASE ~(block > head.number)
  <2>1. block \in 0 .. head.number
    BY <1>3, <1>6
  <2>2. pos \in 1 .. Len(head.runs) /\ NoneAbove(head, KeyOf(kind, d), block, pos)
    <3> DEFINE key == KeyOf(kind, d)
               above == Len(head.runs) + 1
    <3> HIDE DEF key
    <3>1. pos = Below(head.runs, above, block)
      BY Zenon DEF First
    <3>2. above \in 1 .. Len(head.runs) + 1 /\ NoneAbove(head, key, block, above - 1)
      BY <1>3 DEF NoneAbove
    <3>3. HeadOK(head)
      BY Zenon DEF Context
    <3> HIDE DEF pos, above, block
    <3>4. /\ pos \in 0 .. above - 1 /\ NoneAbove(head, key, block, pos)
          /\ above = Len(head.runs) + 1 => pos # 0
      BY Zenon, <2>1, <3>1, <3>2, <3>3, BelowFacts
    <3>5. pos \in 1 .. Len(head.runs)
      BY <1>3, <3>4 DEF above
    <3> QED BY Zenon, <3>4, <3>5 DEF key
  <2>3. pos \in Nat
    BY <1>3, <2>2
  <2> HIDE DEF c, block, pos
  <2>4. /\ d \in CallStates /\ d.pc = "probe" /\ d.block = block /\ d.selector = c.selector
        /\ d.method = c.method /\ d.step = 1 /\ d.pos = pos /\ d.value = None
    BY ZenonT(30), <1>2, <1>3, <2>3 DEF CallStates
  <2> HIDE DEF d
  <2>5. Len(Plan(kind, d.method)) \in 1 .. 3 /\ Plan(kind, d.method)[1].key = "account"
    BY Zenon, <2>4, PlanFacts DEF Context, CallStates
  <2>6. Looking(kind, head, d)
    BY <2>1, <2>2, <2>4, <2>5 DEF Looking
  <2>7. Resolved(head, d)
    BY Zenon, <1>4, <2>4 DEF Resolved
  <2>8. CallOK(kind, head, d)
    BY Zenon, <2>4, <2>6, <2>7 DEF CallOK
  <2> QED BY Zenon, <1>1, <1>6, <2>4, <2>8
<1> QED BY Zenon, <1>5, <1>6

\* The outcomes of a GET for call c: it is refused; a shard tells whether the run
\* has the key; a walk goes on, or ends at the version of the run.
Denied(i, c, run, cost) ==
    LET got == Fetched(c, run, cost) IN got # "fetched" /\ SetCall(i, Refused(c, got))
Probes(i, c, run, key, call) ==
    /\ AsFar(call, c) /\ call.walk = c.walk
    /\ call.spent \in {c.spent, c.spent + ShardCost}
    /\ ~call.false_positive => ~c.false_positive
    /\ \/ /\ SetCall(i, [call EXCEPT !.pc = "spill"]) /\ c.pc = "probe"
          /\ ~call.false_positive => key.kind = "storage"
       \/ /\ SetCall(i, [call EXCEPT !.pc = "tree"])
          /\ ~call.false_positive => HasKey(run, key)
       \/ SetCall(i, NextRun(call)) /\ ~HasKey(run, key)
Walks(i, c, run, key, call) ==
    /\ AsFar(call, c) /\ call.pc = "tree" /\ call.walk = (c.walk + 1) % WalkGets
    /\ call.spent = c.spent + TreeCost /\ call.false_positive = c.false_positive
    /\ \/ call.walk # 0 /\ SetCall(i, call)
       \/ /\ call.walk = 0
          /\ \E value \in {At(run, key, c.block)} :
                SetCall(i, IF value = None THEN NextRun(call) ELSE Returned(call, value))

LEMMA ChargedFacts ==
    ASSUME NEW c \in CallStates, NEW cost \in Nat
    PROVE  LET d == Charged(c, cost)
           IN  /\ d \in CallStates /\ AsFar(d, c) /\ d.pc = c.pc /\ d.walk = c.walk
               /\ d.spent = c.spent + cost /\ d.false_positive = c.false_positive
<1>1. c.spent + cost \in Nat
  BY DEF CallStates
<1> QED BY Zenon, <1>1 DEF Charged, CallStates, AsFar

LEMMA KeyKind ==
    ASSUME NEW kind, NEW head, Context(kind, head), NEW c \in CallStates, Looking(kind, head, c)
    PROVE  KeyOf(kind, c).kind \in Methods
<1> DEFINE plan == Plan(kind, c.method)
<1>1. kind \in {"native", "edge"} /\ c.method \in Methods /\ c.step \in 1 .. Len(plan)
  BY Zenon DEF Context, CallStates, Looking
<1>2. plan[c.step].key \in Methods
  <2>1. /\ plan[Len(plan)].key = c.method
        /\ c.step = Len(plan) \/ plan[c.step].key = "account"
    BY <1>1, PlanFacts
  <2> QED BY Zenon, <1>1, <2>1 DEF Methods
<1>3. \A key \in Methods : plan[c.step].key = key => KeyOf(kind, c).kind = key
  BY Zenon DEF KeyOf, Methods
<1> QED BY Zenon, <1>2, <1>3

\* What is noted when a shard has answered.
Noted(c, false, shards) == [c EXCEPT !.false_positive = false, !.shards = shards]

LEMMA NotedFacts ==
    ASSUME NEW c \in CallStates, NEW false \in BOOLEAN,
           NEW shards \in SUBSET (Runs \X {"address", "spill"} \X Methods)
    PROVE  LET d == Noted(c, false, shards)
           IN  /\ d \in CallStates /\ AsFar(d, c) /\ d.pc = c.pc /\ d.walk = c.walk /\ d.spent = c.spent
               /\ d.false_positive = false
<1>1. CASE false = TRUE
  BY ZenonT(30), <1>1 DEF Noted, CallStates, AsFar
<1>2. CASE false = FALSE
  BY ZenonT(30), <1>2 DEF Noted, CallStates, AsFar
<1> QED BY Zenon, <1>1, <1>2

\* What comes of asking a shard of a run for a key.
LEMMA MayContainStep ==
    ASSUME NEW kind, NEW head, Context(kind, head), NEW i, NEW c \in CallStates, c = CallOf(i),
           NEW run \in Runs, run = head.runs[c.pos], NEW key, key = KeyOf(kind, c),
           key.kind \in Methods, NEW answer, NEW cached \in BOOLEAN, MayContain(i, answer, cached)
    PROVE  /\ c.pc \in {"probe", "spill"}
           /\ \/ Denied(i, c, run, ShardCost)
              \/ \E call \in CallStates : Probes(i, c, run, key, call)
<1> DEFINE shard == IF c.pc = "probe" THEN "address" ELSE "spill"
           wrong == \/ answer = "yes" /\ ~HasKey(run, key)
                    \/ answer = "marker" /\ key.kind # "storage"
           got == IF cached THEN "fetched" ELSE Fetched(c, run, ShardCost)
           paid == IF cached THEN c ELSE Charged(c, ShardCost)
           shards == Remembered(paid.shards, run, shard, key)
           call == [paid EXCEPT !.false_positive = @ \/ wrong, !.shards = shards]
<1>1. /\ c.pc \in {"probe", "spill"} /\ answer \in Answers(run, key, shard)
      /\ SetCall(i, IF got # "fetched" THEN Refused(c, got)
                    ELSE CASE answer = "marker" -> [call EXCEPT !.pc = "spill"]
                           [] answer = "yes" -> [call EXCEPT !.pc = "tree"]
                           [] answer = "no" -> NextRun(call))
  BY Zenon DEF MayContain, RunOf, Context
<1>2. wrong \in BOOLEAN /\ shard \in {"address", "spill"} /\ (shard = "address" => c.pc = "probe")
  BY Zenon
<1> HIDE DEF shard
<1>3. answer \in {"yes", "no", "marker"} /\ (answer = "no" => ~HasKey(run, key))
      /\ (answer = "marker" => c.pc = "probe")
  BY Zenon, <1>1, <1>2 DEF Answers
<1>4. /\ answer = "yes" /\ ~wrong => HasKey(run, key)
      /\ answer = "marker" /\ ~wrong => key.kind = "storage"
  BY Zenon
<1>5. got # "fetched" => got = Fetched(c, run, ShardCost)
  BY Zenon
<1>6. /\ paid \in CallStates /\ AsFar(paid, c) /\ paid.walk = c.walk
      /\ paid.spent \in {c.spent, c.spent + ShardCost} /\ paid.false_positive = c.false_positive
  <2>1. CASE cached
    BY Zenon, <2>1 DEF AsFar
  <2>2. CASE ~cached
    <3>1. paid = Charged(c, ShardCost)
      BY Zenon, <2>2
    <3> HIDE DEF paid
    <3> QED BY Zenon, <3>1, ChargedFacts, Amounts
  <2> QED BY Zenon, <2>1, <2>2
<1> HIDE DEF got, wrong, paid
<1>7. shards \in SUBSET (Runs \X {"address", "spill"} \X Methods)
  <2>1. Route(key, shard) \in Methods
    BY Zenon DEF Route, Methods
  <2>2. paid.shards \in SUBSET (Runs \X {"address", "spill"} \X Methods)
    BY Zenon, <1>6 DEF CallStates
  <2>3. <<run, shard, Route(key, shard)>> \in Runs \X {"address", "spill"} \X Methods
    BY Zenon, <1>2, <2>1
  <2> QED BY Zenon, <2>2, <2>3 DEF Remembered
<1> HIDE DEF shards
<1>8. /\ call \in CallStates /\ AsFar(call, paid) /\ call.walk = paid.walk /\ call.spent = paid.spent
      /\ ~call.false_positive => ~paid.false_positive /\ ~wrong
  <2> DEFINE false == paid.false_positive \/ wrong
  <2>1. call = Noted(paid, false, shards) /\ false \in BOOLEAN
    BY Zenon DEF Noted
  <2>2. ~false => ~paid.false_positive /\ ~wrong
    BY Zenon
  <2> HIDE DEF call, false
  <2>3. /\ call \in CallStates /\ AsFar(call, paid) /\ call.walk = paid.walk /\ call.spent = paid.spent
        /\ call.false_positive = false
    BY <1>6, <1>7, <2>1, NotedFacts
  <2> QED BY Zenon, <2>2, <2>3
<1> HIDE DEF call
<1>9. /\ call \in CallStates /\ AsFar(call, c) /\ call.walk = c.walk
      /\ call.spent \in {c.spent, c.spent + ShardCost}
      /\ ~call.false_positive => ~c.false_positive /\ ~wrong
  BY Zenon, <1>6, <1>8 DEF AsFar
<1>10. \/ got # "fetched" /\ SetCall(i, Refused(c, got))
       \/ SetCall(i, [call EXCEPT !.pc = "spill"]) /\ answer = "marker"
       \/ SetCall(i, [call EXCEPT !.pc = "tree"]) /\ answer = "yes"
       \/ SetCall(i, NextRun(call)) /\ answer = "no"
  BY Zenon, <1>1, <1>3
<1>11. CASE got # "fetched" /\ SetCall(i, Refused(c, got))
  BY Zenon, <1>1, <1>5, <1>11 DEF Denied
<1>12. CASE ~(got # "fetched" /\ SetCall(i, Refused(c, got)))
  <2>1. \/ /\ SetCall(i, [call EXCEPT !.pc = "spill"]) /\ c.pc = "probe"
           /\ ~call.false_positive => key.kind = "storage"
        \/ /\ SetCall(i, [call EXCEPT !.pc = "tree"])
           /\ ~call.false_positive => HasKey(run, key)
        \/ SetCall(i, NextRun(call)) /\ ~HasKey(run, key)
    BY Zenon, <1>3, <1>4, <1>9, <1>10, <1>12
  <2> QED BY Zenon, <1>1, <1>9, <2>1 DEF Probes
<1> QED BY Zenon, <1>11, <1>12

\* A shard that denies a key is right, so the lookup passes a run without it.
LEMMA MayContainOK ==
    ASSUME NEW kind, NEW head, Context(kind, head), NEW i, CallOf(i) \in CallStates,
           CallOK(kind, head, CallOf(i)), NEW answer, NEW cached \in BOOLEAN, MayContain(i, answer, cached)
    PROVE  \E d \in CallStates : CallOK(kind, head, d) /\ SetCall(i, d)
<1>1. SUFFICES ASSUME NEW c \in CallStates, c = CallOf(i), CallOK(kind, head, c),
                      NEW run, run = head.runs[c.pos], NEW key, key = KeyOf(kind, c)
               PROVE  \E d \in CallStates : CallOK(kind, head, d) /\ SetCall(i, d)
  BY Zenon
<1>2. c.pc \in {"probe", "spill"}
  BY Zenon, <1>1 DEF MayContain
<1>3. Looking(kind, head, c) /\ Resolved(head, c) /\ run \in Runs
  BY Zenon, <1>1, <1>2, LookingFacts
<1>4. CASE Denied(i, c, run, ShardCost)
  BY Zenon, <1>3, <1>4, RefusedOK DEF Denied, Fetched
<1>5. ASSUME NEW call \in CallStates, AsFar(call, c), NEW pc \in {"spill", "tree"},
             SetCall(i, [call EXCEPT !.pc = pc])
      PROVE  \E d \in CallStates : CallOK(kind, head, d) /\ SetCall(i, d)
  <2> DEFINE d == [call EXCEPT !.pc = pc]
  <2>1. d \in CallStates /\ AsFar(d, c) /\ d.pc \in {"probe", "spill", "tree"}
    BY <1>5 DEF CallStates, AsFar
  <2> HIDE DEF d
  <2>2. CallOK(kind, head, d)
    BY Zenon, <1>3, <2>1, SameLookup
  <2> QED BY Zenon, <1>5, <2>1, <2>2 DEF d
<1>6. ASSUME NEW call \in CallStates, AsFar(call, c), SetCall(i, NextRun(call)), ~HasKey(run, key)
      PROVE  \E d \in CallStates : CallOK(kind, head, d) /\ SetCall(i, d)
  <2>1. Looking(kind, head, call) /\ Resolved(head, call) /\ KeyOf(kind, call) = key /\ call.pos = c.pos
    BY Zenon, <1>1, <1>3, <1>6, SameLookup DEF AsFar
  <2>2. NoneAbove(head, KeyOf(kind, call), call.block, call.pos - 1)
    <3>1. \A b \in head.runs[call.pos].start .. head.runs[call.pos].end : ~Writer(b, KeyOf(kind, call))
      BY Zenon, <1>1, <1>6, <2>1 DEF HasKey
    <3> QED BY Zenon, <2>1, <3>1, PassRun
  <2>3. NextRun(call) \in CallStates /\ CallOK(kind, head, NextRun(call))
    BY Zenon, <2>1, <2>2, CallNextRun DEF Context
  <2> QED BY Zenon, <1>6, <2>3
<1>7. Denied(i, c, run, ShardCost) \/ \E call \in CallStates : Probes(i, c, run, key, call)
  <2>1. key.kind \in Methods
    BY Zenon, <1>1, <1>3, KeyKind
  <2> QED BY Zenon, <1>1, <1>3, <2>1, MayContainStep
<1> QED BY Zenon, <1>4, <1>5, <1>6, <1>7 DEF Probes

\* What comes of one GET of a walk.
LEMMA TreeGetStep ==
    ASSUME NEW kind, NEW head, Context(kind, head), NEW i, NEW c \in CallStates, c = CallOf(i),
           NEW run, run = head.runs[c.pos], NEW key, key = KeyOf(kind, c), TreeGet(i)
    PROVE  /\ c.pc = "tree"
           /\ \/ Denied(i, c, run, TreeCost)
              \/ \E call \in CallStates : Walks(i, c, run, key, call)
<1> DEFINE got == Fetched(c, run, TreeCost)
           paid == Charged(c, TreeCost)
           walk == (paid.walk + 1) % WalkGets
           call == [paid EXCEPT !.walk = walk]
           value == At(run, key, call.block)
<1>1. /\ c.pc = "tree"
      /\ SetCall(i, CASE got # "fetched" -> Refused(c, got)
                      [] got = "fetched" /\ call.walk # 0 -> call
                      [] OTHER -> IF value = None THEN NextRun(call) ELSE Returned(call, value))
  BY Zenon DEF TreeGet, RunOf, Context
<1>2. /\ paid \in CallStates /\ AsFar(paid, c) /\ paid.pc = c.pc /\ paid.walk = c.walk
      /\ paid.spent = c.spent + TreeCost /\ paid.false_positive = c.false_positive
  BY Zenon, ChargedFacts, Amounts
<1> HIDE DEF paid
<1>3. walk \in Nat /\ walk = (c.walk + 1) % WalkGets
  BY <1>2, Amounts DEF CallStates
<1> HIDE DEF walk
<1>4. /\ call \in CallStates /\ AsFar(call, paid) /\ call.pc = paid.pc /\ call.walk = walk
      /\ call.spent = paid.spent /\ call.false_positive = paid.false_positive
  BY ZenonT(30), <1>2, <1>3 DEF CallStates, AsFar
<1> HIDE DEF call, got
<1>5. /\ AsFar(call, c) /\ call.pc = "tree" /\ call.walk = (c.walk + 1) % WalkGets
      /\ call.spent = c.spent + TreeCost /\ call.false_positive = c.false_positive
      /\ value = At(run, key, c.block)
  BY Zenon, <1>1, <1>2, <1>3, <1>4 DEF AsFar
<1> HIDE DEF value
<1>6. \/ got # "fetched" /\ SetCall(i, Refused(c, got))
      \/ call.walk # 0 /\ SetCall(i, call)
      \/ call.walk = 0 /\ SetCall(i, IF value = None THEN NextRun(call) ELSE Returned(call, value))
  BY Zenon, <1>1
<1> QED BY Zenon, <1>1, <1>4, <1>5, <1>6 DEF got, Denied, Walks

\* A walk finds the version of its run, or shows that it has none.
LEMMA TreeGetOK ==
    ASSUME NEW kind, NEW head, Context(kind, head), NEW i, CallOf(i) \in CallStates,
           CallOK(kind, head, CallOf(i)), TreeGet(i)
    PROVE  \E d \in CallStates : CallOK(kind, head, d) /\ SetCall(i, d)
<1>1. SUFFICES ASSUME NEW c \in CallStates, c = CallOf(i), CallOK(kind, head, c),
                      NEW run, run = head.runs[c.pos], NEW key, key = KeyOf(kind, c)
               PROVE  \E d \in CallStates : CallOK(kind, head, d) /\ SetCall(i, d)
  BY Zenon
<1>2. c.pc = "tree"
  BY Zenon, <1>1 DEF TreeGet
<1>3. /\ Looking(kind, head, c) /\ Resolved(head, c) /\ run \in Runs
      /\ c.pos \in 1 .. Len(head.runs) /\ c.block \in Nat /\ c.block \in 0 .. head.number
  BY Zenon, <1>1, <1>2, LookingFacts
<1>4. CASE Denied(i, c, run, TreeCost)
  BY Zenon, <1>3, <1>4, RefusedOK DEF Denied, Fetched
<1>5. ASSUME NEW call \in CallStates, AsFar(call, c), call.pc = "tree", SetCall(i, call)
      PROVE  \E d \in CallStates : CallOK(kind, head, d) /\ SetCall(i, d)
  BY Zenon, <1>3, <1>5, SameLookup
<1>6. ASSUME NEW call \in CallStates, AsFar(call, c), NEW value, value = At(run, key, c.block),
             SetCall(i, IF value = None THEN NextRun(call) ELSE Returned(call, value))
      PROVE  \E d \in CallStates : CallOK(kind, head, d) /\ SetCall(i, d)
  <2>1. /\ Looking(kind, head, call) /\ Resolved(head, call) /\ KeyOf(kind, call) = key
        /\ call.pos = c.pos /\ call.block = c.block
    BY Zenon, <1>1, <1>3, <1>6, SameLookup DEF AsFar
  <2>2. CASE value = None
    <3>1. \A b \in run.start .. run.end : b <= c.block => ~Writer(b, key)
      <4>1. \/ \A b \in run.start .. run.end : b <= c.block => ~Writer(b, key)
            \/ value \in run.start .. run.end
        BY Zenon, <1>3, <1>6, AtFacts
      <4>2. run.start \in Nat /\ run.end \in Nat /\ None \notin Nat
        BY Zenon, <1>3, Amounts DEF Runs
      <4> QED BY <2>2, <4>1, <4>2
    <3>2. NoneAbove(head, KeyOf(kind, call), call.block, call.pos - 1)
      BY Zenon, <1>1, <2>1, <3>1, PassRun
    <3>3. NextRun(call) \in CallStates /\ CallOK(kind, head, NextRun(call))
      BY Zenon, <2>1, <3>2, CallNextRun DEF Context
    <3> QED BY Zenon, <1>6, <2>2, <3>3
  <2>3. CASE value # None
    <3>1. value = Value(key, call.block)
      <4>1. HeadOK(head) /\ NoneAbove(head, key, c.block, c.pos)
        BY Zenon, <1>1, <1>3 DEF Looking, Context
      <4>2. value = At(head.runs[c.pos], key, c.block) /\ At(head.runs[c.pos], key, c.block) # None
        BY Zenon, <1>1, <1>6, <2>3
      <4>3. At(head.runs[c.pos], key, c.block) = Value(key, c.block)
        BY Zenon, <1>3, <4>1, <4>2, FoundIsValue
      <4> QED BY Zenon, <2>1, <4>2, <4>3
    <3>2. Returned(call, value) \in CallStates /\ CallOK(kind, head, Returned(call, value))
      BY Zenon, <2>1, <3>1, CallReturned DEF Context
    <3> QED BY Zenon, <1>6, <2>3, <3>2
  <2> QED BY Zenon, <2>2, <2>3
<1>7. Denied(i, c, run, TreeCost) \/ \E call \in CallStates : Walks(i, c, run, key, call)
  BY Zenon, <1>1, TreeGetStep
<1> QED BY Zenon, <1>4, <1>5, <1>6, <1>7 DEF Walks

=============================================================================
