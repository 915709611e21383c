---------------------------- MODULE ServingBudget ----------------------------
(***************************************************************************)
(* A read that meets no false positive is never refused for its budget:    *)
(* what a call spends, step by step, against what it may.                  *)
(***************************************************************************)
EXTENDS ServingProofs

-----------------------------------------------------------------------------
(* What a call spends *)

\* The kind of key that the lookup in hand asks for.
Seeks(kind, c) == Plan(kind, c.method)[c.step].key

\* The charge for reading the head, for the account if this lookup is not for it,
\* and for the given shards and GETs of a tree.
Due(key, shards, gets) ==
    HeadCost + (IF key = "account" THEN 0 ELSE MAX_RUNS * ShardCost + 2 * WalkGets * TreeCost)
        + shards * ShardCost + gets * TreeCost

\* The shards that a lookup may have asked for: a storage key's may be spilled.
Each(key) == IF key = "storage" THEN 2 ELSE 1
Probed(key, pos, pc) ==
    Each(key) * (MAX_RUNS - pos) + (IF pc = "probe" THEN 0 ELSE IF pc = "spill" THEN 1 ELSE Each(key))

\* No walk is in vain but that of the run whose blocks go beyond the one asked
\* for, so a lookup without false positives makes at most two.
Spending(kind, head, c) ==
    LET key == Seeks(kind, c)
        run == head.runs[c.pos]
    IN
    /\ c.pc = "queued" => c.walk = 0 /\ c.spent <= HeadCost
    /\ c.pc = "limit" => c.false_positive
    /\ c.pc \in {"probe", "spill", "tree"} =>
         /\ run.start <= c.block /\ c.walk < WalkGets /\ (c.pc # "tree" => c.walk = 0)
         /\ ~c.false_positive =>
              /\ c.pc = "spill" => key = "storage"
              /\ c.pc = "tree" => HasKey(run, KeyOf(kind, c))
              /\ c.spent <= Due(key, Probed(key, c.pos, c.pc),
                                c.walk + (IF run.end > c.block THEN 0 ELSE WalkGets))

SpendingInv ==
    StateRequest => \A kind \in {request.kind}, head \in {HeadOf(Pinned)} :
        \A i \in DOMAIN request.calls : \A c \in {CallOf(i)} : Spending(kind, head, c)

\* The budget covers the head, the shards of two lookups, one of them for a key
\* that may be spilled, and two walks for each.  With 16 + 8 runs and walks of
\* three GETs that is 85 of 192 GETs, and 84.25 of 128 MiB at most.
BudgetFits == HeadCost + 3 * MAX_RUNS * ShardCost + 4 * WalkGets * TreeCost <= MAX_REQUEST

\* What is due grows by the charge of each shard and each GET.
LEMMA DueFacts ==
    ASSUME NEW key, NEW n \in Nat, NEW g \in Nat
    PROVE  /\ Due(key, n, g) \in Nat /\ HeadCost <= Due(key, n, g)
           /\ Due(key, n + 1, g) = Due(key, n, g) + ShardCost
           /\ Due(key, n, g + 1) = Due(key, n, g) + TreeCost
           /\ \A m, h \in Nat : n <= m /\ g <= h => Due(key, n, g) <= Due(key, m, h)
<1>1. HeadCost \in Nat /\ ShardCost \in Nat /\ TreeCost \in Nat /\ WalkGets \in Nat /\ MAX_RUNS \in Nat
  BY Zenon, Amounts
<1> DEFINE first == IF key = "account" THEN 0 ELSE MAX_RUNS * ShardCost + 2 * WalkGets * TreeCost
<1>2. first \in Nat
  <2>1. MAX_RUNS * ShardCost \in Nat /\ 2 * WalkGets * TreeCost \in Nat
    BY <1>1
  <2> QED BY <2>1
<1>3. \A m, h \in Nat : Due(key, m, h) = HeadCost + first + m * ShardCost + h * TreeCost
  BY Zenon DEF Due
<1> HIDE DEF first
<1>4. \A m \in Nat : m * ShardCost \in Nat /\ m * TreeCost \in Nat
  BY <1>1
<1>5. (n + 1) * ShardCost = n * ShardCost + ShardCost /\ (g + 1) * TreeCost = g * TreeCost + TreeCost
  BY <1>1
<1>6. ASSUME NEW m \in Nat, NEW h \in Nat, n <= m, g <= h
      PROVE  n * ShardCost <= m * ShardCost /\ g * TreeCost <= h * TreeCost
  <2>1. PICK a \in Nat : m = n + a
    <3>1. m - n \in Nat /\ m = n + (m - n)
      BY <1>6
    <3> QED BY Zenon, <3>1
  <2>2. PICK b \in Nat : h = g + b
    <3>1. h - g \in Nat /\ h = g + (h - g)
      BY <1>6
    <3> QED BY Zenon, <3>1
  <2>3. m * ShardCost = n * ShardCost + a * ShardCost /\ h * TreeCost = g * TreeCost + b * TreeCost
    BY <1>1, <2>1, <2>2
  <2> QED BY <1>4, <2>3
<1> DEFINE ns == n * ShardCost
           gt == g * TreeCost
<1>7. ns \in Nat /\ gt \in Nat
  BY Zenon, <1>4
<1>8. Due(key, n, g) = HeadCost + first + ns + gt
  BY Zenon, <1>3
<1>9. Due(key, n + 1, g) = HeadCost + first + (ns + ShardCost) + gt
  BY <1>3, <1>5
<1>10. Due(key, n, g + 1) = HeadCost + first + ns + (gt + TreeCost)
  BY <1>3, <1>5
<1>11. ASSUME NEW m \in Nat, NEW h \in Nat, n <= m, g <= h PROVE Due(key, n, g) <= Due(key, m, h)
  <2> DEFINE ms == m * ShardCost
             ht == h * TreeCost
  <2>1. ms \in Nat /\ ht \in Nat /\ ns <= ms /\ gt <= ht /\ Due(key, m, h) = HeadCost + first + ms + ht
    BY Zenon, <1>3, <1>4, <1>6, <1>11
  <2> HIDE DEF ms, ht, ns, gt
  <2> QED BY <1>1, <1>2, <1>7, <1>8, <2>1
<1> HIDE DEF ns, gt
<1> QED BY <1>1, <1>2, <1>7, <1>8, <1>9, <1>10, <1>11

\* What is due after the lookup of the account is what the next one starts from,
\* and the budget covers what is due at the end.
LEMMA DueAtEnd ==
    ASSUME NEW key \in Methods, NEW n \in Nat, NEW g \in Nat, n <= Each(key) * MAX_RUNS, g <= 2 * WalkGets
    PROVE  /\ key = "account" => \A next \in Methods \ {"account"} : Due(key, n, g) <= Due(next, 0, 0)
           /\ BudgetFits => Due(key, n, g) <= MAX_REQUEST
<1>1. MAX_REQUEST \in Nat /\ HeadCost \in Nat /\ ShardCost \in Nat /\ TreeCost \in Nat /\ WalkGets \in Nat /\ MAX_RUNS \in Nat
  BY Zenon, Amounts
<1> DEFINE s == MAX_RUNS * ShardCost
           t == WalkGets * TreeCost
<1>2. s \in Nat /\ t \in Nat
  BY <1>1
<1>3. 2 * WalkGets \in Nat /\ Each(key) * MAX_RUNS \in Nat
  BY <1>1 DEF Each
<1>4. Due(key, n, g) <= Due(key, Each(key) * MAX_RUNS, 2 * WalkGets)
  BY Zenon, <1>3, DueFacts
<1>5. Due(key, n, g) \in Nat
  BY Zenon, DueFacts
<1>6. 2 * WalkGets * TreeCost = t + t /\ 2 * MAX_RUNS * ShardCost = s + s
  BY <1>1
<1>7. 3 * MAX_RUNS * ShardCost = s + s + s /\ 4 * WalkGets * TreeCost = t + t + t + t
  BY <1>1
<1>8. \A next \in Methods \ {"account"} : Due(next, 0, 0) = HeadCost + (s + (t + t)) + 0 + 0
  BY <1>1, <1>6 DEF Due
<1>9. BudgetFits => HeadCost + (s + s + s) + (t + t + t + t) <= MAX_REQUEST
  BY Zenon, <1>7 DEF BudgetFits
<1>10. CASE key = "account"
  <2>1. Due(key, Each(key) * MAX_RUNS, 2 * WalkGets) = HeadCost + 0 + s + (t + t)
    <3>1. 1 * MAX_RUNS = MAX_RUNS
      BY <1>1
    <3> QED BY Zenon, <1>6, <1>10, <3>1 DEF Due, Each
  <2> HIDE DEF s, t
  <2> QED BY <1>1, <1>2, <1>4, <1>5, <1>8, <1>9, <2>1
<1>11. CASE key = "storage"
  <2>1. Due(key, Each(key) * MAX_RUNS, 2 * WalkGets) = HeadCost + (s + (t + t)) + (s + s) + (t + t)
    BY Zenon, <1>6, <1>11 DEF Due, Each
  <2> HIDE DEF s, t
  <2> QED BY <1>1, <1>2, <1>4, <1>5, <1>9, <1>11, <2>1
<1>12. CASE key = "code"
  <2>1. Due(key, Each(key) * MAX_RUNS, 2 * WalkGets) = HeadCost + (s + (t + t)) + s + (t + t)
    <3>1. 1 * MAX_RUNS = MAX_RUNS
      BY <1>1
    <3> QED BY ZenonT(30), <1>6, <1>12, <3>1 DEF Due, Each
  <2> HIDE DEF s, t
  <2> QED BY <1>1, <1>2, <1>4, <1>5, <1>9, <1>12, <2>1
<1> QED BY Zenon, <1>10, <1>11, <1>12 DEF Methods

LEMMA FirstFacts ==
    ASSUME NEW head, HeadOK(head), NEW block \in 0 .. head.number
    PROVE  /\ First(head.runs, block) \in 1 .. Len(head.runs)
           /\ head.runs[First(head.runs, block)].start <= block
<1> DEFINE above == Len(head.runs) + 1
           pos == Below(head.runs, above, block)
<1>1. Len(head.runs) \in Nat /\ First(head.runs, block) = pos
  BY Zenon, HeadTyped DEF First
<1>2. above \in 1 .. Len(head.runs) + 1 /\ NoneAbove(head, AccountKey, block, above - 1)
  BY <1>1 DEF NoneAbove
<1> HIDE DEF above
<1>3. /\ pos \in 0 .. above - 1 /\ (above = Len(head.runs) + 1 => pos # 0)
      /\ pos # 0 => head.runs[pos].start <= block
  BY Zenon, <1>2, BelowFacts
<1> HIDE DEF pos
<1> QED BY <1>1, <1>3 DEF above

\* Two lookups of the account in a row have budgets of their own.
LEMMA BudgetFacts ==
    ASSUME NEW kind \in {"native", "edge"}, NEW method \in Methods
    PROVE  LET plan == Plan(kind, method) IN
           /\ \A step \in 1 .. Len(plan) : plan[step].key \in Methods
           /\ \A step \in 1 .. Len(plan) - 1 :
                plan[step + 1].key = "account" => plan[step + 1].budget # plan[step].budget
<1>1. CASE method = "account"
  BY <1>1 DEF Plan, Methods
<1>2. CASE method = "storage"
  BY <1>2 DEF Plan, Methods
<1>3. CASE method = "code" /\ kind = "native"
  BY <1>3 DEF Plan, Methods
<1>4. CASE method = "code" /\ kind = "edge"
  BY <1>4 DEF Plan, Methods
<1> QED BY Zenon, <1>1, <1>2, <1>3, <1>4 DEF Methods

\* A call that is not in a lookup, and was not refused for its budget.
LEMMA NotLooking ==
    ASSUME NEW kind, NEW head, NEW c, c.pc \in Stopped \ {"limit"}
    PROVE  Spending(kind, head, c)
BY Zenon DEF Spending, Stopped

\* A lookup begins: nothing is due for it yet.
LEMMA Begins ==
    ASSUME NEW kind \in {"native", "edge"}, NEW head, HeadOK(head), NEW c \in CallStates,
           c.pc = "probe", c.walk = 0, c.block \in 0 .. head.number,
           c.pos = First(head.runs, c.block),
           ~c.false_positive => c.spent <= Due(Seeks(kind, c), 0, 0)
    PROVE  Spending(kind, head, c)
<1> DEFINE key == Seeks(kind, c)
           run == head.runs[c.pos]
           shards == Probed(key, c.pos, c.pc)
           gets == c.walk + (IF run.end > c.block THEN 0 ELSE WalkGets)
<1>1. c.pos \in 1 .. Len(head.runs) /\ run.start <= c.block /\ Len(head.runs) \in Nat /\ Len(head.runs) <= MAX_RUNS
  <2>1. Len(head.runs) \in Nat /\ Len(head.runs) <= MAX_RUNS
    <3>1. Len(head.runs) \in 1 .. MAX_RUNS
      BY Zenon DEF HeadOK
    <3> QED BY <3>1, Amounts
  <2>2. c.block \in 0 .. head.number
    BY Zenon
  <2> QED BY Zenon, <2>1, <2>2, FirstFacts
<1>2. WalkGets \in Nat \ {0} /\ MAX_RUNS \in Nat
  BY Zenon, Amounts
<1>3. shards \in Nat
  BY <1>1, <1>2 DEF Probed, Each
<1>4. gets \in Nat
  BY <1>2
<1>5. c.spent \in Nat
  BY Zenon DEF CallStates
<1>6. ~c.false_positive => c.spent <= Due(key, shards, gets)
  <2> HIDE DEF key, shards, gets
  <2>1. Due(key, 0, 0) <= Due(key, shards, gets) /\ Due(key, 0, 0) \in Nat /\ Due(key, shards, gets) \in Nat
    BY <1>3, <1>4, DueFacts
  <2> QED BY <1>5, <2>1 DEF key
<1> QED BY <1>1, <1>2, <1>6 DEF Spending

\* The next lookup starts with what is due for the account, or on a new budget.
LEMMA ReturnedSpends ==
    ASSUME NEW kind, NEW head, Context(kind, head), NEW c \in CallStates, Looking(kind, head, c),
           c.walk = 0, NEW value \in Nat \cup {None},
           ~c.false_positive => c.spent <= Due(Seeks(kind, c), Each(Seeks(kind, c)) * MAX_RUNS, 2 * WalkGets)
    PROVE  Spending(kind, head, Returned(c, value))
<1> DEFINE plan == Plan(kind, c.method)
           last == c.step = Len(plan)
           known == plan[c.step].key = "account" /\ (last \/ plan[c.step + 1].key # "account")
           stops == known /\ (~Exists(value) \/ (c.method = "code" /\ ~HasCode(value)))
           fresh == ~last /\ plan[c.step + 1].budget # plan[c.step].budget
           spent == IF fresh THEN 0 ELSE c.spent
           pos == First(head.runs, c.block)
           step == c.step + 1
           next == [c EXCEPT !.step = step, !.pos = pos, !.pc = "probe", !.account = value, !.spent = spent]
           d == Returned(c, value)
<1>1. d = CASE stops -> Ends(c, "ok")
            [] last /\ ~stops -> IF c.method = "code" /\ value = None THEN Ends(c, "no_blob")
                                 ELSE [Ends(c, "ok") EXCEPT !.value = value]
            [] OTHER -> next
  BY Zenon DEF Returned, Context
<1>2. /\ Len(plan) \in 1 .. 3 /\ c.step \in 1 .. Len(plan) /\ c.method \in Methods
      /\ kind \in {"native", "edge"} /\ HeadOK(head) /\ c.block \in 0 .. head.number
  BY Zenon, PlanFacts DEF Looking, CallStates, Context
<1>3. CASE stops \/ last
  <2>1. /\ "ok" \in Stopped \ {"limit"} /\ "no_blob" \in Stopped \ {"limit"}
    BY Zenon DEF Stopped
  <2>2. /\ Ends(c, "ok").pc = "ok" /\ Ends(c, "no_blob").pc = "no_blob"
        /\ [Ends(c, "ok") EXCEPT !.value = value].pc = "ok"
    BY Zenon DEF Ends, CallStates
  <2>3. d.pc \in {"ok", "no_blob"}
    BY Zenon, <1>1, <1>3, <2>2
  <2> QED BY Zenon, <2>1, <2>3, NotLooking
<1>4. CASE ~last /\ ~stops
  <2>1. d = next
    BY Zenon, <1>1, <1>4
  <2>2. step \in 1 .. Len(plan) /\ c.step \in 1 .. Len(plan) - 1 /\ step \in Nat
    BY <1>2, <1>4
  <2>3. pos \in Nat
    <3>1. Len(head.runs) \in Nat /\ pos \in 1 .. Len(head.runs)
      BY Zenon, <1>2, FirstFacts, HeadTyped
    <3> QED BY <3>1
  <2>4. spent \in Nat /\ c.spent \in Nat
    BY Zenon DEF CallStates
  <2>5. /\ next \in CallStates /\ next.pc = "probe" /\ next.walk = 0 /\ next.block = c.block
        /\ next.pos = pos /\ next.step = step /\ next.method = c.method /\ next.spent = spent
        /\ next.false_positive = c.false_positive
    <3>1. next = [c EXCEPT !.step = step, !.pos = pos, !.pc = "probe", !.account = value, !.spent = spent]
      BY Zenon
    <3> HIDE DEF next, spent, step, pos
    <3> QED BY ZenonT(30), <2>2, <2>3, <2>4, <3>1 DEF CallStates
  <2> DEFINE key == plan[c.step].key
             after == plan[step].key
  <2>6. /\ key = "account" /\ key \in Methods /\ after \in Methods
        /\ after = "account" => fresh
    <3>1. key = "account"
      BY Zenon, <1>2, <1>4, PlanFacts
    <3>2. key \in Methods /\ after \in Methods
      BY Zenon, <1>2, <2>2, BudgetFacts
    <3>3. after = "account" => plan[step].budget # plan[c.step].budget
      BY Zenon, <1>2, <2>2, BudgetFacts
    <3> QED BY Zenon, <1>4, <3>1, <3>2, <3>3
  <2>7. Seeks(kind, c) = key /\ Seeks(kind, next) = after
    <3> HIDE DEF next
    <3> QED BY Zenon, <2>5 DEF Seeks
  <2>8. ~c.false_positive => spent <= Due(after, 0, 0)
    <3>1. Due(after, 0, 0) \in Nat
      BY DueFacts
    <3>2. CASE fresh
      <4>1. spent = 0
        BY Zenon, <3>2
      <4> QED BY <3>1, <4>1
    <3>3. CASE ~fresh
      <4>1. spent = c.spent /\ after \in Methods \ {"account"}
        BY Zenon, <2>6, <3>3
      <4> DEFINE n == Each(key) * MAX_RUNS
                 g == 2 * WalkGets
      <4>2. n \in Nat /\ g \in Nat /\ n <= Each(key) * MAX_RUNS /\ g <= 2 * WalkGets
        BY Amounts DEF Each
      <4>3. ~c.false_positive => c.spent <= Due(key, n, g)
        BY Zenon, <2>7
      <4> HIDE DEF n, g, key, after
      <4>4. Due(key, n, g) <= Due(after, 0, 0)
        BY Zenon, <2>6, <4>1, <4>2, DueAtEnd
      <4>5. Due(key, n, g) \in Nat
        BY Zenon, <4>2, DueFacts
      <4> QED BY <2>4, <3>1, <4>1, <4>3, <4>4, <4>5
    <3> QED BY Zenon, <3>2, <3>3
  <2> HIDE DEF next, spent, after
  <2>9. Spending(kind, head, next)
    BY Zenon, <1>2, <2>5, <2>7, <2>8, Begins DEF pos
  <2> QED BY Zenon, <2>1, <2>9
<1> QED BY Zenon, <1>3, <1>4

\* The runs below the one in hand end before the block asked for.
LEMMA NextRunSpends ==
    ASSUME NEW kind, NEW head, Context(kind, head), NEW c \in CallStates, Looking(kind, head, c),
           NoneAbove(head, KeyOf(kind, c), c.block, c.pos - 1),
           c.walk = 0, head.runs[c.pos].start <= c.block,
           ~c.false_positive =>
               c.spent <= Due(Seeks(kind, c), Each(Seeks(kind, c)) * (MAX_RUNS - c.pos + 1), WalkGets)
    PROVE  Spending(kind, head, NextRun(c))
<1> DEFINE next == Below(head.runs, c.pos, c.block)
           d == [c EXCEPT !.pos = next, !.pc = "probe"]
           key == Seeks(kind, c)
           n == Each(key) * (MAX_RUNS - c.pos + 1)
<1>1. NextRun(c) = IF next # 0 THEN d ELSE Returned(c, None)
  BY Zenon DEF NextRun, Context
<1>2. /\ HeadOK(head) /\ c.block \in 0 .. head.number /\ c.pos \in 1 .. Len(head.runs)
      /\ Len(head.runs) \in Nat /\ Len(head.runs) <= MAX_RUNS /\ c.block \in Nat
      /\ WalkGets \in Nat \ {0} /\ MAX_RUNS \in Nat /\ c.spent \in Nat
  BY HeadTyped, Amounts DEF Looking, Context, HeadOK, CallStates
<1>3. next \in 0 .. c.pos - 1 /\ (next # 0 => head.runs[next].start <= c.block)
  <2>1. c.pos \in 1 .. Len(head.runs) + 1
    BY <1>2
  <2> QED BY Zenon, <1>2, <2>1, BelowFacts
<1>4. n \in Nat /\ n <= Each(key) * MAX_RUNS /\ Each(key) * MAX_RUNS \in Nat /\ 2 * WalkGets \in Nat /\ WalkGets <= 2 * WalkGets
  <2> DEFINE p == c.pos
             len == Len(head.runs)
  <2>1. p \in 1 .. len /\ len \in Nat /\ len <= MAX_RUNS /\ MAX_RUNS \in Nat /\ WalkGets \in Nat
    BY Zenon, <1>2
  <2>2. Each(key) = 2 \/ Each(key) = 1
    BY Zenon DEF Each
  <2> DEFINE e == Each(key)
  <2> HIDE DEF p, len, e
  <2>3. e = 2 \/ e = 1
    BY Zenon, <2>2 DEF e
  <2>4. e * (MAX_RUNS - p + 1) \in Nat /\ e * (MAX_RUNS - p + 1) <= e * MAX_RUNS /\ e * MAX_RUNS \in Nat
    BY <2>1, <2>3
  <2>5. 2 * WalkGets \in Nat /\ WalkGets <= 2 * WalkGets
    BY <2>1
  <2> QED BY Zenon, <2>4, <2>5 DEF e, p
<1>5. Due(key, n, WalkGets) \in Nat
  BY Zenon, <1>2, <1>4, DueFacts
<1>6. CASE next = 0
  <2> DEFINE all == Each(key) * MAX_RUNS
             two == 2 * WalkGets
  <2> HIDE DEF n, all, two, key
  <2>1. Due(key, n, WalkGets) <= Due(key, all, two) /\ Due(key, all, two) \in Nat
    BY Zenon, <1>2, <1>4, DueFacts DEF all, two
  <2>2. ~c.false_positive => c.spent <= Due(key, all, two)
    BY <1>2, <1>5, <2>1 DEF n, key
  <2>3. ~c.false_positive => c.spent <= Due(Seeks(kind, c), Each(Seeks(kind, c)) * MAX_RUNS, 2 * WalkGets)
    BY Zenon, <2>2 DEF all, two, key
  <2>4. Spending(kind, head, Returned(c, None))
    BY Zenon, <2>3, ReturnedSpends
  <2> QED BY Zenon, <1>1, <1>6, <2>4
<1>7. CASE next # 0
  <2>1. next \in Nat /\ next \in 1 .. Len(head.runs) /\ next < c.pos
    BY <1>2, <1>3, <1>7
  <2>2. head.runs[next].end < head.runs[c.pos].start
    BY Zenon, <1>2, <2>1 DEF HeadOK
  <2>3. ~(head.runs[next].end > c.block)
    <3>1. head.runs[next].end \in Nat /\ head.runs[c.pos].start \in Nat
      BY Zenon, <1>2, <2>1, HeadTyped
    <3> DEFINE e == head.runs[next].end
               s == head.runs[c.pos].start
    <3>2. e \in Nat /\ s \in Nat /\ e < s /\ s <= c.block
      BY Zenon, <2>2, <3>1
    <3> HIDE DEF e, s
    <3>3. ~(e > c.block)
      BY <1>2, <3>2
    <3> QED BY Zenon, <3>3 DEF e
  <2>4. Probed(key, next, "probe") \in Nat /\ n <= Probed(key, next, "probe")
    <3> DEFINE p == c.pos
    <3>1. next \in Nat /\ p \in Nat /\ next < p /\ p <= MAX_RUNS /\ MAX_RUNS \in Nat
      BY <1>2, <2>1
    <3>2. n = Each(key) * (MAX_RUNS - p + 1) /\ Probed(key, next, "probe") = Each(key) * (MAX_RUNS - next) + 0
      BY Zenon DEF Probed
    <3> HIDE DEF p, next, n
    <3>3. CASE key = "storage"
      <4>1. Each(key) = 2
        BY Zenon, <3>3 DEF Each
      <4> QED BY <3>1, <3>2, <4>1
    <3>4. CASE key # "storage"
      <4>1. Each(key) = 1
        BY Zenon, <3>4 DEF Each
      <4> QED BY <3>1, <3>2, <4>1
    <3> QED BY Zenon, <3>3, <3>4
  <2>5. /\ d.pc = "probe" /\ d.walk = 0 /\ d.pos = next /\ d.block = c.block /\ d.spent = c.spent
        /\ d.false_positive = c.false_positive /\ d.method = c.method /\ d.step = c.step
    BY Zenon DEF CallStates
  <2>6. Seeks(kind, d) = key
    BY Zenon, <2>5 DEF Seeks
  <2> HIDE DEF d, next
  <2>7. ~c.false_positive => c.spent <= Due(key, Probed(key, next, "probe"), WalkGets)
    <3> DEFINE m == Probed(key, next, "probe")
    <3>1. m \in Nat /\ n <= m
      BY Zenon, <2>4
    <3>2. ~c.false_positive => c.spent <= Due(key, n, WalkGets)
      BY Zenon
    <3> HIDE DEF m, n, key
    <3>3. Due(key, n, WalkGets) <= Due(key, m, WalkGets) /\ Due(key, m, WalkGets) \in Nat
      BY <1>2, <1>4, <3>1, DueFacts
    <3>4. ~c.false_positive => c.spent <= Due(key, m, WalkGets)
      BY <1>2, <1>5, <3>2, <3>3
    <3> QED BY Zenon, <3>4 DEF m
  <2>8. d.walk + (IF head.runs[d.pos].end > d.block THEN 0 ELSE WalkGets) = WalkGets
    BY <1>2, <2>3, <2>5
  <2> HIDE DEF key
  <2>9. Spending(kind, head, d)
    BY <1>2, <1>3, <1>7, <2>5, <2>6, <2>7, <2>8 DEF Spending
  <2> QED BY Zenon, <1>1, <1>7, <2>9 DEF next
<1> QED BY Zenon, <1>6, <1>7

LEMMA StartSpends ==
    ASSUME NEW kind, NEW head, Context(kind, head), NEW i, CallOf(i) \in CallStates,
           CallOK(kind, head, CallOf(i)), Spending(kind, head, CallOf(i)), StartCall(i)
    PROVE  \E d : Spending(kind, head, d) /\ SetCall(i, d)
<1> DEFINE c == CallOf(i)
           block == resolve_selector(c.selector)
           pos == First(head.runs, block)
           late == [c EXCEPT !.block = block, !.pc = "unavailable"]
           d == [c EXCEPT !.block = block, !.pc = "probe", !.pos = pos]
<1>1. /\ c.pc = "queued"
      /\ SetCall(i, IF block > head.number THEN late ELSE d)
  BY Zenon DEF StartCall, Context
<1>2. /\ c \in CallStates /\ c.step = 1 /\ c.walk = 0 /\ c.spent <= HeadCost
      /\ HeadOK(head) /\ kind \in {"native", "edge"}
  BY Zenon, <1>1 DEF CallOK, Spending, Context
<1>3. head.number \in Nat /\ block \in Nat /\ Len(head.runs) \in Nat
  BY Zenon, <1>2, HeadTyped DEF Context, CallStates, resolve_selector
<1>4. CASE block > head.number
  <2> HIDE DEF c, block
  <2>1. late.pc = "unavailable" /\ "unavailable" \in Stopped \ {"limit"}
    BY Zenon, <1>2 DEF CallStates, Stopped
  <2>2. Spending(kind, head, late)
    BY Zenon, <2>1, NotLooking
  <2> QED BY Zenon, <1>1, <1>4, <2>2
<1>5. CASE ~(block > head.number)
  <2>1. block \in 0 .. head.number
    BY <1>3, <1>5
  <2>2. pos \in 1 .. Len(head.runs) /\ pos \in Nat
    BY <1>2, <1>3, <2>1, FirstFacts
  <2> HIDE DEF c, block, pos
  <2>3. /\ d \in CallStates /\ d.pc = "probe" /\ d.walk = 0 /\ d.block = block /\ d.pos = pos
        /\ d.spent = c.spent /\ d.spent \in Nat
    BY Zenon, <1>2, <1>3, <2>2 DEF CallStates
  <2> HIDE DEF d
  <2>4. d.spent <= Due(Seeks(kind, d), 0, 0)
    <3> DEFINE due == Due(Seeks(kind, d), 0, 0)
    <3>1. due \in Nat /\ HeadCost <= due /\ HeadCost \in Nat
      BY Zenon, DueFacts, Amounts
    <3> HIDE DEF due
    <3>2. d.spent <= due
      BY <1>2, <2>3, <3>1
    <3> QED BY Zenon, <3>2 DEF due
  <2>5. d.pos = First(head.runs, d.block)
    BY Zenon, <2>3 DEF pos
  <2>6. Spending(kind, head, d)
    BY ZenonT(30), <1>2, <2>1, <2>3, <2>4, <2>5, Begins
  <2> QED BY Zenon, <1>1, <1>5, <2>6
<1> QED BY Zenon, <1>4, <1>5

LEMMA ProbedFacts ==
    ASSUME NEW key, NEW pos \in 1 .. MAX_RUNS
    PROVE  LET probe == Probed(key, pos, "probe")
               spill == Probed(key, pos, "spill")
               tree == Probed(key, pos, "tree")
           IN  /\ probe \in Nat /\ spill \in Nat /\ tree \in Nat
               /\ spill = probe + 1 /\ probe + 1 <= tree
               /\ key = "storage" => spill + 1 = tree
               /\ tree = Each(key) * (MAX_RUNS - pos + 1) /\ tree <= Each(key) * MAX_RUNS
<1>1. MAX_RUNS \in Nat
  BY Zenon, Amounts
<1>2. CASE key = "storage"
  <2>1. Each(key) = 2
    BY Zenon, <1>2 DEF Each
  <2> QED BY <1>1, <2>1 DEF Probed
<1>3. CASE key # "storage"
  <2>1. Each(key) = 1
    BY Zenon, <1>3 DEF Each
  <2> QED BY <1>1, <1>3, <2>1 DEF Probed
<1> QED BY Zenon, <1>2, <1>3

\* A key is of the kind that the plan asks for.
LEMMA SeeksKind ==
    ASSUME NEW kind, NEW head, Context(kind, head), NEW c \in CallStates, Looking(kind, head, c)
    PROVE  Seeks(kind, c) \in Methods /\ KeyOf(kind, c).kind = Seeks(kind, c)
<1>1. kind \in {"native", "edge"} /\ c.method \in Methods /\ c.step \in 1 .. Len(Plan(kind, c.method))
  BY Zenon DEF Context, CallStates, Looking
<1>2. Seeks(kind, c) \in Methods
  BY Zenon, <1>1, BudgetFacts DEF Seeks
<1> QED BY Zenon, <1>2 DEF Seeks, KeyOf, Methods

\* What a shard of this run or a GET of this walk brings what is due to.
LEMMA Spent ==
    ASSUME NEW kind, NEW head, Context(kind, head), NEW c \in CallStates, Looking(kind, head, c),
           c.pc \in {"probe", "spill", "tree"}, Spending(kind, head, c), ~c.false_positive
    PROVE  LET key == Seeks(kind, c)
               shards == Probed(key, c.pos, c.pc)
               gets == c.walk + (IF head.runs[c.pos].end > c.block THEN 0 ELSE WalkGets)
           IN  /\ c.pos \in 1 .. MAX_RUNS /\ shards \in Nat /\ gets \in Nat /\ gets + 1 <= 2 * WalkGets
               /\ c.pc # "tree" => shards + 1 <= Probed(key, c.pos, "tree") /\ gets <= WalkGets
               /\ c.spent <= Due(key, shards, gets)
               /\ BudgetFits => /\ c.pc # "tree" => c.spent + ShardCost <= MAX_REQUEST
                                /\ c.pc = "tree" => c.spent + TreeCost <= MAX_REQUEST
<1> DEFINE key == Seeks(kind, c)
           shards == Probed(key, c.pos, c.pc)
           gets == c.walk + (IF head.runs[c.pos].end > c.block THEN 0 ELSE WalkGets)
           tree == Probed(key, c.pos, "tree")
<1>1. /\ c.pos \in 1 .. MAX_RUNS /\ WalkGets \in Nat \ {0} /\ c.walk \in Nat /\ c.spent \in Nat
      /\ {MAX_REQUEST, ShardCost, TreeCost} \subseteq Nat
  <2>1. c.pos \in 1 .. Len(head.runs) /\ Len(head.runs) \in 1 .. MAX_RUNS /\ MAX_RUNS \in Nat
    BY Zenon, Amounts DEF Looking, Context, HeadOK
  <2>2. c.pos \in 1 .. MAX_RUNS
    BY <2>1
  <2> QED BY Zenon, <2>2, Amounts DEF CallStates
<1>2. /\ c.walk < WalkGets /\ (c.pc # "tree" => c.walk = 0) /\ (c.pc = "spill" => key = "storage")
      /\ c.spent <= Due(key, shards, gets)
  BY Zenon DEF Spending
<1>3. key \in Methods
  BY Zenon, SeeksKind
<1>4. shards \in Nat /\ tree \in Nat /\ tree <= Each(key) * MAX_RUNS /\ shards <= tree
      /\ (c.pc # "tree" => shards + 1 <= tree)
  <2> HIDE DEF key
  <2>1. CASE c.pc = "probe"
    BY <1>1, <2>1, ProbedFacts
  <2>2. CASE c.pc = "spill"
    BY <1>1, <1>2, <2>2, ProbedFacts
  <2>3. CASE c.pc = "tree"
    BY <1>1, <2>3, ProbedFacts
  <2> QED BY Zenon, <2>1, <2>2, <2>3
<1>5. gets \in Nat /\ gets + 1 <= 2 * WalkGets /\ (c.pc # "tree" => gets <= WalkGets) /\ gets <= 2 * WalkGets
  BY <1>1, <1>2
<1>6. ASSUME BudgetFits
      PROVE  /\ c.pc # "tree" => c.spent + ShardCost <= MAX_REQUEST
             /\ c.pc = "tree" => c.spent + TreeCost <= MAX_REQUEST
  <2> DEFINE most == Each(key) * MAX_RUNS
             n == shards + 1
             g == gets + 1
  <2>1. most \in Nat
    BY Amounts DEF Each
  <2>2. n \in Nat /\ g \in Nat /\ shards <= most /\ g <= 2 * WalkGets /\ (c.pc # "tree" => n <= most)
    <3> HIDE DEF shards, gets, tree, most
    <3> QED BY <1>4, <1>5, <2>1 DEF most
  <2> HIDE DEF key, shards, gets, tree
  <2>3. /\ Due(key, n, gets) = Due(key, shards, gets) + ShardCost
        /\ Due(key, shards, g) = Due(key, shards, gets) + TreeCost
        /\ Due(key, shards, gets) \in Nat
    BY ZenonT(30), <1>4, <1>5, DueFacts
  <2> HIDE DEF n, g
  <2>4. c.pc # "tree" => Due(key, n, gets) <= MAX_REQUEST
    BY Zenon, <1>3, <1>5, <1>6, <2>2, DueAtEnd DEF most
  <2>5. Due(key, shards, g) <= MAX_REQUEST
    BY ZenonT(30), <1>3, <1>4, <1>6, <2>2, DueAtEnd DEF most
  <2> DEFINE due == Due(key, shards, gets)
  <2> HIDE DEF due
  <2>6. /\ due \in Nat /\ c.spent <= due /\ (c.pc # "tree" => due + ShardCost <= MAX_REQUEST)
        /\ due + TreeCost <= MAX_REQUEST
    BY ZenonT(30), <1>2, <2>3, <2>4, <2>5 DEF due
  <2> QED BY <1>1, <2>6
<1> QED BY ZenonT(30), <1>1, <1>2, <1>4, <1>5, <1>6

\* A refusal for the budget's sake shows that a shard had said yes for nothing.
LEMMA RefusedSpends ==
    ASSUME NEW kind, NEW head, NEW c \in CallStates, NEW run, NEW cost,
           ~c.false_positive => ~Exceeds(c, cost), Fetched(c, run, cost) # "fetched"
    PROVE  Spending(kind, head, Refused(c, Fetched(c, run, cost)))
<1> DEFINE got == Fetched(c, run, cost)
           d == Refused(c, got)
<1>1. got \in {"limit", "missing"} /\ (got = "limit" => Exceeds(c, cost))
  BY Zenon DEF Fetched
<1> HIDE DEF got
<1>2. d.pc = got /\ d.false_positive = c.false_positive
  BY Zenon DEF Refused, Ends, CallStates
<1> HIDE DEF d
<1>3. Spending(kind, head, d)
  BY Zenon, <1>1, <1>2 DEF Spending
<1> QED BY Zenon, <1>3 DEF d, got

\* A GET for a shard or a tree is within the budget, so a refused call has met a
\* false positive or a collected object.
LEMMA DeniedSpends ==
    ASSUME BudgetFits, NEW kind, NEW head, Context(kind, head), NEW i, NEW c \in CallStates,
           Looking(kind, head, c), Spending(kind, head, c), c.pc \in {"probe", "spill", "tree"},
           NEW run, NEW cost, cost = IF c.pc = "tree" THEN TreeCost ELSE ShardCost, Denied(i, c, run, cost)
    PROVE  \E d : Spending(kind, head, d) /\ SetCall(i, d)
<1>1. ~c.false_positive => ~Exceeds(c, cost)
  <2>1. SUFFICES ASSUME ~c.false_positive PROVE c.spent + cost <= MAX_REQUEST
    BY Amounts DEF Exceeds, CallStates
  <2> QED BY Zenon, <2>1, Spent
<1> QED BY Zenon, <1>1, RefusedSpends DEF Denied

\* What is due when one more shard has been asked for.
LEMMA ShardCharge ==
    ASSUME NEW key, NEW pos \in 1 .. MAX_RUNS, NEW n \in Nat, n + 1 <= Probed(key, pos, "tree"),
           NEW gets \in Nat, gets <= WalkGets, NEW before \in Nat, before <= Due(key, n, gets),
           NEW spent \in {before, before + ShardCost}
    PROVE  /\ spent <= Due(key, n + 1, gets) /\ spent <= Due(key, Probed(key, pos, "tree"), gets)
           /\ spent <= Due(key, Probed(key, pos, "tree"), WalkGets)
<1> DEFINE tree == Probed(key, pos, "tree")
           n1 == n + 1
<1>1. tree \in Nat /\ n1 \in Nat /\ n1 <= tree /\ WalkGets \in Nat /\ ShardCost \in Nat
  BY ProbedFacts, Amounts
<1>2. Due(key, n, gets) \in Nat /\ Due(key, n1, gets) = Due(key, n, gets) + ShardCost
  BY Zenon, DueFacts
<1> HIDE DEF tree, n1
<1>3. /\ Due(key, n1, gets) <= Due(key, tree, gets) /\ Due(key, tree, gets) <= Due(key, tree, WalkGets)
      /\ Due(key, tree, gets) \in Nat /\ Due(key, tree, WalkGets) \in Nat
  BY <1>1, DueFacts
<1>4. spent <= Due(key, n1, gets) /\ spent <= Due(key, tree, gets) /\ spent <= Due(key, tree, WalkGets)
  BY <1>1, <1>2, <1>3
<1> QED BY Zenon, <1>4 DEF tree, n1

\* A shard is asked for once per run, or twice for a key that may be spilled.
LEMMA MayContainSpends ==
    ASSUME BudgetFits, NEW kind, NEW head, Context(kind, head), NEW i, CallOf(i) \in CallStates,
           CallOK(kind, head, CallOf(i)), Spending(kind, head, CallOf(i)),
           NEW answer, NEW cached \in BOOLEAN, MayContain(i, answer, cached)
    PROVE  \E d : Spending(kind, head, d) /\ SetCall(i, d)
<1>1. SUFFICES ASSUME NEW c \in CallStates, c = CallOf(i), CallOK(kind, head, c), Spending(kind, head, c),
                      NEW run, run = head.runs[c.pos], NEW key, key = KeyOf(kind, c),
                      NEW seeks, seeks = Seeks(kind, c),
                      NEW gets, gets = IF run.end > c.block THEN 0 ELSE WalkGets
               PROVE  \E d : Spending(kind, head, d) /\ SetCall(i, d)
  BY Zenon
<1>2. c.pc \in {"probe", "spill"}
  BY Zenon, <1>1 DEF MayContain
<1>3. /\ Looking(kind, head, c) /\ Resolved(head, c) /\ run \in Runs
      /\ c.pos \in 1 .. Len(head.runs) /\ Len(head.runs) <= MAX_RUNS /\ c.pos \in 1 .. MAX_RUNS
  <2>1. /\ Looking(kind, head, c) /\ Resolved(head, c) /\ run \in Runs
        /\ c.pos \in 1 .. Len(head.runs) /\ Len(head.runs) \in Nat
    BY Zenon, <1>1, <1>2, LookingFacts
  <2>2. Len(head.runs) <= MAX_RUNS
    BY DEF Context, HeadOK
  <2> QED BY <2>1, <2>2, Amounts
<1>4. run.start <= c.block /\ c.walk = 0 /\ key.kind = seeks /\ gets \in Nat /\ gets <= WalkGets
  <2>1. run.start <= c.block /\ c.walk = 0
    BY Zenon, <1>1, <1>2 DEF Spending
  <2>2. key.kind = seeks
    BY Zenon, <1>1, <1>3, SeeksKind
  <2> QED BY <1>1, <2>1, <2>2, Amounts
<1>5. CASE Denied(i, c, run, ShardCost)
  BY ZenonT(30), <1>1, <1>2, <1>3, <1>5, DeniedSpends
<1>6. ASSUME NEW call \in CallStates, Probes(i, c, run, key, call) PROVE \E d : Spending(kind, head, d) /\ SetCall(i, d)
  <2>1. /\ AsFar(call, c) /\ call.walk = 0 /\ call.spent \in {c.spent, c.spent + ShardCost}
        /\ ~call.false_positive => ~c.false_positive
    BY Zenon, <1>4, <1>6 DEF Probes
  <2>2. Looking(kind, head, call) /\ KeyOf(kind, call) = key /\ Seeks(kind, call) = seeks
    <3>1. Looking(kind, head, call) /\ KeyOf(kind, call) = key
      BY ZenonT(30), <1>1, <1>3, <2>1, SameLookup
    <3> QED BY ZenonT(30), <1>1, <2>1, <3>1 DEF Seeks, AsFar
  <2>3. ASSUME ~call.false_positive
        PROVE  /\ call.spent <= Due(seeks, Probed(seeks, c.pos, c.pc) + 1, gets)
               /\ call.spent <= Due(seeks, Probed(seeks, c.pos, "tree"), gets)
               /\ call.spent <= Due(seeks, Probed(seeks, c.pos, "tree"), WalkGets)
    <3> DEFINE n == Probed(seeks, c.pos, c.pc)
    <3>1. /\ n \in Nat /\ n + 1 <= Probed(seeks, c.pos, "tree") /\ c.spent <= Due(seeks, n, c.walk + gets)
      BY ZenonT(30), <1>1, <1>2, <1>3, <2>1, <2>3, Spent
    <3>2. c.walk + gets = gets /\ c.spent \in Nat
      BY <1>4 DEF CallStates
    <3> HIDE DEF n
    <3>3. c.spent <= Due(seeks, n, gets)
      BY Zenon, <3>1, <3>2
    <3>4. /\ call.spent <= Due(seeks, n + 1, gets)
          /\ call.spent <= Due(seeks, Probed(seeks, c.pos, "tree"), gets)
          /\ call.spent <= Due(seeks, Probed(seeks, c.pos, "tree"), WalkGets)
      <4>1. c.pos \in 1 .. MAX_RUNS /\ gets \in Nat /\ gets <= WalkGets
        BY Zenon, <1>3, <1>4
      <4>2. c.spent \in Nat /\ call.spent \in {c.spent, c.spent + ShardCost}
        BY Zenon, <2>1, <3>2
      <4> QED BY <3>1, <3>3, <4>1, <4>2, ShardCharge
    <3> QED BY Zenon, <3>4 DEF n
  <2>4. ASSUME NEW pc \in {"spill", "tree"}, SetCall(i, [call EXCEPT !.pc = pc]),
               ~call.false_positive =>
                   /\ pc = "spill" => seeks = "storage" /\ c.pc = "probe"
                   /\ pc = "tree" => HasKey(run, key)
        PROVE  \E d : Spending(kind, head, d) /\ SetCall(i, d)
    <3> DEFINE d == [call EXCEPT !.pc = pc]
    <3>1. /\ d.pc = pc /\ AsFar(d, c) /\ d.walk = 0 /\ d.spent = call.spent
          /\ d.false_positive = call.false_positive
      BY Zenon, <2>1 DEF CallStates, AsFar
    <3> HIDE DEF d
    <3>2. Seeks(kind, d) = seeks /\ KeyOf(kind, d) = key /\ d.pos = c.pos /\ d.block = c.block
      BY ZenonT(30), <1>1, <1>3, <3>1, SameLookup DEF Seeks, AsFar
    <3>3. ~call.false_positive => call.spent <= Due(seeks, Probed(seeks, c.pos, pc), gets)
      <4>1. Probed(seeks, c.pos, "spill") = Probed(seeks, c.pos, "probe") + 1
        BY Zenon, <1>3, ProbedFacts
      <4> QED BY Zenon, <2>3, <2>4, <4>1
    <3>4. d.walk + gets = gets
      BY <1>4, <3>1
    <3>5. Spending(kind, head, d)
      BY <1>1, <1>4, <2>4, <3>1, <3>2, <3>3, <3>4, Amounts DEF Spending
    <3> QED BY Zenon, <2>4, <3>5 DEF d
  <2>5. ASSUME SetCall(i, NextRun(call)), ~HasKey(run, key)
        PROVE  \E d : Spending(kind, head, d) /\ SetCall(i, d)
    <3>1. call.pos = c.pos /\ call.block = c.block
      BY Zenon, <2>1 DEF AsFar
    <3>2. NoneAbove(head, KeyOf(kind, call), call.block, call.pos - 1)
      <4>1. \A b \in head.runs[call.pos].start .. head.runs[call.pos].end : ~Writer(b, KeyOf(kind, call))
        BY Zenon, <1>1, <2>2, <2>5, <3>1 DEF HasKey
      <4> QED BY Zenon, <2>2, <4>1, PassRun
    <3>3. Probed(seeks, c.pos, "tree") = Each(seeks) * (MAX_RUNS - c.pos + 1)
      BY Zenon, <1>3, ProbedFacts
    <3>4. Spending(kind, head, NextRun(call))
      BY Zenon, <1>1, <1>4, <2>1, <2>2, <2>3, <3>1, <3>2, <3>3, NextRunSpends
    <3> QED BY Zenon, <2>5, <3>4
  <2> QED BY Zenon, <1>4, <1>6, <2>4, <2>5 DEF Probes
<1>7. key.kind \in Methods
  BY Zenon, <1>1, <1>3, SeeksKind
<1> QED BY ZenonT(30), <1>1, <1>3, <1>5, <1>6, <1>7, MayContainStep

LEMMA WalkStep ==
    ASSUME NEW walk \in Nat, walk < WalkGets
    PROVE  /\ (walk + 1) % WalkGets \in Nat /\ (walk + 1) % WalkGets < WalkGets
           /\ (walk + 1) % WalkGets = 0 => walk + 1 = WalkGets
           /\ (walk + 1) % WalkGets # 0 => (walk + 1) % WalkGets = walk + 1
<1>1. WalkGets \in Nat \ {0}
  BY Zenon, Amounts
<1>2. CASE walk + 1 = WalkGets
  <2>1. WalkGets % WalkGets = 0
    BY <1>1
  <2> QED BY <1>1, <1>2, <2>1
<1>3. CASE walk + 1 < WalkGets
  <2>1. (walk + 1) % WalkGets = walk + 1
    BY <1>1, <1>3
  <2> QED BY <1>1, <1>3, <2>1
<1> QED BY <1>1, <1>2, <1>3

\* A walk that finds nothing in a run that has the key is the first of its lookup.
LEMMA TreeGetSpends ==
    ASSUME BudgetFits, NEW kind, NEW head, Context(kind, head), NEW i, CallOf(i) \in CallStates,
           CallOK(kind, head, CallOf(i)), Spending(kind, head, CallOf(i)), TreeGet(i)
    PROVE  \E d : Spending(kind, head, d) /\ SetCall(i, d)
<1>1. SUFFICES ASSUME NEW c \in CallStates, c = CallOf(i), CallOK(kind, head, c), Spending(kind, head, c),
                      NEW run, run = head.runs[c.pos], NEW key, key = KeyOf(kind, c),
                      NEW seeks, seeks = Seeks(kind, c),
                      NEW walks, walks = IF run.end > c.block THEN 0 ELSE WalkGets,
                      NEW tree, tree = Probed(seeks, c.pos, "tree")
               PROVE  \E d : Spending(kind, head, d) /\ SetCall(i, d)
  BY Zenon
<1>2. c.pc = "tree"
  BY Zenon, <1>1 DEF TreeGet
<1>3. /\ Looking(kind, head, c) /\ Resolved(head, c) /\ run \in Runs
      /\ c.pos \in 1 .. Len(head.runs) /\ c.block \in Nat /\ c.block \in 0 .. head.number
      /\ run.start \in Nat /\ run.end \in Nat
  BY ZenonT(30), <1>1, <1>2, LookingFacts DEF Runs
<1>4. /\ run.start <= c.block /\ c.walk < WalkGets
      /\ ~c.false_positive => HasKey(run, key)
      /\ c.walk \in Nat /\ c.spent \in Nat
  BY Zenon, <1>1, <1>2 DEF Spending, CallStates
<1>5. tree \in Nat /\ tree <= Each(seeks) * MAX_RUNS /\ tree = Each(seeks) * (MAX_RUNS - c.pos + 1)
  <2>1. c.pos \in 1 .. MAX_RUNS
    BY <1>3, Amounts DEF Context, HeadOK
  <2> QED BY Zenon, <1>1, <2>1, ProbedFacts
<1>6. CASE Denied(i, c, run, TreeCost)
  BY Zenon, <1>1, <1>2, <1>3, <1>6, DeniedSpends
<1>7. ASSUME NEW call \in CallStates, Walks(i, c, run, key, call) PROVE \E d : Spending(kind, head, d) /\ SetCall(i, d)
  <2>1. /\ AsFar(call, c) /\ call.pc = "tree" /\ call.walk = (c.walk + 1) % WalkGets
        /\ call.spent = c.spent + TreeCost /\ call.false_positive = c.false_positive
        /\ call.pos = c.pos /\ call.block = c.block
    BY Zenon, <1>7 DEF Walks, AsFar
  <2>2. /\ call.walk < WalkGets /\ (call.walk = 0 => c.walk + 1 = WalkGets)
        /\ (call.walk # 0 => call.walk = c.walk + 1)
    BY Zenon, <1>4, <2>1, WalkStep
  <2>3. Looking(kind, head, call) /\ KeyOf(kind, call) = key /\ Seeks(kind, call) = seeks
    <3>1. Looking(kind, head, call) /\ KeyOf(kind, call) = key
      BY ZenonT(30), <1>1, <1>3, <2>1, SameLookup
    <3> QED BY Zenon, <1>1, <2>1, <3>1 DEF Seeks, AsFar
  <2>4. PICK gets \in Nat : gets = c.walk + 1 + walks
    <3>1. walks \in Nat
      BY Zenon, <1>1, Amounts
    <3> QED BY <1>4, <3>1
  <2>5. ASSUME ~c.false_positive PROVE call.spent <= Due(seeks, tree, gets) /\ gets <= 2 * WalkGets
    <3> DEFINE before == c.walk + walks
    <3>1. before \in Nat /\ before + 1 = gets
      BY <1>1, <1>4, <2>4, Amounts
    <3>2. c.spent <= Due(seeks, tree, before) /\ before + 1 <= 2 * WalkGets
      BY ZenonT(30), <1>1, <1>2, <1>3, <2>5, Spent
    <3> HIDE DEF before
    <3>3. Due(seeks, tree, gets) = Due(seeks, tree, before) + TreeCost /\ Due(seeks, tree, before) \in Nat
      BY <1>5, <3>1, DueFacts
    <3>4. call.spent <= Due(seeks, tree, gets)
      BY <1>4, <2>1, <3>2, <3>3, Amounts
    <3> QED BY Zenon, <3>1, <3>2, <3>4
  <2>6. CASE call.walk # 0 /\ SetCall(i, call)
    <3>1. call.walk + walks = gets
      BY ZenonT(30), <1>1, <1>4, <2>2, <2>4, <2>6, Amounts
    <3>2. Spending(kind, head, call)
      <4>1. ~call.false_positive => call.spent <= Due(seeks, Probed(seeks, call.pos, call.pc), call.walk + walks)
        BY ZenonT(30), <1>1, <2>1, <2>5, <3>1
      <4> QED BY Zenon, <1>1, <1>4, <2>1, <2>2, <2>3, <4>1 DEF Spending
    <3> QED BY Zenon, <2>6, <3>2
  <2>7. ASSUME call.walk = 0, NEW value, value = At(run, key, c.block),
               SetCall(i, IF value = None THEN NextRun(call) ELSE Returned(call, value))
        PROVE  \E d : Spending(kind, head, d) /\ SetCall(i, d)
    <3>1. \/ value = None /\ \A b \in run.start .. run.end : b <= c.block => ~Writer(b, key)
          \/ value \in run.start .. run.end
      BY ZenonT(30), <1>3, <2>7, AtFacts
    <3>2. CASE value = None
      <4>1. \A b \in run.start .. run.end : b <= c.block => ~Writer(b, key)
        BY <1>3, <3>1, <3>2, Amounts
      <4>2. NoneAbove(head, KeyOf(kind, call), call.block, call.pos - 1)
        BY ZenonT(30), <1>1, <2>1, <2>3, <4>1, PassRun
      <4>3. ASSUME ~c.false_positive PROVE gets = WalkGets
        <5>1. PICK b \in run.start .. run.end : Writer(b, key)
          BY Zenon, <1>4, <4>3 DEF HasKey
        <5>2. run.end > c.block
          BY <1>3, <4>1, <5>1
        <5>3. walks = 0
          BY Zenon, <1>1, <5>2
        <5> QED BY <1>4, <2>2, <2>4, <2>7, <5>3, Amounts
      <4>4. Spending(kind, head, NextRun(call))
        <5>1. ~call.false_positive =>
                call.spent <= Due(Seeks(kind, call), Each(Seeks(kind, call)) * (MAX_RUNS - call.pos + 1), WalkGets)
          BY Zenon, <1>5, <2>1, <2>3, <2>5, <4>3
        <5> QED BY Zenon, <1>1, <1>4, <2>1, <2>3, <2>7, <4>2, <5>1, NextRunSpends
      <4> QED BY ZenonT(30), <2>7, <3>2, <4>4
    <3>3. CASE value # None
      <4>1. value \in Nat
        BY <1>3, <3>1, <3>3
      <4>2. ASSUME ~call.false_positive PROVE call.spent <= Due(seeks, Each(seeks) * MAX_RUNS, 2 * WalkGets)
        <5>1. PICK most \in Nat : most = Each(seeks) * MAX_RUNS
          BY Amounts DEF Each
        <5>2. PICK two \in Nat : two = 2 * WalkGets
          BY Amounts
        <5>3. /\ Due(seeks, tree, gets) <= Due(seeks, most, two)
              /\ Due(seeks, tree, gets) \in Nat /\ Due(seeks, most, two) \in Nat
          BY ZenonT(30), <1>5, <2>1, <2>5, <4>2, <5>1, <5>2, DueFacts
        <5>4. call.spent \in Nat /\ call.spent <= Due(seeks, tree, gets)
          BY Zenon, <2>1, <2>5, <4>2 DEF CallStates
        <5> QED BY <5>1, <5>2, <5>3, <5>4
      <4>3. Spending(kind, head, Returned(call, value))
        BY Zenon, <2>3, <2>7, <4>1, <4>2, ReturnedSpends
      <4> QED BY ZenonT(30), <2>7, <3>3, <4>3
    <3> QED BY Zenon, <3>2, <3>3
  <2> QED BY Zenon, <1>7, <2>6, <2>7 DEF Walks
<1> QED BY Zenon, <1>1, <1>6, <1>7, TreeGetStep

\* The chain does not change, so what a call may have spent stays the same.
LEMMA SpendingStable ==
    ASSUME history' = history, NEW kind, NEW head, NEW c, Spending(kind, head, c)
    PROVE  Spending(kind, head, c)'
<1>1. HasKey(head.runs[c.pos], KeyOf(kind, c))' <=> HasKey(head.runs[c.pos], KeyOf(kind, c))
  BY Zenon, KeysStable DEF HasKey
<1> QED BY Zenon, <1>1 DEF Spending, Seeks, Due, Probed, Each

\* The request and its head are the same, or there are no calls.
LEMMA SpendingKept ==
    ASSUME SpendingInv, history' = history,
           ~StateRequest' \/ (request' = request /\ HeadOf(Pinned)' = HeadOf(Pinned))
    PROVE  SpendingInv'
<1>1. CASE ~StateRequest'
  BY Zenon, <1>1 DEF SpendingInv
<1>2. CASE StateRequest' /\ request' = request /\ HeadOf(Pinned)' = HeadOf(Pinned)
  <2>1. StateRequest
    BY Zenon, <1>2 DEF StateRequest
  <2>2. SUFFICES ASSUME NEW kind, kind = request.kind, NEW head, head = HeadOf(Pinned),
                        NEW i \in DOMAIN request.calls, NEW c, c = request.calls[i]
                 PROVE  Spending(kind, head, c)'
    BY Zenon, <1>2 DEF SpendingInv, CallOf
  <2>3. Spending(kind, head, c)
    BY Zenon, <2>1, <2>2 DEF SpendingInv, CallOf
  <2> QED BY Zenon, <2>3, SpendingStable
<1> QED BY Zenon, <1>1, <1>2

\* Calls that wait have spent at most the charge for the head.
LEMMA QueuedSpends ==
    ASSUME history' = history, NEW S, request'.calls \in Seq(S),
           \A i \in DOMAIN request'.calls : LET c == request'.calls[i] IN
               c.pc = "queued" /\ c.walk = 0 /\ c.spent <= HeadCost
    PROVE  SpendingInv'
<1>1. SUFFICES ASSUME NEW kind, NEW head, NEW i \in DOMAIN request'.calls, NEW c, c = request'.calls[i]
               PROVE  Spending(kind, head, c)'
  BY Zenon DEF SpendingInv, CallOf
<1> QED BY Zenon, <1>1 DEF Spending

LEMMA NewCallSpends ==
    ASSUME NEW asked \in CallRequests
    PROVE  LET c == NewCall(asked) d == Charged(c, HeadCost) IN
           /\ c.pc = "queued" /\ c.walk = 0 /\ c.spent <= HeadCost
           /\ d.pc = "queued" /\ d.walk = 0 /\ d.spent <= HeadCost
<1> DEFINE c == NewCall(asked)
<1>1. c \in CallStates /\ c.pc = "queued" /\ c.walk = 0 /\ c.spent = 0 /\ HeadCost \in Nat
  BY Zenon, NewCallOK, Amounts DEF NewCall
<1> HIDE DEF c
<1>2. /\ Charged(c, HeadCost).pc = "queued" /\ Charged(c, HeadCost).walk = 0
      /\ Charged(c, HeadCost).spent = 0 + HeadCost
  BY Zenon, <1>1 DEF Charged, CallStates
<1> QED BY <1>1, <1>2 DEF c

LEMMA CallStepSpends ==
    ASSUME BudgetFits, ServingInv, SpendingInv, StateRequest, CallStep
    PROVE  SpendingInv'
<1> DEFINE kind == request.kind
           head == HeadOf(Pinned)
<1>1. UNCHANGED <<history, heads, readers>>
  <2> DEFINE same == UNCHANGED <<history, heads, readers>>
  <2>1. ASSUME NEW i, StartCall(i) PROVE same
    BY Zenon, <2>1 DEF StartCall
  <2>2. ASSUME NEW i, NEW answer, NEW cached, MayContain(i, answer, cached) PROVE same
    BY Zenon, <2>2 DEF MayContain
  <2>3. ASSUME NEW i, TreeGet(i) PROVE same
    BY Zenon, <2>3 DEF TreeGet
  <2> HIDE DEF same
  <2>4. same
    BY Zenon, <2>1, <2>2, <2>3 DEF CallStep
  <2> QED BY Zenon, <2>4 DEF same
<1>2. request \in Calling
  BY DEF ServingInv, RequestInv, StateRequest, Idle, Calling, Gatewaying
<1>3. Context(kind, head)
  BY Zenon, ReadersTyped DEF ServingInv, ArchiveInv, StateRequest, Context
<1>4. request.calls \in Seq(CallStates) /\ request = [kind |-> kind, calls |-> request.calls]
  BY Zenon, <1>2 DEF Calling
<1>5. \A i \in DOMAIN request.calls :
        CallOf(i) \in CallStates /\ CallOK(kind, head, CallOf(i)) /\ Spending(kind, head, CallOf(i))
  <2>1. \A i \in DOMAIN request.calls : CallOf(i) \in CallStates
    BY <1>4 DEF CallOf
  <2>2. \A i \in DOMAIN request.calls : Spending(kind, head, CallOf(i))
    BY Zenon DEF SpendingInv
  <2> QED BY Zenon, <2>1, <2>2, CallsAre
<1>6. PICK i \in DOMAIN request.calls : \E d : Spending(kind, head, d) /\ SetCall(i, d)
  <2>1. PICK i \in DOMAIN request.calls :
          \/ StartCall(i)
          \/ \E answer \in {"yes", "no", "marker"}, cached \in BOOLEAN : MayContain(i, answer, cached)
          \/ TreeGet(i)
    BY Zenon DEF CallStep
  <2>2. CallOf(i) \in CallStates /\ CallOK(kind, head, CallOf(i)) /\ Spending(kind, head, CallOf(i))
    BY Zenon, <1>5
  <2> HIDE DEF kind, head
  <2> QED BY Zenon, <1>3, <2>1, <2>2, StartSpends, MayContainSpends, TreeGetSpends
<1>7. PICK d : Spending(kind, head, d) /\ SetCall(i, d)
  BY Zenon, <1>6
<1>8. /\ request'.kind = kind /\ DOMAIN request'.calls = DOMAIN request.calls
      /\ \A j \in DOMAIN request.calls : request'.calls[j] = IF j = i THEN d ELSE request.calls[j]
  <2> DEFINE calls == [request.calls EXCEPT ![i] = d]
  <2>1. request' = [kind |-> request.kind, calls |-> calls]
    BY Zenon, <1>4, <1>7 DEF SetCall
  <2>2. /\ DOMAIN calls = DOMAIN request.calls
        /\ \A j \in DOMAIN request.calls : calls[j] = IF j = i THEN d ELSE request.calls[j]
    BY Zenon, <1>4
  <2> HIDE DEF calls
  <2>3. request'.calls = calls /\ request'.kind = request.kind
    BY Zenon, <2>1
  <2> QED BY Zenon, <2>2, <2>3
<1>9. HeadOf(Pinned)' = head
  BY Zenon, <1>1 DEF HeadOf, Pinned
<1>10. SUFFICES ASSUME NEW j \in DOMAIN request.calls, NEW c, c = request'.calls[j], NEW k, k = kind, NEW h, h = head
                PROVE  Spending(k, h, c)'
  BY Zenon, <1>8, <1>9 DEF SpendingInv, CallOf
<1>11. Spending(k, h, c)
  BY Zenon, <1>5, <1>7, <1>8, <1>10 DEF CallOf
<1> QED BY Zenon, <1>1, <1>11, SpendingStable

\* A new head and the adoption of one leave the request its own.
LEMMA PinnedKept ==
    ASSUME ServingInv, StateRequest, Publish \/ (\E first, last : Compact(first, last)) \/ RefreshAdopt
    PROVE  HeadOf(Pinned)' = HeadOf(Pinned) /\ UNCHANGED <<history, request>>
<1>1. readers # << >> /\ Pinned \in 1 .. Len(heads) /\ heads \in Seq(Heads) /\ Len(heads) \in Nat
  BY Zenon, ReadersTyped
<1>2. ASSUME NEW head, Replace(head) PROVE HeadOf(Pinned)' = HeadOf(Pinned) /\ UNCHANGED <<history, request>>
  <2> DEFINE p == Pinned
  <2>1. heads' = Append(heads, head) /\ readers' = readers /\ UNCHANGED <<history, request>>
    BY Zenon, <1>2 DEF Replace
  <2>2. Pinned' = p
    BY Zenon, <2>1 DEF Pinned
  <2>3. p \in 1 .. Len(heads)
    BY Zenon, <1>1
  <2> HIDE DEF p
  <2>4. heads'[p] = heads[p]
    BY <1>1, <2>1, <2>3
  <2> QED BY Zenon, <2>1, <2>2, <2>4 DEF HeadOf, p
<1>3. ASSUME RefreshAdopt PROVE HeadOf(Pinned)' = HeadOf(Pinned) /\ UNCHANGED <<history, request>>
  <2> DEFINE p == Pinned
             n == server.opened
  <2>1. /\ UNCHANGED <<history, heads, request>>
        /\ IF Keeps THEN readers' = readers ELSE readers' = <<p>> \o <<n>>
    <3>1. request # Idle
      BY DEF StateRequest, Idle
    <3>2. ~Keeps => Adopt
      BY Zenon, <1>3 DEF RefreshAdopt
    <3>3. Keeps => readers' = readers
      BY Zenon, <1>3 DEF RefreshAdopt
    <3>4. Adopt => readers' = <<p>> \o <<n>>
      BY Zenon, <3>1 DEF Adopt
    <3> QED BY Zenon, <1>3, <3>2, <3>3, <3>4 DEF RefreshAdopt
  <2>2. Pinned' = p
    <3>1. CASE Keeps
      BY Zenon, <2>1, <3>1 DEF Pinned
    <3>2. CASE ~Keeps
      <4>1. readers' = <<p>> \o <<n>>
        BY Zenon, <2>1, <3>2
      <4> HIDE DEF p, n
      <4>2. readers' = <<p, n>>
        <5>1. p \in {p, n} /\ n \in {p, n}
          BY Zenon
        <5> QED BY Zenon, <4>1, <5>1, PairConcat
      <4>3. readers'[1] = p
        BY Zenon, <4>2
      <4> QED BY Zenon, <4>3 DEF Pinned
    <3> QED BY Zenon, <3>1, <3>2
  <2> QED BY Zenon, <2>1, <2>2 DEF HeadOf
<1> QED BY Zenon, <1>2, <1>3 DEF Publish, Compact

LEMMA NextSpends ==
    ASSUME BudgetFits, ServingInv, SpendingInv, [Next]_vars
    PROVE  SpendingInv'
<1>1. ASSUME history' = history, request' = request, heads' = heads, readers' = readers PROVE SpendingInv'
  <2>1. HeadOf(Pinned)' = HeadOf(Pinned)
    BY Zenon, <1>1 DEF HeadOf, Pinned
  <2> QED BY Zenon, <1>1, <2>1, SpendingKept
<1>2. ASSUME history' = history, request'.kind \in {"idle", "object"} PROVE SpendingInv'
  BY Zenon, <1>2, SpendingKept DEF StateRequest
<1>3. ASSUME Publish \/ (\E first, last : Compact(first, last)) \/ RefreshAdopt PROVE SpendingInv'
  <2>1. UNCHANGED <<history, request>>
    BY Zenon, <1>3 DEF Publish, Compact, Replace, RefreshAdopt
  <2>2. CASE StateRequest
    BY ZenonT(30), <1>3, <2>1, <2>2, PinnedKept, SpendingKept
  <2>3. CASE ~StateRequest
    BY ZenonT(30), <2>1, <2>3, SpendingKept DEF StateRequest
  <2> QED BY Zenon, <2>2, <2>3
<1>4. ASSUME NEW run, Collect(run) PROVE SpendingInv'
  BY Zenon, <1>1, <1>4 DEF Collect
<1>5. ASSUME NEW h, RefreshOpen(h) PROVE SpendingInv'
  BY Zenon, <1>1, <1>5 DEF RefreshOpen
<1>6. ASSUME NEW batch \in Batches, HandleBatch(batch) PROVE SpendingInv'
  <2> DEFINE calls == [i \in DOMAIN batch |-> NewCall(batch[i])]
  <2>1. request' = [kind |-> "native", calls |-> calls] /\ history' = history
    BY Zenon, <1>6 DEF HandleBatch
  <2>2. batch \in Seq(CallRequests)
    BY Zenon, ServingAssumption
  <2>3. \A i \in DOMAIN batch : /\ calls[i] \in CallStates /\ calls[i].pc = "queued"
                                /\ calls[i].walk = 0 /\ calls[i].spent <= HeadCost
    BY <2>2, NewCallOK, NewCallSpends
  <2>4. calls \in Seq(CallStates) /\ DOMAIN calls = DOMAIN batch
    BY <2>2, <2>3
  <2> HIDE DEF calls
  <2>5. request'.calls = calls
    BY Zenon, <2>1
  <2> QED BY ZenonT(30), <2>1, <2>3, <2>4, <2>5, QueuedSpends
<1>7. ASSUME NEW asked \in Calls, HandleEdge(asked) PROVE SpendingInv'
  <2> DEFINE c == Charged(NewCall(asked), HeadCost)
  <2>1. request' = [kind |-> "edge", calls |-> <<c>>] /\ history' = history
    BY Zenon, <1>7 DEF HandleEdge, Load
  <2>2. c \in CallStates /\ c.pc = "queued" /\ c.walk = 0 /\ c.spent <= HeadCost
    BY Zenon, ServingAssumption, NewCallOK, NewCallSpends
  <2> HIDE DEF c
  <2>3. request'.calls = <<c>> /\ <<c>> \in Seq(CallStates)
    BY <2>1, <2>2
  <2>4. \A i \in DOMAIN <<c>> : <<c>>[i] = c
    OBVIOUS
  <2> QED BY Zenon, <2>1, <2>2, <2>3, <2>4, QueuedSpends
<1>8. ASSUME NEW asked, NEW run, NEW size, HandleObject(asked, run, size) PROVE SpendingInv'
  BY Zenon, <1>2, <1>8 DEF HandleObject
<1>9. ASSUME request.kind \in {"native", "edge"} /\ CallStep PROVE SpendingInv'
  BY Zenon, <1>9, CallStepSpends DEF StateRequest
<1>10. ASSUME Respond \/ RespondObject PROVE SpendingInv'
  <2>1. request' = Idle /\ history' = history
    BY Zenon, <1>10 DEF Respond, RespondObject
  <2> QED BY Zenon, <1>2, <2>1 DEF Idle
<1>11. ASSUME BucketStep PROVE SpendingInv'
  <2>1. request.kind = "object" /\ request \in Gatewaying
    BY <1>11 DEF BucketStep, ServingInv, RequestInv, Idle, Calling, Gatewaying
  <2>2. request'.kind = "object" /\ history' = history
    BY Zenon, <1>11, <2>1 DEF BucketStep, Gatewaying
  <2> QED BY Zenon, <1>2, <2>2
<1>12. ASSUME UNCHANGED vars PROVE SpendingInv'
  BY Zenon, <1>1, <1>12 DEF vars
<1> QED BY ZenonT(30), <1>3, <1>4, <1>5, <1>6, <1>7, <1>8, <1>9, <1>10, <1>11, <1>12 DEF Next, Archive

\* A read that meets no false positive of a summary stays within its budget,
\* however the head's runs, the spilled keys and the evictions fall, if the budget
\* covers the charges of two lookups through as many runs as a head may have.
THEOREM CleanReadsFit == ASSUME BudgetFits PROVE Spec => []CleanReadFits
<1>1. Init => SpendingInv
  <2>1. ASSUME Init PROVE ~StateRequest
    BY Zenon, <2>1 DEF Init, StateRequest, Idle
  <2> QED BY Zenon, <2>1 DEF SpendingInv
<1>2. ServingInv /\ SpendingInv /\ [Next]_vars => SpendingInv'
  BY Zenon, NextSpends
<1>3. SpendingInv => CleanReadFits
  BY Zenon DEF SpendingInv, CleanReadFits, Spending
<1> QED BY <1>1, <1>2, <1>3, ServingInvariant, PTL DEF Spec

=============================================================================
