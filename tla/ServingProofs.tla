---------------------------- MODULE ServingProofs ----------------------------
(***************************************************************************)
(* Reads are exact whatever is published, compacted and collected          *)
(* meanwhile: for any history, any number of runs and heads, and any       *)
(* batch of calls.                                                         *)
(***************************************************************************)
EXTENDS ServingLookups

\* A step of a call changes that call only.
LEMMA CallStepKeeps ==
    ASSUME ServingInv, StateRequest, CallStep
    PROVE  ServingInv'
<1> DEFINE kind == request.kind
           head == HeadOf(Pinned)
<1>1. UNCHANGED <<history, heads, deleted, readers, server>>
  <2> DEFINE same == UNCHANGED <<history, heads, deleted, readers, server>>
  <2>1. ASSUME NEW i, StartCall(i) PROVE same
    BY Zenon, <2>1 DEF StartCall
  <2>2. ASSUME NEW i, NEW answer, NEW cached, MayContain(i, answer, cached) PROVE same
    BY Zenon, <2>2 DEF MayContain
  <2>3. ASSUME NEW i, TreeGet(i) PROVE same
    BY Zenon, <2>3 DEF TreeGet
  <2> HIDE DEF same
  <2>4. same
    BY Zenon, <2>1, <2>2, <2>3 DEF CallStep
  <2> QED BY Zenon, <2>4 DEF same
<1>2. request \in Calling
  BY DEF ServingInv, RequestInv, StateRequest, Idle, Calling, Gatewaying
<1>3. Context(kind, head)
  <2>1. readers # << >> /\ readers \in Seq(1 .. Len(heads)) /\ Len(heads) \in Nat
    BY DEF ServingInv, ServerInv, ArchiveInv, StateRequest
  <2>2. Pinned \in 1 .. Len(heads)
    BY <2>1 DEF Pinned
  <2> QED BY Zenon, <2>2 DEF ServingInv, ArchiveInv, StateRequest, Context, HeadOf
<1>4. request.calls \in Seq(CallStates) /\ kind \in {"native", "edge"} /\ request = [kind |-> kind, calls |-> request.calls]
  BY Zenon, <1>2 DEF Calling
<1>5. \A i \in DOMAIN request.calls : CallOf(i) \in CallStates /\ CallOK(kind, head, CallOf(i))
  <2>1. \A i \in DOMAIN request.calls : CallOf(i) \in CallStates
    BY <1>4 DEF CallOf
  <2>2. CallsOK
    BY Zenon DEF ServingInv, RequestInv
  <2> QED BY Zenon, <2>1, <2>2 DEF CallsOK
<1>6. PICK i \in DOMAIN request.calls : \E d \in CallStates : CallOK(kind, head, d) /\ SetCall(i, d)
  <2>1. PICK i \in DOMAIN request.calls :
          \/ StartCall(i)
          \/ \E answer \in {"yes", "no", "marker"}, cached \in BOOLEAN : MayContain(i, answer, cached)
          \/ TreeGet(i)
    BY Zenon DEF CallStep
  <2>2. CallOf(i) \in CallStates /\ CallOK(kind, head, CallOf(i))
    BY Zenon, <1>5
  <2> HIDE DEF kind, head
  <2> QED BY ZenonT(30), <1>3, <2>1, <2>2, StartCallOK, MayContainOK, TreeGetOK
<1>7. PICK d \in CallStates : CallOK(kind, head, d) /\ SetCall(i, d)
  BY Zenon, <1>6
<1>8. /\ request'.kind = request.kind /\ request' \in Calling /\ DOMAIN request'.calls = DOMAIN request.calls
      /\ \A j \in DOMAIN request.calls : request'.calls[j] = IF j = i THEN d ELSE request.calls[j]
  <2> DEFINE calls == [request.calls EXCEPT ![i] = d]
  <2>1. request' = [kind |-> request.kind, calls |-> calls]
    BY Zenon, <1>4, <1>7 DEF SetCall
  <2>2. /\ calls \in Seq(CallStates) /\ DOMAIN calls = DOMAIN request.calls
        /\ \A j \in DOMAIN request.calls : calls[j] = IF j = i THEN d ELSE request.calls[j]
    BY <1>4
  <2> HIDE DEF calls
  <2>3. request'.calls = calls /\ request'.kind = request.kind
    BY Zenon, <2>1
  <2>4. request' \in Calling
    BY Zenon, <1>4, <2>1, <2>2 DEF Calling
  <2> QED BY Zenon, <2>2, <2>3, <2>4
<1>9. HeadOf(Pinned)' = head /\ Newest(heads)' = Newest(heads) /\ InUse' = InUse
  BY Zenon, <1>1 DEF HeadOf, Pinned, Newest, InUse
<1>10. ArchiveInv'
  BY ZenonT(30), <1>1 DEF ServingInv, ArchiveInv, HeadOK
<1>11. ServerInv'
  BY Zenon, <1>1, <1>8, <1>9 DEF ServingInv, ServerInv
<1>12. CallsOK'
  <2>1. SUFFICES ASSUME NEW j \in DOMAIN request.calls, NEW c, c = request'.calls[j], NEW k, k = kind, NEW h, h = head
                 PROVE  CallOK(k, h, c)'
    BY Zenon, <1>8, <1>9 DEF CallsOK, CallOf
  <2>2. CallOK(k, h, c)
    BY Zenon, <1>5, <1>7, <1>8, <2>1 DEF CallOf
  <2> QED BY Zenon, <1>1, <2>2, CallStable
<1>13. RequestInv'
  BY Zenon, <1>4, <1>8, <1>12 DEF RequestInv
<1> QED BY Zenon, <1>10, <1>11, <1>13 DEF ServingInv

-----------------------------------------------------------------------------
(* The archive changes *)

\* A response that was exact is so when the object is gone.
LEMMA ExactStable ==
    ASSUME NEW asked, NEW size, NEW response, NEW before, NEW after,
           Exact(asked, before, size, response), after => before
    PROVE  Exact(asked, after, size, response)
BY DEF Exact

\* A request sees nothing of a new head, and a deletion makes no answer wrong.
LEMMA RequestStable ==
    ASSUME RequestInv, history' = history, request' = request, deleted \subseteq deleted',
           StateRequest => HeadOf(Pinned)' = HeadOf(Pinned)
    PROVE  RequestInv'
<1>1. ASSUME StateRequest PROVE CallsOK'
  <2>1. SUFFICES ASSUME NEW kind, kind = request.kind, NEW head, head = HeadOf(Pinned),
                        NEW i \in DOMAIN request.calls, NEW c, c = request.calls[i]
                 PROVE  CallOK(kind, head, c)'
    BY Zenon, <1>1 DEF CallsOK, CallOf
  <2>2. CallOK(kind, head, c)
    BY Zenon, <1>1, <2>1 DEF RequestInv, CallsOK, CallOf
  <2> QED BY Zenon, <2>2, CallStable
<1>2. ASSUME request.kind = "object" PROVE ObjectOK'
  <2>1. ObjectOK
    BY Zenon, <1>2 DEF RequestInv
  <2>2. Stored(request.run)' => Stored(request.run)
    BY Zenon DEF Stored
  <2>3. GatewayExact'
    <3>1. SUFFICES ASSUME request.pc = "done"
                   PROVE  Exact(request.asked, Stored(request.run)', request.size, request.response)
      BY Zenon, <1>2 DEF GatewayExact
    <3>2. Exact(request.asked, Stored(request.run), request.size, request.response)
      BY Zenon, <1>2, <2>1, <3>1 DEF ObjectOK, GatewayExact
    <3> QED BY Zenon, <2>2, <3>2, ExactStable
  <2> QED BY Zenon, <2>1, <2>3 DEF ObjectOK
<1> QED BY Zenon, <1>1, <1>2 DEF RequestInv, StateRequest

LEMMA ReadersTyped ==
    ASSUME ServingInv
    PROVE  /\ Len(heads) \in Nat \ {0} /\ heads \in Seq(Heads)
           /\ readers \in Seq(1 .. Len(heads)) /\ Len(readers) \in Nat
           /\ readers # << >> => Pinned \in 1 .. Len(heads) /\ Newest(readers) \in 1 .. Len(heads)
           /\ Newest(heads) = heads[Len(heads)] /\ HeadOK(Newest(heads))
           /\ Newest(heads).number \in Nat
           /\ StateRequest => readers # << >> /\ HeadOK(HeadOf(Pinned))
<1>1. Len(heads) \in Nat \ {0} /\ heads \in Seq(Heads)
  BY DEF ServingInv, ArchiveInv
<1>2. readers \in Seq(1 .. Len(heads)) /\ Len(readers) \in Nat
  BY DEF ServingInv, ServerInv
<1>3. readers # << >> => Pinned \in 1 .. Len(heads) /\ Newest(readers) \in 1 .. Len(heads)
  BY <1>2 DEF Pinned, Newest
<1>4. Newest(heads) = heads[Len(heads)] /\ HeadOK(Newest(heads))
  BY <1>1 DEF ServingInv, ArchiveInv, Newest
<1>5. StateRequest => readers # << >>
  BY Zenon DEF ServingInv, ServerInv, StateRequest
<1>6. StateRequest => HeadOK(HeadOf(Pinned))
  BY Zenon, <1>3, <1>5 DEF ServingInv, ArchiveInv, HeadOf
<1> QED BY Zenon, <1>1, <1>2, <1>3, <1>4, <1>5, <1>6, HeadTyped

LEMMA ReplaceKeeps ==
    ASSUME ServingInv, NEW head, HeadOK(head), Newest(heads).number <= head.number, Replace(head)
    PROVE  ServingInv'
<1>1. /\ heads' = Append(heads, head)
      /\ UNCHANGED <<history, deleted, readers, server, request>>
  BY Zenon DEF Replace
<1>2. head \in Heads
  BY Zenon DEF HeadOK
<1>3. /\ heads' \in Seq(Heads) /\ Len(heads') = Len(heads) + 1 /\ heads' # << >>
      /\ \A h \in 1 .. Len(heads) : heads'[h] = heads[h]
      /\ heads'[Len(heads) + 1] = head
  BY <1>1, <1>2, ReadersTyped
<1>4. Newest(heads)' = head
  BY Zenon, <1>3 DEF Newest
<1>5. /\ readers # << >> => HeadOf(Pinned)' = HeadOf(Pinned) /\ InUse' = InUse
  <2>1. Pinned' = Pinned /\ Newest(readers)' = Newest(readers)
    BY Zenon, <1>1 DEF Pinned, Newest
  <2> QED BY Zenon, <1>3, <2>1, ReadersTyped DEF HeadOf, InUse
<1>6. \A h \in 1 .. Len(heads) : heads[h].number \in Nat /\ heads[h].number <= Newest(heads).number
  BY ReadersTyped, HeadTyped DEF ServingInv, ArchiveInv
<1>7. head.number \in Nat /\ Newest(heads).number \in Nat /\ Len(heads) \in Nat
  BY Zenon, HeadTyped, ReadersTyped
<1>8. ArchiveInv'
  <2>1. history' \in Histories
    BY Zenon, <1>1 DEF ServingInv, ArchiveInv
  <2>2. ASSUME NEW h \in 1 .. Len(heads') PROVE HeadOK(heads'[h])
    BY <1>3, <1>7 DEF ServingInv, ArchiveInv
  <2>3. ASSUME NEW g \in 1 .. Len(heads'), NEW h \in 1 .. Len(heads'), g <= h
        PROVE  heads'[g].number <= heads'[h].number
    <3>1. CASE h = Len(heads) + 1
      BY <1>3, <1>6, <1>7, <3>1, <2>3
    <3>2. CASE h \in 1 .. Len(heads)
      <4>1. g \in 1 .. Len(heads)
        BY <1>7, <2>3, <3>2
      <4> QED BY Zenon, <1>3, <2>3, <3>2, <4>1 DEF ServingInv, ArchiveInv
    <3> QED BY <1>3, <1>7, <3>1, <3>2
  <2> QED BY Zenon, <1>3, <2>1, <2>2, <2>3 DEF ArchiveInv
<1>9. ServerInv'
  <2>1. /\ server \in [kind : {"native", "edge"}, source : Sources, opened : Nat, faults : Nat, shown : Nat]
        /\ server.opened <= Len(heads) /\ server.shown <= Newest(heads).number
        /\ readers \in Seq(1 .. Len(heads))
    BY Zenon DEF ServingInv, ServerInv
  <2>2. /\ server'.opened <= Len(heads') /\ server'.shown <= Newest(heads)'.number
    BY <1>1, <1>3, <1>4, <1>7, <2>1
  <2>3. readers' \in Seq(1 .. Len(heads'))
    BY <1>1, <1>3, <1>7, <2>1
  <2> QED BY Zenon, <1>1, <1>5, <2>1, <2>2, <2>3 DEF ServingInv, ServerInv
<1>10. RequestInv'
  BY Zenon, <1>1, <1>5, ReadersTyped, RequestStable DEF ServingInv
<1> QED BY Zenon, <1>8, <1>9, <1>10 DEF ServingInv

LEMMA PublishKeeps ==
    ASSUME ServingInv, Publish
    PROVE  ServingInv'
<1> DEFINE old == Newest(heads)
           n == old.number + 1
           new == [number |-> n, runs |-> Append(old.runs, Run(n, n))]
<1>1. old.number < MaxBlock /\ Len(old.runs) < MAX_RUNS /\ Replace(new)
  BY Zenon DEF Publish
<1>2. HeadOK(old)
  BY Zenon, ReadersTyped
<1> HIDE DEF old
<1>3. /\ old.number \in Nat /\ old.runs \in Seq(Runs) /\ Len(old.runs) \in Nat /\ n \in 0 .. MaxBlock /\ n \in Nat
      /\ \A p \in 1 .. Len(old.runs) : old.runs[p].start \in Nat /\ old.runs[p].end \in Nat
  BY <1>1, <1>2, HeadTyped, Amounts
<1> DEFINE runs == Append(old.runs, Run(n, n))
<1>4. /\ runs \in Seq(Runs) /\ Len(runs) = Len(old.runs) + 1
      /\ \A p \in 1 .. Len(old.runs) : runs[p] = old.runs[p]
      /\ runs[Len(old.runs) + 1].start = n /\ runs[Len(old.runs) + 1].end = n
  <2>1. Run(n, n) \in Runs /\ Run(n, n).start = n /\ Run(n, n).end = n
    BY Zenon, <1>3 DEF Run, Runs
  <2> QED BY <1>3, <2>1
<1>5. new.number = n /\ new.runs = runs /\ new \in Heads
  BY Zenon, <1>3, <1>4 DEF Heads
<1> HIDE DEF new, runs
<1>6. HeadOK(new)
  <2>1. Len(runs) \in 1 .. MAX_RUNS
    BY <1>1, <1>3, <1>4, Amounts
  <2>2. ASSUME NEW p \in 1 .. Len(runs) PROVE runs[p].start <= runs[p].end /\ runs[p].end <= n
    <3>1. CASE p \in 1 .. Len(old.runs)
      <4>1. old.runs[p].start <= old.runs[p].end /\ old.runs[p].end <= old.number
        BY Zenon, <1>2, <3>1 DEF HeadOK
      <4> QED BY <1>3, <1>4, <3>1, <4>1
    <3>2. CASE p = Len(old.runs) + 1
      BY <1>3, <1>4, <3>2
    <3> QED BY <1>3, <1>4, <3>1, <3>2
  <2>3. ASSUME NEW p \in 1 .. Len(runs), NEW q \in 1 .. Len(runs), p < q PROVE runs[p].end < runs[q].start
    <3>1. p \in 1 .. Len(old.runs)
      BY <1>3, <1>4, <2>3
    <3>2. CASE q \in 1 .. Len(old.runs)
      BY Zenon, <1>2, <1>4, <2>3, <3>1, <3>2 DEF HeadOK
    <3>3. CASE q = Len(old.runs) + 1
      <4>1. old.runs[p].end <= old.number
        BY Zenon, <1>2, <3>1 DEF HeadOK
      <4> QED BY <1>3, <1>4, <3>1, <3>3, <4>1
    <3> QED BY <1>3, <1>4, <3>2, <3>3
  <2>4. ASSUME NEW b \in 0 .. n PROVE \E p \in 1 .. Len(runs) : b \in runs[p].start .. runs[p].end
    <3>1. CASE b = n
      BY <1>3, <1>4, <3>1
    <3>2. CASE b # n
      <4>1. b \in 0 .. old.number
        BY <1>3, <3>2
      <4>2. PICK p \in 1 .. Len(old.runs) : b \in old.runs[p].start .. old.runs[p].end
        BY Zenon, <1>2, <4>1 DEF HeadOK
      <4>3. p \in 1 .. Len(runs) /\ runs[p] = old.runs[p]
        BY <1>3, <1>4
      <4> QED BY Zenon, <4>2, <4>3
    <3> QED BY Zenon, <3>1, <3>2
  <2> QED BY Zenon, <1>5, <2>1, <2>2, <2>3, <2>4 DEF HeadOK
<1>7. old.number <= new.number
  BY <1>3, <1>5
<1> QED BY Zenon, <1>1, <1>6, <1>7, ReplaceKeeps DEF old

LEMMA ConcatFacts ==
    ASSUME NEW S, NEW b \in Seq(S), NEW c \in Seq(S)
    PROVE  /\ b \o c \in Seq(S) /\ Len(b \o c) = Len(b) + Len(c)
           /\ \A p \in 1 .. Len(b) : (b \o c)[p] = b[p]
           /\ \A p \in Len(b) + 1 .. Len(b) + Len(c) : (b \o c)[p] = c[p - Len(b)]
OBVIOUS

\* Merged runs hold what the runs they replace held.
LEMMA CompactKeeps ==
    ASSUME ServingInv, NEW first \in Nat \ {0}, NEW last \in Nat, Compact(first, last)
    PROVE  ServingInv'
<1> DEFINE old == Newest(heads)
           len == Len(old.runs)
           m == Run(old.runs[first].start, old.runs[last].end)
           runs == SubSeq(old.runs, 1, first - 1) \o <<m>> \o SubSeq(old.runs, last + 1, len)
           new == [old EXCEPT !.runs = runs]
           w == last - first
<1>1. first < last /\ last <= len
  BY Zenon DEF Compact
<1>10. Replace(new)
  BY Zenon DEF Compact
<1>2. HeadOK(old)
  BY Zenon, ReadersTyped
<1> HIDE DEF old
<1>3. /\ old.number \in Nat /\ old.runs \in Seq(Runs) /\ len \in Nat /\ len = Len(old.runs)
      /\ w \in Nat /\ last = first + w /\ w > 0 /\ first + w <= len
      /\ \A p \in 1 .. len : old.runs[p] \in Runs /\ old.runs[p].start \in Nat /\ old.runs[p].end \in Nat
  <2>1. /\ old.number \in Nat /\ old.runs \in Seq(Runs) /\ len \in Nat
        /\ \A p \in 1 .. len : old.runs[p] \in Runs /\ old.runs[p].start \in Nat /\ old.runs[p].end \in Nat
    BY Zenon, <1>2, HeadTyped
  <2>2. len = Len(old.runs)
    BY Zenon
  <2> HIDE DEF len
  <2> QED BY <1>1, <2>1, <2>2
<1> HIDE DEF len, w
<1>4. m \in Runs /\ m.start = old.runs[first].start /\ m.end = old.runs[last].end
  <2>1. first \in 1 .. len /\ last \in 1 .. len
    BY <1>1, <1>3
  <2> QED BY Zenon, <1>3, <2>1 DEF Run, Runs
<1> HIDE DEF m
<1>5. /\ runs \in Seq(Runs) /\ Len(runs) = len - w
      /\ \A p \in 1 .. first - 1 : runs[p] = old.runs[p]
      /\ runs[first] = m
      /\ \A p \in first + 1 .. len - w : runs[p] = old.runs[p + w]
  <2> DEFINE a == SubSeq(old.runs, 1, first - 1)
             b == a \o <<m>>
             c == SubSeq(old.runs, last + 1, len)
  <2>1. a \in Seq(Runs) /\ Len(a) = first - 1 /\ \A p \in 1 .. first - 1 : a[p] = old.runs[p]
    BY <1>1, <1>3
  <2>2. c \in Seq(Runs) /\ Len(c) = len - last /\ \A p \in 1 .. len - last : c[p] = old.runs[p + last]
    BY <1>1, <1>3
  <2> HIDE DEF a, c
  <2>3. b \in Seq(Runs) /\ Len(b) = first /\ (\A p \in 1 .. first - 1 : b[p] = a[p]) /\ b[first] = m
    BY <1>4, <2>1
  <2> HIDE DEF b
  <2>4. /\ b \o c \in Seq(Runs) /\ Len(b \o c) = first + (len - last)
        /\ \A p \in 1 .. first : (b \o c)[p] = b[p]
        /\ \A p \in first + 1 .. first + (len - last) : (b \o c)[p] = c[p - first]
    <3>1. /\ b \o c \in Seq(Runs) /\ Len(b \o c) = Len(b) + Len(c)
          /\ \A p \in 1 .. Len(b) : (b \o c)[p] = b[p]
          /\ \A p \in Len(b) + 1 .. Len(b) + Len(c) : (b \o c)[p] = c[p - Len(b)]
      BY ZenonT(30), <2>2, <2>3, ConcatFacts
    <3> QED BY Zenon, <2>2, <2>3, <3>1
  <2>5. runs = b \o c
    BY Zenon DEF a, b, c
  <2> HIDE DEF runs
  <2>6. ASSUME NEW p \in first + 1 .. len - w PROVE runs[p] = old.runs[p + w]
    <3>1. p \in first + 1 .. first + (len - last) /\ p - first \in 1 .. len - last /\ (p - first) + last = p + w
      BY <1>1, <1>3
    <3> QED BY Zenon, <2>2, <2>4, <2>5, <3>1
  <2>7. Len(runs) = len - w /\ runs \in Seq(Runs) /\ runs[first] = m
    <3>1. first \in 1 .. first /\ first + (len - last) = len - w
      BY <1>3
    <3> QED BY Zenon, <2>3, <2>4, <2>5, <3>1
  <2>8. ASSUME NEW p \in 1 .. first - 1 PROVE runs[p] = old.runs[p]
    <3>1. p \in 1 .. first
      OBVIOUS
    <3> QED BY Zenon, <2>1, <2>3, <2>4, <2>5, <3>1
  <2> QED BY Zenon, <2>6, <2>7, <2>8
<1> HIDE DEF runs
<1>6. new.number = old.number /\ new.runs = runs /\ new \in Heads
  BY Zenon, <1>2, <1>5 DEF HeadOK, Heads
<1> HIDE DEF new
<1> DEFINE from(p) == IF p <= first THEN p ELSE p + w
           to(p) == IF p < first THEN p ELSE p + w
<1>7. ASSUME NEW p \in 1 .. Len(runs)
      PROVE  /\ from(p) \in 1 .. len /\ to(p) \in 1 .. len /\ from(p) <= to(p)
             /\ runs[p].start = old.runs[from(p)].start /\ runs[p].end = old.runs[to(p)].end
  <2>1. p \in 1 .. len - w
    BY Zenon, <1>5
  <2>2. CASE p < first
    <3>1. p \in 1 .. first - 1 /\ from(p) = p /\ to(p) = p /\ p \in 1 .. len
      BY <1>3, <2>1, <2>2
    <3> QED BY <1>5, <3>1
  <2>3. CASE p = first
    BY <1>3, <1>4, <1>5, <2>1, <2>3
  <2>4. CASE p > first
    <3>1. /\ p \in first + 1 .. len - w
          /\ from(p) = p + w /\ to(p) = p + w /\ p + w \in 1 .. len
      BY <1>3, <2>1, <2>4
    <3>2. runs[p] = old.runs[p + w]
      BY Zenon, <1>5, <3>1
    <3> QED BY <3>1, <3>2
  <2> QED BY <1>3, <2>1, <2>2, <2>3, <2>4
<1>8. HeadOK(new)
  <2>1. /\ \A p \in 1 .. len : old.runs[p].start <= old.runs[p].end /\ old.runs[p].end <= old.number
        /\ \A p, q \in 1 .. len : p < q => old.runs[p].end < old.runs[q].start
        /\ len \in 1 .. MAX_RUNS
    BY Zenon, <1>2 DEF HeadOK, len
  <2>2. Len(runs) \in 1 .. MAX_RUNS
    BY <1>1, <1>3, <1>5, <2>1, Amounts
  <2>3. ASSUME NEW p \in 1 .. Len(runs) PROVE runs[p].start <= runs[p].end /\ runs[p].end <= old.number
    <3> DEFINE f == from(p)
               t == to(p)
    <3>1. f \in 1 .. len /\ t \in 1 .. len /\ f <= t /\ runs[p].start = old.runs[f].start /\ runs[p].end = old.runs[t].end
      BY Zenon, <1>7
    <3> HIDE DEF f, t
    <3>2. /\ old.runs[f].start <= old.runs[f].end /\ old.runs[t].start <= old.runs[t].end
          /\ old.runs[t].end <= old.number /\ (f < t => old.runs[f].end < old.runs[t].start)
      BY Zenon, <2>1, <3>1
    <3>3. f < t \/ f = t
      BY <1>3, <3>1
    <3>4. /\ old.runs[f].start \in Nat /\ old.runs[f].end \in Nat
          /\ old.runs[t].start \in Nat /\ old.runs[t].end \in Nat
      BY Zenon, <1>3, <3>1
    <3>5. old.runs[f].start <= old.runs[t].end
      <4>1. CASE f = t
        BY Zenon, <3>2, <4>1
      <4>2. CASE f < t
        <5>1. /\ old.runs[f].start <= old.runs[f].end /\ old.runs[f].end < old.runs[t].start
              /\ old.runs[t].start <= old.runs[t].end
          BY Zenon, <3>2, <4>2
        <5> DEFINE a == old.runs[f].start
                   b == old.runs[f].end
                   c == old.runs[t].start
                   d == old.runs[t].end
        <5>2. a \in Nat /\ b \in Nat /\ c \in Nat /\ d \in Nat /\ a <= b /\ b < c /\ c <= d
          BY Zenon, <3>4, <5>1
        <5> HIDE DEF a, b, c, d
        <5>3. a <= d
          BY <5>2
        <5> QED BY Zenon, <5>3 DEF a, d
      <4> QED BY Zenon, <3>3, <4>1, <4>2
    <3> QED BY Zenon, <3>1, <3>2, <3>5
  <2>4. ASSUME NEW p \in 1 .. Len(runs), NEW q \in 1 .. Len(runs), p < q PROVE runs[p].end < runs[q].start
    <3>1. to(p) < from(q)
      BY <1>1, <1>3, <1>5, <2>4
    <3>2. runs[p].end = old.runs[to(p)].end /\ runs[q].start = old.runs[from(q)].start
      BY Zenon, <1>7
    <3>3. to(p) \in 1 .. len /\ from(q) \in 1 .. len
      BY Zenon, <1>7
    <3> HIDE DEF to, from
    <3> QED BY Zenon, <2>1, <3>1, <3>2, <3>3
  <2>5. ASSUME NEW b \in 0 .. old.number PROVE \E p \in 1 .. Len(runs) : b \in runs[p].start .. runs[p].end
    <3>1. PICK q \in 1 .. len : b \in old.runs[q].start .. old.runs[q].end
      BY Zenon, <1>2 DEF HeadOK, len
    <3>2. CASE q < first
      <4>1. q \in 1 .. Len(runs) /\ runs[q] = old.runs[q]
        <5>1. q \in 1 .. first - 1 /\ q \in 1 .. len - w
          BY <1>3, <3>2
        <5> QED BY Zenon, <1>5, <5>1
      <4> QED BY Zenon, <3>1, <4>1
    <3>3. CASE q > last
      <4>1. q - w \in 1 .. Len(runs) /\ runs[q - w] = old.runs[q]
        <5>1. q - w \in first + 1 .. len - w /\ (q - w) + w = q
          BY <1>1, <1>3, <3>3
        <5>2. runs[q - w] = old.runs[(q - w) + w]
          BY Zenon, <1>5, <5>1
        <5>3. q - w \in 1 .. len - w
          BY <1>1, <1>3, <5>1
        <5>4. runs[q - w] = old.runs[q]
          BY Zenon, <5>1, <5>2
        <5> QED BY Zenon, <1>5, <5>3, <5>4
      <4> QED BY Zenon, <3>1, <4>1
    <3>4. CASE q \in first .. last
      <4>1. first \in 1 .. Len(runs) /\ first \in 1 .. len /\ last \in 1 .. len
        BY <1>1, <1>3, <1>5
      <4>2. old.runs[first].start <= old.runs[q].start /\ old.runs[q].end <= old.runs[last].end
        <5>1. first < q => old.runs[first].start <= old.runs[q].start
          <6>1. first < q => old.runs[first].end < old.runs[q].start /\ old.runs[first].start <= old.runs[first].end
            BY Zenon, <2>1, <4>1
          <6>2. old.runs[q].start \in Nat /\ old.runs[first].start \in Nat /\ old.runs[first].end \in Nat
            BY Zenon, <1>3, <4>1
          <6> QED BY <6>1, <6>2
        <5>2. q < last => old.runs[q].end <= old.runs[last].end
          <6>1. q < last => old.runs[q].end < old.runs[last].start /\ old.runs[last].start <= old.runs[last].end
            BY Zenon, <2>1, <4>1
          <6>2. old.runs[q].end \in Nat /\ old.runs[last].start \in Nat /\ old.runs[last].end \in Nat
            BY Zenon, <1>3, <4>1
          <6> QED BY <6>1, <6>2
        <5> QED BY <1>3, <3>4, <4>1, <5>1, <5>2
      <4>3. b \in runs[first].start .. runs[first].end
        <5>1. runs[first].start = old.runs[first].start /\ runs[first].end = old.runs[last].end
          BY Zenon, <1>4, <1>5
        <5>2. /\ old.runs[first].start \in Nat /\ old.runs[last].end \in Nat
              /\ old.runs[q].start \in Nat /\ old.runs[q].end \in Nat
          BY Zenon, <1>3, <4>1
        <5> QED BY <3>1, <4>2, <5>1, <5>2
      <4> QED BY Zenon, <4>1, <4>3
    <3> QED BY <3>2, <3>3, <3>4
  <2> QED BY Zenon, <1>6, <2>2, <2>3, <2>4, <2>5 DEF HeadOK
<1>9. old.number <= new.number
  BY <1>3, <1>6
<1> QED BY Zenon, <1>8, <1>9, <1>10, ReplaceKeeps DEF old

LEMMA CollectKeeps ==
    ASSUME ServingInv, NEW run, Collect(run)
    PROVE  ServingInv'
<1>1. deleted' = deleted \cup {run} /\ UNCHANGED <<history, heads, readers, server, request>>
  BY Zenon DEF Collect
<1>2. /\ HeadOf(Pinned)' = HeadOf(Pinned) /\ Newest(heads)' = Newest(heads) /\ InUse' = InUse
  BY Zenon, <1>1 DEF HeadOf, Pinned, Newest, InUse
<1>3. ArchiveInv'
  BY Zenon, <1>1 DEF ServingInv, ArchiveInv, HeadOK
<1>4. ServerInv'
  BY Zenon, <1>1, <1>2 DEF ServingInv, ServerInv
<1>5. RequestInv'
  BY Zenon, <1>1, <1>2, RequestStable DEF ServingInv
<1> QED BY Zenon, <1>3, <1>4, <1>5 DEF ServingInv

-----------------------------------------------------------------------------
(* The gateway *)

AskedTyped(asked) ==
    /\ asked.range \in [kind : {"none", "other", "bounds"}, start : Bound, end : Bound]
    /\ asked.method \in {"GET", "HEAD"}

\* What parse_range makes of a range: the bytes it names, that there are none, or
\* that it asks for nothing.
LEMMA ParsedRange ==
    ASSUME NEW range, range.kind = "bounds", range.start \in Bound, range.end \in Bound, NEW size \in Nat
    PROVE  LET parsed == parse_range(range, size) IN
           \/ parsed = Ignore /\ ~Valid(range)
           \/ parsed = Unsatisfiable /\ Valid(range) /\ Named(range, size) = {}
           \/ \E offset, length \in Nat :
                /\ parsed = Satisfiable(offset, length) /\ length > 0 /\ Valid(range)
                /\ Named(range, size) = offset .. offset + length - 1
<1> DEFINE parsed == parse_range(range, size)
           s == range.start
           e == range.end
<1>1. /\ s \in Nat \/ s = Empty
      /\ e \in Nat \/ e = Empty
      /\ Empty \notin Nat /\ MAX_U64 \in Nat
  BY Zenon, GatewayAssumption DEF Bound
<1>2. Valid(range) <=> /\ ~(s = Empty /\ e = Empty) /\ ~Overflows(s) /\ ~Overflows(e)
                       /\ s # Empty /\ e # Empty => s <= e
  BY Zenon DEF Valid
<1>3. Named(range, size) = {i \in 0 .. size - 1 : IF s = Empty THEN i >= size - e
                                                  ELSE i >= s /\ (e = Empty \/ i <= e)}
  BY Zenon DEF Named
<1>4. Ignored(range) <=> \/ s = Empty /\ e = Empty
                         \/ Overflows(s) \/ Overflows(e)
                         \/ s # Empty /\ e # Empty /\ e < s
  BY Zenon DEF Ignored
<1>5. Ignored(range) <=> ~Valid(range)
  BY <1>1, <1>2, <1>4
<1>6. CASE Ignored(range)
  BY Zenon, <1>5, <1>6 DEF parse_range
<1>7. CASE ~Ignored(range) /\ s = Empty
  <2>1. e \in Nat
    BY Zenon, <1>1, <1>4, <1>7
  <2>2. Named(range, size) = {i \in 0 .. size - 1 : i >= size - e}
    BY Zenon, <1>3, <1>7
  <2>3. CASE e = 0 \/ size = 0
    <3>1. parsed = Unsatisfiable
      BY Zenon, <1>7, <2>3 DEF parse_range
    <3>2. Named(range, size) = {}
      BY <2>1, <2>2, <2>3
    <3> QED BY Zenon, <1>5, <1>7, <3>1, <3>2
  <2>4. CASE ~(e = 0 \/ size = 0)
    <3> DEFINE length == Smaller(e, size)
               offset == size - length
    <3>1. parsed = Satisfiable(offset, length)
      BY Zenon, <1>7, <2>4 DEF parse_range
    <3>2. length \in Nat /\ length > 0 /\ length <= size /\ (length = e \/ (length = size /\ size <= e))
      BY <2>1, <2>4 DEF Smaller
    <3> HIDE DEF length
    <3>3. offset \in Nat /\ offset + length - 1 = size - 1
      BY <3>2
    <3>4. Named(range, size) = offset .. size - 1
      BY <2>1, <2>2, <3>2
    <3> HIDE DEF offset
    <3>5. Named(range, size) = offset .. offset + length - 1
      BY Zenon, <3>3, <3>4
    <3> QED BY Zenon, <1>5, <1>7, <3>1, <3>2, <3>3, <3>5
  <2> QED BY Zenon, <2>3, <2>4
<1>8. CASE ~Ignored(range) /\ s # Empty
  <2>1. s \in Nat /\ (e = Empty \/ (e \in Nat /\ s <= e))
    BY <1>1, <1>4, <1>8
  <2>2. Named(range, size) = {i \in 0 .. size - 1 : i >= s /\ (e = Empty \/ i <= e)}
    BY Zenon, <1>3, <1>8
  <2>3. CASE s >= size
    <3>1. parsed = Unsatisfiable
      BY Zenon, <1>8, <2>3 DEF parse_range
    <3>2. Named(range, size) = {}
      BY <2>1, <2>2, <2>3
    <3> QED BY Zenon, <1>5, <1>8, <3>1, <3>2
  <2>4. CASE ~(s >= size)
    <3> DEFINE last == LastByte(range, size)
               length == last - s + 1
    <3>1. parsed = Satisfiable(s, length)
      BY Zenon, <1>8, <2>4 DEF parse_range
    <3>2. last \in Nat /\ s <= last /\ last <= size - 1 /\ (last = size - 1 \/ last = e) /\ (e = Empty \/ last <= e)
      BY <1>1, <2>1, <2>4 DEF LastByte, Smaller
    <3> HIDE DEF last
    <3>3. Named(range, size) = s .. last
      <4>1. e = Empty => last = size - 1
        BY Zenon, <1>1, <3>2
      <4> QED BY <2>1, <2>2, <3>2, <4>1
    <3>4. length \in Nat /\ length > 0 /\ s + length - 1 = last
      BY <2>1, <3>2
    <3> HIDE DEF length
    <3> QED BY Zenon, <1>5, <1>8, <2>1, <3>1, <3>3, <3>4
  <2> QED BY Zenon, <2>3, <2>4
<1> QED BY Zenon, <1>6, <1>7, <1>8

\* What serve_object makes of the range and the If-Range header.
LEMMA WantedRange ==
    ASSUME NEW asked, AskedTyped(asked), NEW size \in Nat
    PROVE  LET wanted == Wanted(asked, size)
               honoured == Valid(asked.range) /\ asked.if_range \in {Empty, Etag}
           IN  \/ wanted = Ignore /\ ~honoured
               \/ wanted = Unsatisfiable /\ honoured /\ Named(asked.range, size) = {}
               \/ \E offset, length \in Nat :
                    /\ wanted = Satisfiable(offset, length) /\ length > 0 /\ honoured
                    /\ Named(asked.range, size) = offset .. offset + length - 1
<1>1. CASE asked.range.kind = "bounds" /\ asked.if_range \in {Empty, Etag}
  <2>1. asked.range.start \in Bound /\ asked.range.end \in Bound
    BY Zenon DEF AskedTyped
  <2>2. Wanted(asked, size) = parse_range(asked.range, size)
    BY Zenon, <1>1 DEF Wanted, if_range_matches
  <2> QED BY <1>1, <2>1, <2>2, ParsedRange
<1>2. CASE ~(asked.range.kind = "bounds" /\ asked.if_range \in {Empty, Etag})
  BY Zenon, <1>2 DEF Wanted, if_range_matches, Valid
<1> QED BY Zenon, <1>1, <1>2

LEMMA AfterHeadOK ==
    ASSUME NEW asked, AskedTyped(asked), NEW size \in Nat, NEW stored \in BOOLEAN
    PROVE  LET response == AfterHead(asked, stored, size) IN
           /\ response \in Responses
           /\ response # NoResponse => Exact(asked, stored, size, response)
           /\ response = NoResponse => stored
<1> DEFINE response == AfterHead(asked, stored, size)
<1>1. CASE ~stored
  <2>1. response = Failed(404)
    BY Zenon, <1>1 DEF AfterHead
  <2> QED BY <1>1, <2>1 DEF Failed, Response, NoResponse, Exact, Responses
<1>2. CASE stored /\ if_none_match(asked.if_none_match)
  <2>1. response = Response(304, 0, 0, TRUE)
    BY Zenon, <1>2 DEF AfterHead
  <2>2. /\ response \in Responses /\ response # NoResponse /\ response.status = 304
        /\ response.offset = 0 /\ response.length = 0 /\ response.cacheable = TRUE
    BY <2>1 DEF Response, Responses, NoResponse
  <2> HIDE DEF response
  <2>3. Exact(asked, stored, size, response)
    BY <1>2, <2>2 DEF Exact, if_none_match
  <2> QED BY Zenon, <1>2, <2>2, <2>3 DEF response
<1>3. CASE stored /\ ~if_none_match(asked.if_none_match) /\ asked.method = "HEAD"
  <2>1. response = Response(200, 0, 0, TRUE)
    BY Zenon, <1>3 DEF AfterHead
  <2>2. /\ response \in Responses /\ response # NoResponse /\ response.status = 200
        /\ response.offset = 0 /\ response.length = 0 /\ response.cacheable = TRUE
    BY <2>1 DEF Response, Responses, NoResponse
  <2> HIDE DEF response
  <2>3. Exact(asked, stored, size, response)
    BY <1>3, <2>2 DEF Exact, Delivered
  <2> QED BY Zenon, <1>3, <2>2, <2>3 DEF response
<1>4. CASE stored /\ ~if_none_match(asked.if_none_match) /\ asked.method # "HEAD"
  <2>1. response = IF Wanted(asked, size).kind = "unsatisfiable" THEN Failed(416) ELSE NoResponse
    BY Zenon, <1>4 DEF AfterHead
  <2>2. CASE Wanted(asked, size).kind = "unsatisfiable"
    <3>1. /\ Valid(asked.range) /\ asked.if_range \in {Empty, Etag} /\ Named(asked.range, size) = {}
      BY <2>2, WantedRange DEF Ignore, Satisfiable
    <3>2. response = Failed(416)
      BY Zenon, <2>1, <2>2
    <3>3. /\ response \in Responses /\ response # NoResponse /\ response.status = 416
          /\ response.cacheable = FALSE
      BY <3>2 DEF Failed, Response, Responses, NoResponse
    <3> HIDE DEF response
    <3>4. Exact(asked, stored, size, response)
      BY <3>1, <3>3 DEF Exact
    <3> QED BY Zenon, <1>4, <3>3, <3>4 DEF response
  <2>3. CASE Wanted(asked, size).kind # "unsatisfiable"
    <3>1. NoResponse \in Responses
      BY DEF Response, Responses, NoResponse
    <3> QED BY Zenon, <1>4, <2>1, <2>3, <3>1
  <2> QED BY Zenon, <2>2, <2>3
<1> QED BY Zenon, <1>1, <1>2, <1>3, <1>4

LEMMA AfterGetOK ==
    ASSUME NEW asked, AskedTyped(asked), NEW size \in Nat, NEW stored \in BOOLEAN,
           AfterHead(asked, TRUE, size) = NoResponse
    PROVE  LET response == AfterGet(asked, stored, size) IN
           response \in Responses /\ response # NoResponse /\ Exact(asked, stored, size, response)
<1> DEFINE response == AfterGet(asked, stored, size)
           wanted == Wanted(asked, size)
           honoured == Valid(asked.range) /\ asked.if_range \in {Empty, Etag}
<1>1. asked.method # "HEAD" /\ wanted.kind # "unsatisfiable"
  BY DEF AfterHead, NoResponse, Failed, Response
<1>2. \/ wanted = Ignore /\ ~honoured
      \/ wanted = Unsatisfiable
      \/ \E offset, length \in Nat :
           /\ wanted = Satisfiable(offset, length) /\ length > 0 /\ honoured
           /\ Named(asked.range, size) = offset .. offset + length - 1
  BY Zenon, WantedRange
<1> HIDE DEF wanted
<1>3. CASE ~stored
  <2>1. response = Failed(500)
    BY Zenon, <1>3 DEF AfterGet
  <2> QED BY <1>3, <2>1 DEF Failed, Response, NoResponse, Exact, Responses
<1>4. CASE stored /\ wanted = Ignore /\ ~honoured
  <2>1. response = Response(200, 0, size, TRUE)
    BY <1>4 DEF AfterGet, wanted, Ignore
  <2>2. /\ response \in Responses /\ response # NoResponse /\ response.status = 200
        /\ response.offset = 0 /\ response.length = size /\ response.cacheable = TRUE
    BY <2>1 DEF Response, Responses, NoResponse
  <2> HIDE DEF response
  <2>3. Exact(asked, stored, size, response)
    BY <1>1, <1>4, <2>2 DEF Exact, Delivered
  <2> QED BY Zenon, <1>1, <1>4, <2>2, <2>3 DEF response
<1>5. ASSUME stored, NEW offset \in Nat, NEW length \in Nat, wanted = Satisfiable(offset, length),
             length > 0, honoured, Named(asked.range, size) = offset .. offset + length - 1
      PROVE  response \in Responses /\ response # NoResponse /\ Exact(asked, stored, size, response)
  <2>1. response = Response(206, offset, length, TRUE)
    BY <1>5 DEF AfterGet, wanted, Satisfiable
  <2>2. /\ response \in Responses /\ response # NoResponse /\ response.status = 206
        /\ response.offset = offset /\ response.length = length
    BY <2>1 DEF Response, Responses, NoResponse
  <2> HIDE DEF response
  <2>3. offset \in offset .. offset + length - 1
    BY <1>5
  <2>4. Delivered(response) = Named(asked.range, size) /\ Named(asked.range, size) # {}
    <3>1. Delivered(response) = offset .. offset + length - 1
      BY Zenon, <2>2 DEF Delivered
    <3> QED BY Zenon, <1>5, <2>3, <3>1
  <2>5. Exact(asked, stored, size, response)
    BY <1>5, <2>2, <2>4 DEF Exact
  <2> QED BY Zenon, <2>2, <2>5 DEF response
<1>6. wanted # Unsatisfiable
  BY <1>1 DEF Unsatisfiable
<1> QED BY Zenon, <1>2, <1>3, <1>4, <1>5, <1>6

LEMMA ArchiveStable ==
    ASSUME ArchiveInv, UNCHANGED <<history, heads>>
    PROVE  ArchiveInv'
BY Zenon DEF ArchiveInv, HeadOK

LEMMA ServerStable ==
    ASSUME ServingInv, UNCHANGED <<heads, readers, server>>,
           request'.kind = "native" => server.kind = "native",
           request'.kind \in {"edge", "object"} => server.kind = "edge",
           request'.kind = "edge" => request.kind = "edge"
    PROVE  ServerInv'
<1>1. HeadOf(Pinned)' = HeadOf(Pinned) /\ Newest(heads)' = Newest(heads) /\ InUse' = InUse
  BY Zenon DEF HeadOf, Pinned, Newest, InUse
<1> QED BY Zenon, <1>1 DEF ServingInv, ServerInv

LEMMA AskedIsTyped ==
    ASSUME NEW asked \in ObjectRequests
    PROVE  AskedTyped(asked)
BY Zenon, ServingAssumption DEF AskedTyped

LEMMA HandleObjectKeeps ==
    ASSUME ServingInv, NEW asked \in ObjectRequests, NEW run \in EverNamed, NEW size \in Sizes,
           HandleObject(asked, run, size)
    PROVE  ServingInv'
<1> DEFINE new == [kind |-> "object", asked |-> asked, run |-> run, size |-> size,
                   pc |-> "head", response |-> NoResponse]
<1>1. /\ server.kind = "edge" /\ request' = new
      /\ UNCHANGED <<history, heads, deleted, readers, server>>
  BY Zenon DEF HandleObject
<1>2. run \in Runs
  <2>1. PICK h \in DOMAIN heads : run \in Range(heads[h].runs)
    BY Zenon DEF EverNamed
  <2>2. h \in 1 .. Len(heads)
    BY ReadersTyped
  <2>3. HeadOK(heads[h])
    BY Zenon, <2>2 DEF ServingInv, ArchiveInv
  <2>4. heads[h].runs \in Seq(Runs)
    BY Zenon, <2>3, HeadTyped
  <2> QED BY <2>1, <2>4 DEF Range
<1>3. NoResponse \in Responses
  BY DEF NoResponse, Response, Responses
<1>4. new \in Gatewaying /\ new.kind = "object" /\ new.pc = "head"
  BY Zenon, <1>2, <1>3 DEF Gatewaying
<1> HIDE DEF new
<1>5. RequestInv'
  BY Zenon, <1>1, <1>4 DEF RequestInv, StateRequest, ObjectOK, GatewayExact
<1>6. ServerInv'
  BY Zenon, <1>1, <1>4, ServerStable
<1> QED BY Zenon, <1>1, <1>5, <1>6, ArchiveStable DEF ServingInv

LEMMA BucketStepKeeps ==
    ASSUME ServingInv, BucketStep
    PROVE  ServingInv'
<1> DEFINE stored == Stored(request.run)
           response == IF request.pc = "head" THEN AfterHead(request.asked, stored, request.size)
                       ELSE AfterGet(request.asked, stored, request.size)
           pc == IF response = NoResponse THEN "get" ELSE "done"
<1>1. /\ request.kind = "object" /\ request.pc \in {"head", "get"}
      /\ request' = [request EXCEPT !.response = response, !.pc = pc]
      /\ UNCHANGED <<history, heads, deleted, readers, server>>
  BY Zenon DEF BucketStep
<1>2. request \in Gatewaying /\ ObjectOK
  BY <1>1 DEF ServingInv, RequestInv, Idle, Calling
<1>3. AskedTyped(request.asked) /\ request.size \in Nat /\ stored \in BOOLEAN
  BY Zenon, <1>2, AskedIsTyped, ServingAssumption DEF Gatewaying, Stored
<1>4. /\ response \in Responses
      /\ response # NoResponse => Exact(request.asked, stored, request.size, response)
      /\ response = NoResponse => AfterHead(request.asked, TRUE, request.size) = NoResponse
  <2> HIDE DEF stored
  <2>1. CASE request.pc = "head"
    <3>1. response = AfterHead(request.asked, stored, request.size)
      BY Zenon, <2>1
    <3> HIDE DEF response
    <3>2. stored = TRUE \/ stored = FALSE
      BY Zenon, <1>3
    <3>3. response = NoResponse => stored = TRUE
      BY Zenon, <1>3, <3>1, <3>2, AfterHeadOK
    <3> QED BY Zenon, <1>3, <3>1, <3>3, AfterHeadOK
  <2>2. CASE request.pc = "get"
    <3>1. response = AfterGet(request.asked, stored, request.size)
      BY Zenon, <2>2
    <3>2. AfterHead(request.asked, TRUE, request.size) = NoResponse
      BY Zenon, <1>2, <2>2 DEF ObjectOK
    <3> HIDE DEF response
    <3> QED BY Zenon, <1>3, <3>1, <3>2, AfterGetOK
  <2> QED BY Zenon, <1>1, <2>1, <2>2
<1>5. pc \in {"get", "done"} /\ (pc = "get" => response = NoResponse) /\ (pc = "done" => response # NoResponse)
  BY Zenon
<1> HIDE DEF response, pc
<1>6. /\ request' \in Gatewaying /\ request'.kind = "object" /\ request'.asked = request.asked
      /\ request'.run = request.run /\ request'.size = request.size
      /\ request'.pc = pc /\ request'.response = response
  BY Zenon, <1>1, <1>2, <1>4, <1>5 DEF Gatewaying
<1>7. GatewayExact'
  <2>1. Stored(request.run)' = stored
    BY <1>1, <1>6 DEF Stored
  <2> QED BY Zenon, <1>4, <1>5, <1>6, <2>1 DEF GatewayExact
<1>8. RequestInv'
  BY Zenon, <1>4, <1>5, <1>6, <1>7 DEF RequestInv, StateRequest, ObjectOK
<1>9. ServerInv'
  <2>1. server.kind = "edge"
    BY Zenon, <1>1 DEF ServingInv, ServerInv
  <2> QED BY Zenon, <1>1, <1>6, <2>1, ServerStable
<1> QED BY Zenon, <1>1, <1>8, <1>9, ArchiveStable DEF ServingInv

LEMMA IdleIsSafe ==
    ASSUME request' = Idle
    PROVE  RequestInv' /\ request'.kind = "idle"
BY Zenon DEF RequestInv, Idle, StateRequest

LEMMA RespondObjectKeeps ==
    ASSUME ServingInv, RespondObject
    PROVE  ServingInv'
<1>1. request' = Idle /\ UNCHANGED <<history, heads, deleted, readers, server>>
  BY Zenon DEF RespondObject
<1>2. RequestInv' /\ request'.kind = "idle"
  BY Zenon, <1>1, IdleIsSafe
<1>3. ServerInv'
  BY Zenon, <1>1, <1>2, ServerStable
<1> QED BY Zenon, <1>1, <1>2, <1>3, ArchiveStable DEF ServingInv

-----------------------------------------------------------------------------
(* Requests and the refresh task *)

\* A call that has not started.
LEMMA NewCallOK ==
    ASSUME NEW asked \in CallRequests
    PROVE  LET c == NewCall(asked) d == Charged(c, HeadCost) IN
           /\ c \in CallStates /\ c.pc = "queued" /\ c.block = None /\ c.value = None /\ c.step = 1
           /\ d \in CallStates /\ d.pc = "queued" /\ d.block = None /\ d.value = None /\ d.step = 1
<1> DEFINE c == NewCall(asked)
<1>1. c \in CallStates /\ c.pc = "queued" /\ c.block = None /\ c.value = None /\ c.step = 1
  BY Zenon DEF NewCall, CallRequests, CallStates
<1>2. HeadCost \in Nat
  BY Zenon, Amounts
<1> HIDE DEF c
<1> QED BY Zenon, <1>1, <1>2, ChargedFacts DEF c, AsFar

LEMMA QueuedOK ==
    ASSUME NEW c, c.pc = "queued", c.block = None, c.value = None, c.step = 1, NEW kind, NEW head
    PROVE  CallOK(kind, head, c)'
BY Zenon DEF CallOK

LEMMA HandleBatchKeeps ==
    ASSUME ServingInv, NEW batch \in Batches, HandleBatch(batch)
    PROVE  ServingInv'
<1> DEFINE calls == [i \in DOMAIN batch |-> NewCall(batch[i])]
<1>1. /\ server.kind = "native" /\ request' = [kind |-> "native", calls |-> calls]
      /\ UNCHANGED <<history, heads, deleted, readers, server>>
  BY Zenon DEF HandleBatch
<1>2. batch \in Seq(CallRequests)
  BY Zenon, ServingAssumption
<1>3. \A i \in DOMAIN batch : /\ calls[i] \in CallStates /\ calls[i].pc = "queued" /\ calls[i].block = None
                              /\ calls[i].value = None /\ calls[i].step = 1
  BY <1>2, NewCallOK
<1>4. calls \in Seq(CallStates) /\ DOMAIN calls = DOMAIN batch
  BY <1>2, <1>3
<1> HIDE DEF calls
<1>5. request' \in Calling /\ request'.kind = "native" /\ request'.calls = calls
  BY Zenon, <1>1, <1>4 DEF Calling
<1>6. CallsOK'
  <2>1. SUFFICES ASSUME NEW kind, NEW head, NEW i \in DOMAIN calls, NEW c, c = calls[i]
                 PROVE  CallOK(kind, head, c)'
    BY Zenon, <1>5 DEF CallsOK, CallOf
  <2> QED BY Zenon, <1>3, <1>4, <2>1, QueuedOK
<1>7. RequestInv'
  BY Zenon, <1>5, <1>6 DEF RequestInv
<1>8. ServerInv'
  BY Zenon, <1>1, <1>5, ServerStable
<1> QED BY Zenon, <1>1, <1>7, <1>8, ArchiveStable DEF ServingInv

LEMMA HandleEdgeKeeps ==
    ASSUME ServingInv, NEW asked \in Calls, HandleEdge(asked)
    PROVE  ServingInv'
<1> DEFINE c == Charged(NewCall(asked), HeadCost)
<1>1. /\ server.kind = "edge" /\ request' = [kind |-> "edge", calls |-> <<c>>] /\ readers' = <<Len(heads)>>
      /\ UNCHANGED <<history, heads, deleted, server>>
  BY Zenon DEF HandleEdge, Load
<1>2. c \in CallStates /\ c.pc = "queued" /\ c.block = None /\ c.value = None /\ c.step = 1
  BY Zenon, ServingAssumption, NewCallOK
<1> HIDE DEF c
<1>3. request' \in Calling /\ request'.kind = "edge" /\ request'.calls = <<c>>
  BY <1>1, <1>2 DEF Calling
<1>4. CallsOK'
  <2>1. SUFFICES ASSUME NEW kind, NEW head, NEW i \in DOMAIN <<c>>, NEW d, d = <<c>>[i]
                 PROVE  CallOK(kind, head, d)'
    BY Zenon, <1>3 DEF CallsOK, CallOf
  <2>2. d = c
    BY <2>1
  <2> QED BY Zenon, <1>2, <2>2, QueuedOK
<1>5. RequestInv'
  BY Zenon, <1>3, <1>4 DEF RequestInv
<1>6. Len(heads) \in 1 .. Len(heads)
  BY ReadersTyped
<1>7. /\ readers' \in Seq(1 .. Len(heads')) /\ readers' # << >> /\ HeadOf(Pinned)' = Newest(heads)
      /\ Newest(heads)' = Newest(heads)
  BY <1>1, <1>6 DEF HeadOf, Pinned, Newest
<1>8. ServerInv'
  BY Zenon, <1>1, <1>3, <1>7 DEF ServingInv, ServerInv
<1> QED BY Zenon, <1>1, <1>5, <1>8, ArchiveStable DEF ServingInv

LEMMA RespondKeeps ==
    ASSUME ServingInv, Respond
    PROVE  ServingInv'
<1> DEFINE m == Max({server.shown, HeadOf(Pinned).number})
<1>1. /\ StateRequest /\ request' = Idle /\ server' = [server EXCEPT !.shown = m]
      /\ readers' = (IF request.kind = "edge" THEN << >> ELSE <<Newest(readers)>>)
      /\ UNCHANGED <<history, heads, deleted>>
  BY Zenon DEF Respond, StateRequest
<1>2. RequestInv' /\ request'.kind = "idle"
  BY Zenon, <1>1, IdleIsSafe
<1>3. /\ Pinned \in 1 .. Len(heads) /\ Newest(readers) \in 1 .. Len(heads)
      /\ HeadOf(Pinned).number \in Nat /\ Newest(heads).number \in Nat
  BY Zenon, <1>1, ReadersTyped, HeadTyped
<1>4. server.shown <= HeadOf(Pinned).number /\ server.shown \in Nat
  BY Zenon, <1>1 DEF ServingInv, ServerInv, StateRequest
<1>5. m = HeadOf(Pinned).number
  <2> DEFINE n == HeadOf(Pinned).number
             S == {server.shown, n}
  <2>1. n \in S /\ \A y \in S : n >= y
    BY <1>3, <1>4
  <2>2. S \in SUBSET Int /\ S # {} /\ n \in Int /\ \A x \in S : x <= n
    BY <1>3, <1>4
  <2> HIDE DEF n, S
  <2>3. Max(S) \in S /\ \A y \in S : y <= Max(S)
    BY Zenon, <2>2, MaxFacts
  <2> DEFINE k == Max(S)
  <2>4. k \in Int /\ k <= n /\ n <= k
    BY Zenon, <2>1, <2>2, <2>3
  <2> HIDE DEF k
  <2>5. k = n
    BY <2>2, <2>4
  <2> QED BY Zenon, <2>5 DEF k, S, n
<1> HIDE DEF m
<1>6. HeadOf(Pinned).number <= Newest(heads).number
  <2>1. Len(heads) \in 1 .. Len(heads) /\ Pinned <= Len(heads) /\ Newest(heads) = heads[Len(heads)]
    BY <1>3, ReadersTyped
  <2> QED BY Zenon, <1>3, <2>1 DEF ServingInv, ArchiveInv, HeadOf
<1>7. /\ server' \in [kind : {"native", "edge"}, source : Sources, opened : Nat, faults : Nat, shown : Nat]
      /\ server'.kind = server.kind /\ server'.opened = server.opened /\ server'.shown = HeadOf(Pinned).number
  BY Zenon, <1>1, <1>3, <1>5 DEF ServingInv, ServerInv
<1>8. Newest(heads)' = Newest(heads)
  BY Zenon, <1>1 DEF Newest
<1>9. CASE request.kind = "edge"
  <2>1. server.kind = "edge" /\ readers' = << >>
    BY Zenon, <1>1, <1>9 DEF ServingInv, ServerInv
  <2>2. readers' \in Seq(1 .. Len(heads'))
    BY <2>1
  <2> QED BY ZenonT(30), <1>1, <1>2, <1>6, <1>7, <1>8, <2>1, <2>2, ArchiveStable DEF ServingInv, ServerInv
<1>10. CASE request.kind = "native"
  <2>1. server.kind = "native" /\ readers' = <<Newest(readers)>> /\ HeadOf(Pinned).number <= InUse.number
    BY Zenon, <1>1, <1>10 DEF ServingInv, ServerInv
  <2> DEFINE n == Newest(readers)
  <2>6. n \in 1 .. Len(heads) /\ readers' = <<n>> /\ heads' = heads
    BY Zenon, <1>1, <1>3, <2>1
  <2>7. InUse = heads[n]
    BY Zenon DEF InUse, HeadOf
  <2> HIDE DEF n
  <2>2. readers' \in Seq(1 .. Len(heads')) /\ readers' # << >>
    BY <2>6
  <2>3. HeadOf(Pinned)' = InUse /\ InUse' = InUse
    <3>1. HeadOf(Pinned)' = heads[n]
      BY Zenon, <2>6 DEF HeadOf, Pinned
    <3>2. InUse' = heads[n]
      BY Zenon, <2>6 DEF HeadOf, InUse, Newest
    <3> QED BY Zenon, <2>7, <3>1, <3>2
  <2>4. InUse.number \in Nat
    <3>1. HeadOK(InUse)
      BY Zenon, <1>3 DEF ServingInv, ArchiveInv, InUse, HeadOf
    <3> QED BY Zenon, <3>1, HeadTyped
  <2>5. ServerInv'
    <3>1. server.opened <= Len(heads) /\ (server.kind = "edge" => server.opened = 0)
      BY Zenon DEF ServingInv, ServerInv
    <3>2. /\ server'.opened <= Len(heads') /\ server'.shown <= Newest(heads)'.number
          /\ HeadOf(Pinned)'.number <= InUse'.number /\ server'.shown <= HeadOf(Pinned)'.number
      BY <1>1, <1>6, <1>7, <1>8, <2>1, <2>3, <2>4, <3>1
    <3> QED BY Zenon, <1>2, <1>7, <2>1, <2>2, <3>2 DEF ServerInv
  <2> QED BY Zenon, <1>1, <1>2, <2>5, ArchiveStable DEF ServingInv
<1> QED BY Zenon, <1>1, <1>9, <1>10 DEF StateRequest

LEMMA RefreshOpenKeeps ==
    ASSUME ServingInv, NEW h \in DOMAIN heads, RefreshOpen(h)
    PROVE  ServingInv'
<1>1. /\ server.kind = "native"
      /\ server' = [server EXCEPT !.opened = h, !.faults = IF h < Len(heads) THEN @ + 1 ELSE @]
      /\ UNCHANGED <<history, heads, deleted, readers, request>>
  BY Zenon DEF RefreshOpen
<1>2. h \in Nat /\ h <= Len(heads)
  BY ReadersTyped
<1>3. server \in [kind : {"native", "edge"}, source : Sources, opened : Nat, faults : Nat, shown : Nat]
  BY Zenon DEF ServingInv, ServerInv
<1>4. /\ server' \in [kind : {"native", "edge"}, source : Sources, opened : Nat, faults : Nat, shown : Nat]
      /\ server'.kind = server.kind /\ server'.opened = h /\ server'.shown = server.shown
  <2> DEFINE faults == IF h < Len(heads) THEN server.faults + 1 ELSE server.faults
  <2>1. server' = [server EXCEPT !.opened = h, !.faults = faults]
    BY Zenon, <1>1
  <2>2. faults \in Nat
    BY <1>3
  <2> HIDE DEF faults
  <2> QED BY Zenon, <1>2, <1>3, <2>1, <2>2
<1>5. HeadOf(Pinned)' = HeadOf(Pinned) /\ Newest(heads)' = Newest(heads) /\ InUse' = InUse
  BY Zenon, <1>1 DEF HeadOf, Pinned, Newest, InUse
<1>6. ServerInv'
  BY Zenon, <1>1, <1>2, <1>4, <1>5 DEF ServingInv, ServerInv
<1>7. RequestInv'
  BY Zenon, <1>1, <1>5, RequestStable DEF ServingInv
<1> QED BY Zenon, <1>1, <1>6, <1>7, ArchiveStable DEF ServingInv

LEMMA PairConcat ==
    ASSUME NEW S, NEW x \in S, NEW y \in S
    PROVE  << >> \o <<y>> = <<y>> /\ <<x>> \o <<y>> = <<x, y>>
<1>1. << >> \o <<y>> = <<y>>
  OBVIOUS
<1> DEFINE p == <<x>> \o <<y>>
           q == <<x, y>>
<1>2. p \in Seq(S) /\ Len(p) = 2 /\ p[1] = x /\ p[2] = y
  <2>1. <<x>> \in Seq(S) /\ <<y>> \in Seq(S) /\ Len(<<x>>) = 1 /\ Len(<<y>>) = 1
    OBVIOUS
  <2> QED BY <2>1
<1>3. q \in Seq(S) /\ Len(q) = 2 /\ q[1] = x /\ q[2] = y
  OBVIOUS
<1> HIDE DEF p, q
<1>4. \A i \in 1 .. Len(p) : p[i] = q[i]
  BY <1>2, <1>3
<1>5. p = q
  BY <1>2, <1>3, <1>4
<1> QED BY Zenon, <1>1, <1>5 DEF p, q

\* A head of an earlier block is not adopted, and a request keeps its own.
LEMMA RefreshAdoptKeeps ==
    ASSUME ServingInv, RefreshAdopt
    PROVE  ServingInv'
<1> DEFINE n == server.opened
<1>1. /\ n # 0 /\ server' = [server EXCEPT !.opened = 0]
      /\ UNCHANGED <<history, heads, deleted, request>>
      /\ IF Keeps THEN UNCHANGED readers ELSE Adopt
  BY Zenon DEF RefreshAdopt
<1>2. server \in [kind : {"native", "edge"}, source : Sources, opened : Nat, faults : Nat, shown : Nat]
  BY Zenon DEF ServingInv, ServerInv
<1>3. /\ server.kind = "native" /\ n \in 1 .. Len(heads)
      /\ server.shown <= HeadOf(Pinned).number /\ HeadOf(Pinned).number <= InUse.number
  <2>1. n \in Nat /\ n <= Len(heads) /\ (server.kind = "edge" => n = 0)
    BY Zenon, <1>2 DEF ServingInv, ServerInv
  <2>2. server.kind = "native"
    BY Zenon, <1>1, <1>2, <2>1
  <2> QED BY <1>1, <2>1, <2>2, ReadersTyped DEF ServingInv, ServerInv
<1>4. /\ server' \in [kind : {"native", "edge"}, source : Sources, opened : Nat, faults : Nat, shown : Nat]
      /\ server'.kind = server.kind /\ server'.opened = 0 /\ server'.shown = server.shown
  BY Zenon, <1>1, <1>2
<1>5. Newest(heads)' = Newest(heads)
  BY Zenon, <1>1 DEF Newest
<1>6. ASSUME readers' \in Seq(1 .. Len(heads)), readers' # << >>, StateRequest => HeadOf(Pinned)' = HeadOf(Pinned),
             HeadOf(Pinned)'.number <= InUse'.number, server.shown <= HeadOf(Pinned)'.number
      PROVE  ServingInv'
  <2>1. ServerInv'
    BY <1>1, <1>3, <1>4, <1>5, <1>6, ReadersTyped DEF ServingInv, ServerInv
  <2>2. RequestInv'
    BY Zenon, <1>1, <1>6, RequestStable DEF ServingInv
  <2> QED BY Zenon, <1>1, <2>1, <2>2, ArchiveStable DEF ServingInv
<1>7. CASE Keeps
  <2>1. HeadOf(Pinned)' = HeadOf(Pinned) /\ InUse' = InUse
    BY Zenon, <1>1, <1>7 DEF HeadOf, Pinned, Newest, InUse
  <2>2. readers' \in Seq(1 .. Len(heads)) /\ readers' # << >>
    BY Zenon, <1>1, <1>3, <1>7 DEF ServingInv, ServerInv
  <2> QED BY Zenon, <1>3, <1>6, <2>1, <2>2
<1>8. CASE ~Keeps
  <2>1. heads[n].number >= InUse.number
    <3>1. ~(heads[n].number < InUse.number)
      BY Zenon, <1>8 DEF Keeps
    <3>2. HeadOK(heads[n]) /\ HeadOK(InUse)
      <4>1. readers # << >>
        BY Zenon, <1>3 DEF ServingInv, ServerInv
      <4>2. Newest(readers) \in 1 .. Len(heads)
        BY Zenon, <4>1, ReadersTyped
      <4> QED BY Zenon, <1>3, <4>2 DEF ServingInv, ArchiveInv, InUse, HeadOf
    <3>3. heads[n].number \in Nat /\ InUse.number \in Nat
      BY Zenon, <3>2, HeadTyped
    <3> QED BY <3>1, <3>3
  <2>2. /\ Pinned \in 1 .. Len(heads) /\ HeadOf(Pinned).number \in Nat /\ InUse.number \in Nat
        /\ heads[n].number \in Nat /\ server.shown \in Nat
    <3>1. readers # << >>
      BY <1>3 DEF ServingInv, ServerInv
    <3>2. Pinned \in 1 .. Len(heads) /\ Newest(readers) \in 1 .. Len(heads)
      BY Zenon, <3>1, ReadersTyped
    <3>3. HeadOK(heads[n]) /\ HeadOK(InUse) /\ HeadOK(HeadOf(Pinned))
      BY Zenon, <1>3, <3>2 DEF ServingInv, ArchiveInv, InUse, HeadOf
    <3> QED BY ZenonT(30), <1>2, <3>2, <3>3, HeadTyped
  <2>3. CASE request = Idle
    <3>1. readers' = <<n>>
      <4>1. readers' = << >> \o <<n>> /\ n \in 1 .. Len(heads)
        BY Zenon, <1>1, <1>3, <1>8, <2>3 DEF Adopt
      <4> QED BY Zenon, <4>1, PairConcat
    <3> HIDE DEF n
    <3>2. readers' \in Seq(1 .. Len(heads)) /\ readers' # << >>
      BY <1>3, <3>1
    <3>3. HeadOf(Pinned)' = heads[n] /\ InUse' = heads[n]
      BY Zenon, <1>1, <3>1 DEF HeadOf, Pinned, InUse, Newest
    <3>4. ~StateRequest
      BY Zenon, <2>3 DEF StateRequest, Idle
    <3> QED BY <1>3, <1>6, <2>1, <2>2, <3>2, <3>3, <3>4
  <2>4. CASE request # Idle
    <3> DEFINE p == Pinned
    <3>1. readers' = <<p, n>>
      <4>1. readers' = <<p>> \o <<n>> /\ n \in 1 .. Len(heads) /\ p \in 1 .. Len(heads)
        BY Zenon, <1>1, <1>3, <1>8, <2>2, <2>4 DEF Adopt
      <4> HIDE DEF n, p
      <4> QED BY Zenon, <4>1, PairConcat
    <3>2. p \in 1 .. Len(heads) /\ HeadOf(Pinned) = heads[p]
      BY Zenon, <2>2 DEF HeadOf
    <3> HIDE DEF n, p
    <3>3. readers' \in Seq(1 .. Len(heads)) /\ readers' # << >>
      BY <1>3, <3>1, <3>2
    <3>4. HeadOf(Pinned)' = heads[p] /\ InUse' = heads[n]
      BY Zenon, <1>1, <3>1 DEF HeadOf, Pinned, InUse, Newest
    <3> QED BY <1>3, <1>6, <2>1, <2>2, <3>2, <3>3, <3>4
  <2> QED BY Zenon, <2>3, <2>4
<1> QED BY Zenon, <1>7, <1>8

-----------------------------------------------------------------------------
(* The theorems *)

LEMMA InitOK ==
    ASSUME Init
    PROVE  ServingInv
<1> DEFINE runs == [i \in 1 .. FirstHead + 1 |-> Run(i - 1, i - 1)]
           first == [number |-> FirstHead, runs |-> runs]
<1>1. /\ history \in Histories /\ heads = <<first>> /\ request = Idle
      /\ server \in [kind : {"native", "edge"}, source : Sources, opened : Nat, faults : Nat, shown : Nat]
      /\ server.opened = 0 /\ server.shown = FirstHead
      /\ readers = IF server.kind = "native" THEN <<1>> ELSE << >>
  BY ServingAssumption DEF Init, Sources
<1>2. FirstHead \in Nat /\ FirstHead \in 0 .. MaxBlock /\ FirstHead + 1 \in 1 .. MAX_RUNS
  BY ServingAssumption
<1>3. runs \in Seq(Runs) /\ Len(runs) = FirstHead + 1
  BY <1>2 DEF Run, Runs
<1>4. \A p \in 1 .. FirstHead + 1 : runs[p].start = p - 1 /\ runs[p].end = p - 1
  BY Zenon DEF Run
<1> HIDE DEF runs
<1>5. first \in Heads /\ first.number = FirstHead /\ first.runs = runs
  BY Zenon, <1>2, <1>3 DEF Heads
<1> HIDE DEF first
<1>6. HeadOK(first)
  <2>1. ASSUME NEW b \in 0 .. FirstHead PROVE \E p \in 1 .. FirstHead + 1 : b \in runs[p].start .. runs[p].end
    <3>1. b + 1 \in 1 .. FirstHead + 1 /\ runs[b + 1].start = b /\ runs[b + 1].end = b
      BY <1>2, <1>4
    <3>2. b \in runs[b + 1].start .. runs[b + 1].end
      BY <3>1
    <3> QED BY Zenon, <3>1, <3>2
  <2>2. \A p \in 1 .. FirstHead + 1 : runs[p].start <= runs[p].end /\ runs[p].end <= FirstHead
    BY <1>2, <1>4
  <2>3. \A p, q \in 1 .. FirstHead + 1 : p < q => runs[p].end < runs[q].start
    BY <1>2, <1>4
  <2> QED BY ZenonT(30), <1>2, <1>3, <1>5, <2>1, <2>2, <2>3 DEF HeadOK
<1>7. ArchiveInv
  <2>1. heads \in Seq(Heads) /\ Len(heads) = 1 /\ heads # << >> /\ heads[1] = first
    BY <1>1, <1>5
  <2> QED BY <1>1, <1>2, <1>5, <1>6, <2>1 DEF ArchiveInv
<1>8. ServerInv
  <2>1. Newest(heads) = first /\ Len(heads) = 1 /\ heads[1] = first /\ request.kind = "idle"
    BY Zenon, <1>1 DEF Newest, Idle
  <2>2. CASE server.kind = "native"
    <3>1. readers = <<1>> /\ readers \in Seq(1 .. 1) /\ readers # << >>
      BY <1>1, <2>2
    <3>2. HeadOf(Pinned) = first /\ InUse = first
      BY Zenon, <2>1, <3>1 DEF HeadOf, Pinned, InUse, Newest
    <3> QED BY <1>1, <1>2, <1>5, <2>1, <2>2, <3>1, <3>2 DEF ServerInv
  <2>3. CASE server.kind = "edge"
    <3>1. readers = << >> /\ readers \in Seq(1 .. 1)
      BY <1>1, <2>3
    <3> QED BY <1>1, <1>2, <1>5, <2>1, <2>3, <3>1 DEF ServerInv
  <2> QED BY Zenon, <1>1, <2>2, <2>3
<1>9. RequestInv
  BY Zenon, <1>1 DEF RequestInv, Idle, StateRequest
<1> QED BY Zenon, <1>7, <1>8, <1>9 DEF ServingInv

LEMMA NextOK ==
    ASSUME ServingInv, [Next]_vars
    PROVE  ServingInv'
<1>1. ASSUME Publish PROVE ServingInv'
  BY Zenon, <1>1, PublishKeeps
<1>2. ASSUME NEW first \in 1 .. MaxBlock + 1, NEW last \in 1 .. MaxBlock + 1, Compact(first, last)
      PROVE  ServingInv'
  <2>1. first \in Nat \ {0} /\ last \in Nat
    BY ServingAssumption
  <2> QED BY Zenon, <1>2, <2>1, CompactKeeps
<1>3. ASSUME NEW run \in EverNamed, Collect(run) PROVE ServingInv'
  BY Zenon, <1>3, CollectKeeps
<1>4. ASSUME NEW h \in DOMAIN heads, RefreshOpen(h) PROVE ServingInv'
  BY Zenon, <1>4, RefreshOpenKeeps
<1>5. ASSUME RefreshAdopt PROVE ServingInv'
  BY <1>5, RefreshAdoptKeeps
<1>6. ASSUME NEW batch \in Batches, HandleBatch(batch) PROVE ServingInv'
  BY Zenon, <1>6, HandleBatchKeeps
<1>7. ASSUME NEW asked \in Calls, HandleEdge(asked) PROVE ServingInv'
  BY <1>7, HandleEdgeKeeps
<1>8. ASSUME NEW asked \in ObjectRequests, NEW run \in EverNamed, NEW size \in Sizes, HandleObject(asked, run, size)
      PROVE  ServingInv'
  BY Zenon, <1>8, HandleObjectKeeps
<1>9. ASSUME request.kind \in {"native", "edge"} /\ CallStep PROVE ServingInv'
  BY Zenon, <1>9, CallStepKeeps DEF StateRequest
<1>10. ASSUME Respond PROVE ServingInv'
  BY <1>10, RespondKeeps
<1>11. ASSUME BucketStep PROVE ServingInv'
  BY <1>11, BucketStepKeeps
<1>12. ASSUME RespondObject PROVE ServingInv'
  BY <1>12, RespondObjectKeeps
<1>13. ASSUME UNCHANGED vars PROVE ServingInv'
  <2>1. UNCHANGED <<history, heads, deleted, readers, server, request>>
    BY Zenon, <1>13 DEF vars
  <2>2. HeadOf(Pinned)' = HeadOf(Pinned)
    BY Zenon, <2>1 DEF HeadOf, Pinned
  <2>3. ServerInv'
    BY Zenon, <2>1, ServerStable DEF ServingInv, ServerInv
  <2>4. RequestInv'
    BY Zenon, <2>1, <2>2, RequestStable DEF ServingInv
  <2> QED BY Zenon, <2>1, <2>3, <2>4, ArchiveStable DEF ServingInv
<1> QED BY Zenon, <1>1, <1>2, <1>3, <1>4, <1>5, <1>6, <1>7, <1>8, <1>9, <1>10, <1>11, <1>12, <1>13 DEF Next, Archive

\* Heads, readers and calls stay in order in every run of the system.
THEOREM ServingInvariant == Spec => []ServingInv
<1>1. Init => ServingInv
  BY Zenon, InitOK
<1>2. ServingInv /\ [Next]_vars => ServingInv'
  BY Zenon, NextOK
<1> QED BY <1>1, <1>2, PTL DEF Spec

\* Every call of a request in hand is as the invariant has it.
LEMMA CallsAre ==
    ASSUME ServingInv, StateRequest, NEW i \in DOMAIN request.calls
    PROVE  CallOK(request.kind, HeadOf(Pinned), CallOf(i))
BY Zenon DEF ServingInv, RequestInv, CallsOK

\* An answer is the value the chain had at the block asked for, whatever is
\* published, merged, collected or adopted during the request.
THEOREM ReadsAreExact == Spec => []AnswersExact
<1>1. ServingInv => AnswersExact
  <2>1. SUFFICES ASSUME ServingInv, StateRequest, NEW i \in DOMAIN request.calls
                 PROVE  /\ CallOf(i).pc = "ok" => CallOf(i).value = Truth(CallOf(i).method, CallOf(i).block)
                        /\ CallOf(i).pc # "no_blob"
    BY Zenon DEF AnswersExact
  <2> QED BY Zenon, <2>1, CallsAre DEF CallOK
<1> QED BY <1>1, ServingInvariant, PTL

\* All calls of a batch that ask for the latest block mean the same block, though
\* the server adopts other heads while the batch runs.
THEOREM BatchesReadOneBlock == Spec => []BatchOneBlock
<1>1. ServingInv => BatchOneBlock
  <2>1. SUFFICES ASSUME ServingInv, StateRequest,
                        NEW i \in DOMAIN request.calls, NEW j \in DOMAIN request.calls,
                        CallOf(i).selector = Latest, CallOf(j).selector = Latest,
                        CallOf(i).block # None, CallOf(j).block # None
                 PROVE  CallOf(i).block = CallOf(j).block
    BY Zenon DEF BatchOneBlock
  <2>2. Resolved(HeadOf(Pinned), CallOf(i)) /\ Resolved(HeadOf(Pinned), CallOf(j))
    BY Zenon, <2>1, CallsAre DEF CallOK
  <2> QED BY Zenon, <2>1, <2>2 DEF Resolved
<1> QED BY <1>1, ServingInvariant, PTL

\* A client that was answered from one block is never later answered from an
\* earlier one, even if the store hands the refresh task an earlier head.
THEOREM ReadsAreMonotonic == Spec => []MonotonicReads
<1>1. ServingInv => MonotonicReads
  <2>1. SUFFICES ASSUME ServingInv, StateRequest PROVE HeadOf(Pinned).number >= server.shown
    BY Zenon DEF MonotonicReads
  <2>2. server.shown <= HeadOf(Pinned).number /\ server.shown \in Nat
    BY Zenon, <2>1 DEF ServingInv, ServerInv, StateRequest
  <2>3. HeadOf(Pinned).number \in Nat
    BY Zenon, <2>1, ReadersTyped, HeadTyped
  <2> QED BY Zenon, <2>2, <2>3
<1> QED BY <1>1, ServingInvariant, PTL

\* A gateway response has exactly the bytes that its request named, for every
\* range, size and precondition, though the object may vanish between the two
\* requests to the bucket.
THEOREM GatewayIsExact == Spec => []GatewayExact
<1>1. ServingInv => GatewayExact
  BY Zenon DEF ServingInv, RequestInv, ObjectOK, GatewayExact
<1> QED BY <1>1, ServingInvariant, PTL

=============================================================================
