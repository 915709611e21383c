------------------------------- MODULE Serving --------------------------------
(***************************************************************************)
(* Reading the archive while it changes: the native JSON-RPC server          *)
(* (rpc.rs, Reader and Budget of tiered.rs) with its batches and, if it was  *)
(* given an interval, its head refresh, or the edge worker (worker/src),     *)
(* which pins a head per request and also hands out objects.  Publication    *)
(* and compaction replace the head meanwhile, and a collector deletes the    *)
(* objects of replaced runs.                                                 *)
(*                                                                         *)
(* A run is its block interval, since its contents follow from it; a         *)
(* collector deletes its summary shards, fences and pages.  A value is the   *)
(* block that wrote it.  Every GET is a step.                                *)
(*                                                                         *)
(* There is one HTTP request at a time: requests of a server share nothing   *)
(* but a reader's cache of shards.  All requests fill and evict it, so that  *)
(* a native call finds a shard in it or not; the edge worker's map of shards *)
(* lives and grows with its one request.                                     *)
(***************************************************************************)
EXTENDS ObjectGateway, Sequences, FiniteSetsExt

CONSTANTS
    FirstHead,          \* the block of the first head, in runs of one block
    MaxBlock,           \* bound: blocks published
    MaxHeads,           \* bound: heads ever published
    MAX_RUNS,           \* runs of a head (MAX_L0_BACKLOG and one per level)
    MaxFaults,          \* bound: refreshes that read an earlier head
    Histories,          \* per block, the keys it writes
    Batches,            \* the batches of calls a client sends to the native server
    Calls,              \* the calls a client sends to the edge worker
    ObjectRequests,     \* requests for an object
    Sizes,              \* sizes of an object
    BATCH_CONCURRENCY,
    MAX_REQUEST,        \* a budget, and what a GET of each kind is charged: one
    ShardCost, TreeCost, HeadCost,   \* each for MAX_REQUEST_GETS, else bytes
    WalkGets,           \* GETs of a fence walk (2, or 3 in a large run)
    Latest,             \* the selectors latest, safe and finalized
    None

Methods == {"account", "storage", "code"}
CallRequests == [method : Methods, selector : Nat \cup {Latest}]
Bound == Nat \cup {Empty}

\* A block has at most one record of the account; a new code comes with a record
\* of the account, which holds its hash.
ASSUME ServingAssumption ==
    /\ MaxBlock \in Nat /\ FirstHead \in 0 .. MaxBlock /\ FirstHead < MAX_RUNS /\ MAX_RUNS \in Nat
    /\ \A h \in Histories :
         /\ h \in [0 .. MaxBlock -> SUBSET {"account", "destroyed", "slot", "code"}]
         /\ \A b \in 0 .. MaxBlock :
              /\ "code" \in h[b] => "account" \in h[b]
              /\ ~({"account", "destroyed"} \subseteq h[b])
    /\ Batches \subseteq Seq(CallRequests) /\ Calls \subseteq CallRequests
    /\ {asked.range : asked \in ObjectRequests} \subseteq
         [kind : {"none", "other", "bounds"}, start : Bound, end : Bound]
    /\ {asked.method : asked \in ObjectRequests} \subseteq {"GET", "HEAD"}
    /\ Sizes \subseteq Nat
    /\ None \notin Nat /\ Latest \notin Nat
    /\ {MAX_REQUEST, ShardCost, TreeCost, HeadCost} \subseteq Nat /\ WalkGets \in Nat \ {0}

VARIABLES
    history,    \* the keys written by each block of the chain
    heads,      \* every head so far, the last one being current
    deleted,    \* objects the collector removed
    readers,    \* heads pinned: the request's and, last, the one in use
    server,     \* front end, where it takes its head from, the head being opened by the
                \* refresh task, faults, and the highest block a client was answered from
    request

vars == <<history, heads, deleted, readers, server, request>>

Newest(s) == s[Len(s)]
HeadOf(reader) == heads[reader]
Pinned == readers[1]   \* the reader of the request

-----------------------------------------------------------------------------
(* The archive: what publication, compaction and collection leave to readers *)

Run(start, end) == [start |-> start, end |-> end]
Stored(run) == run \notin deleted

Replace(head) == heads' = Append(heads, head) /\ UNCHANGED <<history, deleted, readers, server, request>>

Publish ==
    LET head == Newest(heads) next == head.number + 1 IN
    /\ Len(heads) < MaxHeads /\ head.number < MaxBlock /\ Len(head.runs) < MAX_RUNS
    /\ Replace([number |-> next, runs |-> Append(head.runs, Run(next, next))])

\* Adjacent runs become one.
Compact(first, last) ==
    LET head == Newest(heads) runs == head.runs IN
    /\ Len(heads) < MaxHeads
    /\ first < last /\ last <= Len(runs)
    /\ Replace([head EXCEPT !.runs =
           SubSeq(runs, 1, first - 1) \o <<Run(runs[first].start, runs[last].end)>>
           \o SubSeq(runs, last + 1, Len(runs))])

\* A run that the head no longer names is deleted.
Collect(run) ==
    /\ run \notin Range(Newest(heads).runs) /\ Stored(run)
    /\ deleted' = deleted \cup {run}
    /\ UNCHANGED <<history, heads, readers, server, request>>

-----------------------------------------------------------------------------
(* One state call: the lookups it makes, run by run *)

\* A block writes an account, or its destruction, after which an incarnation with
\* no storage begins, and it writes a slot of the account or a new code for it.
Writes(b, what) == what \in history[b]

\* An incarnation is told from the others by the destructions before it, whose
\* number is the counter that records and keys carry.
Incarnation(b) == {d \in 0 .. b - 1 : Writes(d, "destroyed")}
Writer(b, key) ==
    CASE key.kind = "account" -> Writes(b, "account") \/ Writes(b, "destroyed")
      [] key.kind = "storage" -> Writes(b, "slot") /\ Incarnation(b) = key.incarnation
      [] key.kind = "code" -> Writes(b, "code") /\ b = key.hash

HasKey(run, key) == \E b \in run.start .. run.end : Writer(b, key)
At(run, key, block) ==
    LET versions == {b \in run.start .. run.end : b <= block /\ Writer(b, key)}
    IN  IF versions = {} THEN None ELSE Max(versions)

\* The lookups of a method, and the budget each is charged to: the native
\* eth_getCode reads the account under a budget of its own before code_at does.
Plan(kind, method) ==
    LET step(key, budget) == [key |-> key, budget |-> budget] IN
    CASE method = "account" -> <<step("account", 1)>>
      [] method = "storage" -> <<step("account", 1), step("storage", 1)>>
      [] method = "code" /\ kind = "edge" -> <<step("account", 1), step("code", 1)>>
      [] method = "code" /\ kind = "native" ->
            <<step("account", 1), step("account", 2), step("code", 2)>>

NewCall(call) ==
    [method |-> call.method, selector |-> call.selector, block |-> None, step |-> 1, pos |-> 0,
     pc |-> "queued", spent |-> 0, walk |-> 0, shards |-> {}, account |-> None,
     false_positive |-> FALSE, value |-> None]

\* A lookup visits runs from the newest on, except those that start after block:
\* the position it comes to before pos, or zero.
Below(runs, pos, block) == Max({0} \cup {p \in 1 .. pos - 1 : runs[p].start <= block})
First(runs, block) == Below(runs, Len(runs) + 1, block)

\* Variant: the selector is resolved against the head in use by then.
resolve_selector_InUse(selector) ==
    IF selector = Latest THEN HeadOf(Newest(readers)).number ELSE selector

resolve_selector(selector) ==
    IF selector = Latest THEN HeadOf(Pinned).number ELSE selector

\* A call is over: only its outcome matters from here on.
Ends(call, outcome) ==
    [call EXCEPT !.pc = outcome, !.step = 1, !.pos = 0, !.spent = 0, !.walk = 0, !.shards = {},
                 !.account = None]

Exists(account) == account # None /\ ~Writes(account, "destroyed")

\* The codes the account was given since it was last created.
Codes(account) ==
    {b \in 0 .. account : Writes(b, "code") /\ Incarnation(b) = Incarnation(account)}
HasCode(account) == Codes(account) # {}

\* The key of the lookup in hand: a slot's has the account's incarnation, a code's
\* has the hash that the account's record holds.
KeyOf(server_kind, call) ==
    LET kind == Plan(server_kind, call.method)[call.step].key
    IN  CASE kind = "account" -> [kind |-> kind]
          [] kind = "storage" -> [kind |-> kind, incarnation |-> Incarnation(call.account)]
          [] kind = "code" -> [kind |-> kind, hash |-> Max(Codes(call.account))]

\* The lookup in hand returned value: the next one of the plan, or the answer.
Returned(call, value) ==
    LET plan == Plan(request.kind, call.method)
        last == call.step = Len(plan)
        known == plan[call.step].key = "account" /\ (last \/ plan[call.step + 1].key # "account")
        stops == known /\ (~Exists(value) \/ (call.method = "code" /\ ~HasCode(value)))
        fresh == ~last /\ plan[call.step + 1].budget # plan[call.step].budget
    IN  CASE stops -> Ends(call, "ok")
          [] last /\ ~stops ->
                IF call.method = "code" /\ value = None THEN Ends(call, "no_blob")
                ELSE [Ends(call, "ok") EXCEPT !.value = value]
          [] OTHER -> [call EXCEPT !.step = @ + 1, !.pos = First(HeadOf(Pinned).runs, call.block), !.pc = "probe",
                                   !.account = value,
                                   !.spent = IF fresh THEN 0 ELSE @]

NextRun(call) ==
    LET next == Below(HeadOf(Pinned).runs, call.pos, call.block) IN
    IF next # 0 THEN [call EXCEPT !.pos = next, !.pc = "probe"] ELSE Returned(call, None)

\* Variant: a GET is charged where it is asked for and where it is made.
Charged_Twice(call, cost) == [call EXCEPT !.spent = @ + 2 * cost]

Charged(call, cost) == [call EXCEPT !.spent = @ + cost]
Exceeds(call, cost) == call.spent + cost > MAX_REQUEST

-----------------------------------------------------------------------------
(* The steps of a call *)

CallOf(i) == request.calls[i]
RunOf(i) == HeadOf(Pinned).runs[CallOf(i).pos]
Stopped == {"ok", "unavailable", "limit", "missing", "no_blob"}
SetCall(i, call) == request' = [request EXCEPT !.calls[i] = call]

\* Calls of a batch whose answers the response already holds.
Yielded ==
    Max({0} \cup {n \in DOMAIN request.calls : \A i \in 1 .. n : CallOf(i).pc \in Stopped})

\* The next call of a batch starts: its block is resolved against the pinned head.
StartCall(i) ==
    LET block == resolve_selector(CallOf(i).selector) IN
    /\ CallOf(i).pc = "queued"
    /\ \A j \in 1 .. i - 1 : CallOf(j).pc # "queued"
    /\ i <= Yielded + BATCH_CONCURRENCY
    /\ SetCall(i, IF block > HeadOf(Pinned).number
                  THEN [CallOf(i) EXCEPT !.block = block, !.pc = "unavailable"]
                  ELSE [CallOf(i) EXCEPT !.block = block, !.pc = "probe", !.pos = First(HeadOf(Pinned).runs, block)])
    /\ UNCHANGED <<history, heads, deleted, readers, server>>

\* Variant: an object that is gone is taken not to hold the key.
Refused_Lenient(call, why) == IF why = "missing" THEN NextRun(call) ELSE Ends(call, why)

\* A GET was not issued or found nothing: the call fails.
Refused(call, why) == Ends(call, why)

\* What a GET of an object comes to, before its contents are known.
Fetched(call, run, cost) ==
    IF Exceeds(call, cost) THEN "limit" ELSE IF Stored(run) THEN "fetched" ELSE "missing"

\* What a shard can say of a key: never that a key of the run is absent.  Only
\* storage keys share a group that may be heavy, so that its keys are spilled.
Answers(run, key, shard) ==
    IF ~HasKey(run, key) THEN {"yes", "no"} \cup (IF shard = "address" THEN {"marker"} ELSE {})
    ELSE {"yes"} \cup (IF key.kind = "storage" /\ shard = "address" THEN {"marker"} ELSE {})

\* What the index of a shard is a hash of: the address, for an account and its
\* slots, or a code's hash; for a spill shard the whole key.  A call has one key
\* of each kind, so that the kind stands for it.
Route(key, shard) ==
    IF shard = "address" /\ key.kind = "storage" THEN "account" ELSE key.kind

\* The edge worker keeps the shards of a request, by run, kind and index.
Remembered(shards, run, shard, key) ==
    IF request.kind = "edge" THEN shards \cup {<<run, shard, Route(key, shard)>>} ELSE shards

\* It has the shard of a key if it fetched it for the same route, and may have it
\* if it did for another: two routes may come to one index.
Held(shards, run, shard, key, cached) ==
    /\ <<run, shard, Route(key, shard)>> \in shards => cached
    /\ cached => \E s \in shards : s[1] = run /\ s[2] = shard

\* may_contain, one shard at a time, cached or fetched.  At most one answer of a
\* call is a false positive (a bound).
MayContain(i, answer, cached) ==
    LET run == RunOf(i) key == KeyOf(request.kind, CallOf(i))
        shard == IF CallOf(i).pc = "probe" THEN "address" ELSE "spill"
        false_positive == \/ answer = "yes" /\ ~HasKey(run, key)
                          \/ answer = "marker" /\ key.kind # "storage"
        got == IF cached THEN "fetched" ELSE Fetched(CallOf(i), run, ShardCost)
        paid == IF cached THEN CallOf(i) ELSE Charged(CallOf(i), ShardCost)
        call == [paid EXCEPT !.false_positive = @ \/ false_positive,
                             !.shards = Remembered(@, run, shard, key)]
    IN
    /\ CallOf(i).pc \in {"probe", "spill"}
    /\ answer \in Answers(run, key, shard)
    /\ ~(false_positive /\ CallOf(i).false_positive)
    /\ request.kind = "edge" => Held(CallOf(i).shards, run, shard, key, cached)
    /\ SetCall(i, IF got # "fetched" THEN Refused(CallOf(i), got)
                  ELSE CASE answer = "marker" -> [call EXCEPT !.pc = "spill"]
                         [] answer = "yes" -> [call EXCEPT !.pc = "tree"]
                         [] answer = "no" -> NextRun(call))
    /\ UNCHANGED <<history, heads, deleted, readers, server>>

\* One GET of RunReader::lookup; a walk is WalkGets of them: fences, then a page.
TreeGet(i) ==
    LET run == RunOf(i)
        got == Fetched(CallOf(i), run, TreeCost)
        call == [Charged(CallOf(i), TreeCost) EXCEPT !.walk = (@ + 1) % WalkGets]
        value == At(run, KeyOf(request.kind, CallOf(i)), call.block)
    IN
    /\ CallOf(i).pc = "tree"
    /\ SetCall(i, CASE got # "fetched" -> Refused(CallOf(i), got)
                    [] got = "fetched" /\ call.walk # 0 -> call
                    [] OTHER -> IF value = None THEN NextRun(call) ELSE Returned(call, value))
    /\ UNCHANGED <<history, heads, deleted, readers, server>>

CallStep ==
    \E i \in DOMAIN request.calls :
        \/ StartCall(i)
        \/ \E answer \in {"yes", "no", "marker"}, cached \in BOOLEAN : MayContain(i, answer, cached)
        \/ TreeGet(i)

-----------------------------------------------------------------------------
(* The native server *)

Idle == [kind |-> "idle", calls |-> << >>]

\* rpc_handler: one snapshot for the whole batch.
HandleBatch(batch) ==
    /\ server.kind = "native" /\ request = Idle
    /\ request' = [kind |-> "native", calls |-> [i \in DOMAIN batch |-> NewCall(batch[i])]]
    /\ UNCHANGED <<history, heads, deleted, readers, server>>

\* The answers are sent and the snapshot is dropped.
Respond ==
    /\ request.kind \in {"native", "edge"} /\ Yielded = Len(request.calls)
    /\ request' = Idle
    /\ server' = [server EXCEPT !.shown = Max({@, HeadOf(Pinned).number})]
    /\ readers' = IF request.kind = "edge" THEN << >> ELSE <<Newest(readers)>>
    /\ UNCHANGED <<history, heads, deleted>>

\* The refresh task reads the head.  A fault hands it an earlier one.  Without an
\* interval there is no such task.
RefreshOpen(h) ==
    /\ server.kind = "native" /\ server.source = "refreshing" /\ server.opened = 0
    /\ h < Len(heads) => server.faults < MaxFaults
    /\ server' = [server EXCEPT !.opened = h, !.faults = IF h < Len(heads) THEN @ + 1 ELSE @]
    /\ UNCHANGED <<history, heads, deleted, readers, request>>

\* The opened head replaces the reader in use; a running request keeps its own.
Adopt ==
    readers' = (IF request = Idle THEN << >> ELSE <<Pinned>>) \o <<server.opened>>
InUse == HeadOf(Newest(readers))

\* Variants: no guard against an earlier block, or only newer blocks are taken.
Keeps_Same == server.opened = Newest(readers)
Keeps_OldBlocks == heads[server.opened].number <= InUse.number

\* An earlier block is refused, and so is the head in use.
Keeps ==
    \/ heads[server.opened].number < InUse.number
    \/ server.opened = Newest(readers)

RefreshAdopt ==
    /\ server.opened # 0
    /\ IF Keeps THEN UNCHANGED readers ELSE Adopt
    /\ server' = [server EXCEPT !.opened = 0]
    /\ UNCHANGED <<history, heads, deleted, request>>

-----------------------------------------------------------------------------
(* The edge worker *)

\* A reader and a budget per request; reading the head is charged.
Load(call) == readers' = <<Len(heads)>> /\ request' = [kind |-> "edge", calls |-> <<Charged(call, HeadCost)>>]

HandleEdge(call) ==
    /\ server.kind = "edge" /\ request = Idle
    /\ Load(NewCall(call))
    /\ UNCHANGED <<history, heads, deleted, server>>

\* serve_object: metadata first, then the body.
HandleObject(asked, run, size) ==
    /\ server.kind = "edge" /\ request = Idle
    /\ request' = [kind |-> "object", asked |-> asked, run |-> run, size |-> size,
                   pc |-> "head", response |-> NoResponse]
    /\ UNCHANGED <<history, heads, deleted, readers, server>>

BucketStep ==
    LET stored == Stored(request.run)
        response == IF request.pc = "head" THEN AfterHead(request.asked, stored, request.size)
                    ELSE AfterGet(request.asked, stored, request.size)
    IN
    /\ request.kind = "object" /\ request.pc \in {"head", "get"}
    /\ request' = [request EXCEPT !.response = response,
                                  !.pc = IF response = NoResponse THEN "get" ELSE "done"]
    /\ UNCHANGED <<history, heads, deleted, readers, server>>

RespondObject ==
    /\ request.kind = "object" /\ request.pc = "done"
    /\ request' = Idle
    /\ UNCHANGED <<history, heads, deleted, readers, server>>

-----------------------------------------------------------------------------

EverNamed == UNION {Range(heads[h].runs) : h \in DOMAIN heads}

Init ==
    /\ history \in Histories
    /\ heads = <<[number |-> FirstHead, runs |-> [i \in 1 .. FirstHead + 1 |-> Run(i - 1, i - 1)]]>>
    /\ deleted = {}
    /\ request = Idle
    /\ \E kind \in {"native", "edge"}, source \in {"static", "refreshing", "loaded"} :
         /\ source = "loaded" <=> kind = "edge"
         /\ server = [kind |-> kind, source |-> source, opened |-> 0, faults |-> 0,
                      shown |-> FirstHead]
         /\ readers = IF kind = "native" THEN <<1>> ELSE << >>

Archive ==
    \/ Publish
    \/ \E first, last \in 1 .. MaxBlock + 1 : Compact(first, last)
    \/ \E run \in EverNamed : Collect(run)

Next ==
    \/ Archive
    \/ \E h \in DOMAIN heads : RefreshOpen(h)
    \/ RefreshAdopt
    \/ \E batch \in Batches : HandleBatch(batch)
    \/ \E call \in Calls : HandleEdge(call)
    \/ \E asked \in ObjectRequests, run \in EverNamed, size \in Sizes : HandleObject(asked, run, size)
    \/ request.kind \in {"native", "edge"} /\ CallStep
    \/ Respond
    \/ BucketStep
    \/ RespondObject

Spec == Init /\ [][Next]_vars

\* The refresh task runs on its timer, and the store answers it.  Nothing is
\* asked of the archive, of clients or of the requests.
FairSpec ==
    /\ Spec
    /\ WF_vars(RefreshOpen(Len(heads)))
    /\ WF_vars(RefreshAdopt)

-----------------------------------------------------------------------------

StateRequest == request.kind \in {"native", "edge"}

\* What the chain itself says, with no run, key or incarnation: the last write of
\* the account, of its slot or of its code, since the account was last destroyed.
Last(what, block) == Max({-1} \cup {b \in 0 .. block : Writes(b, what)})
Since(what, block) ==
    IF Last(what, block) > Last("destroyed", block) THEN Last(what, block) ELSE None
Truth(method, block) ==
    CASE Since("account", block) = None -> None
      [] OTHER -> CASE method = "account" -> Since("account", block)
                    [] method = "storage" -> Since("slot", block)
                    [] method = "code" -> Since("code", block)

\* An answer is the value the chain had at the block asked for: a head replaced
\* or runs deleted in the middle of a request can make it fail, never lie.
AnswersExact ==
    StateRequest => \A i \in DOMAIN request.calls :
        /\ CallOf(i).pc = "ok" => CallOf(i).value = Truth(CallOf(i).method, CallOf(i).block)
        /\ CallOf(i).pc # "no_blob"

\* All calls of a batch that ask for the latest block mean the same block, though
\* the server may adopt other heads while the batch runs.
BatchOneBlock ==
    StateRequest => \A i, j \in DOMAIN request.calls :
        /\ CallOf(i).selector = Latest /\ CallOf(j).selector = Latest
        /\ CallOf(i).block # None /\ CallOf(j).block # None
        => CallOf(i).block = CallOf(j).block

\* A client that was answered from one block is never later answered from an
\* earlier one, even if the store hands the refresh task an earlier head.
MonotonicReads == StateRequest => HeadOf(Pinned).number >= server.shown

\* A read that meets no false positive of a summary stays within its budget,
\* however the head's runs, the spilled keys and the evictions fall.
CleanReadFits ==
    StateRequest => \A i \in DOMAIN request.calls :
        CallOf(i).pc = "limit" => CallOf(i).false_positive

\* A gateway response has exactly the bytes of the object that its request named,
\* and only what stays true of an immutable object may be cached.
GatewayExact ==
    request.kind = "object" /\ request.pc = "done" =>
        Exact(request.asked, Stored(request.run), request.size, request.response)

\* A server with a refresh interval whose head lost its objects to a collector
\* serves stored objects again.  One without (the default) never does: it keeps
\* its first head until it is started again.
RecoversFromCollection ==
    LET lost == server.source = "refreshing" /\ \E run \in Range(InUse.runs) : ~Stored(run)
    IN  lost ~> ~lost
===============================================================================
