---------------------------- MODULE MergePipeline -----------------------------
(***************************************************************************)
(* merge_runs (src/compact.rs): a producer merges the scanned runs into a   *)
(* bounded channel of records, a blocking builder turns them into objects   *)
(* on a second bounded channel, an uploader stores those concurrently, and  *)
(* the three are joined.  Any read, put or send may fail, and the builder   *)
(* may refuse a record or an object.  The pages of an input run are fetched *)
(* READ_AHEAD at a time.                                                    *)
(*                                                                         *)
(* Records are numbers, in (key, block) order; what RunCodec does between   *)
(* records and objects is a page for every PAGE records and a root at the   *)
(* end that names them all.  A run has one partition.                       *)
(***************************************************************************)
EXTENDS Integers, Sequences, FiniteSets, Functions

CONSTANTS
    InputSets,   \* what is merged: sequences of sorted runs
    IN_FLIGHT,   \* capacity of each channel, and concurrent puts (32)
    PAGE,        \* records of a page
    READ_AHEAD   \* pages of a run fetched at once (8)

ASSUME PipelineAssumption ==
    /\ \A input \in InputSets :
         /\ input \in Seq(Seq(Nat))
         /\ \A i \in 1 .. Len(input) : \A j, k \in 1 .. Len(input[i]) :
              j < k => input[i][j] < input[i][k]
    /\ IN_FLIGHT \in Nat \ {0} /\ PAGE \in Nat \ {0} /\ READ_AHEAD \in Nat \ {0}

VARIABLES
    runs,      \* the input runs
    taken,     \* records taken from each run
    loaded,    \* pages each run's scanner has got
    ready,     \* per run, pages fetched and not yet read by its scanner
    fetched,   \* per run and page, how often it was fetched
    producer,  \* running, ok or err
    records,   \* channel from producer to builder
    builder,   \* its state, the records it got, the objects it has yet to send
    objects,   \* channel from builder to uploader
    uploader,  \* its state and the puts in flight
    stored,    \* objects in the store
    result     \* of merge_runs: none, ok or err

vars == <<runs, taken, loaded, ready, fetched, producer, records, builder, objects, uploader, stored, result>>

Page(got) == [kind |-> "page", content |-> got]
Root(got) == [kind |-> "root", content |-> got]

PagesOf(i) == (Len(runs[i]) + PAGE - 1) \div PAGE

Init ==
    /\ runs \in InputSets
    /\ taken = [i \in 1 .. Len(runs) |-> 0]
    /\ loaded = taken
    /\ ready = [i \in 1 .. Len(runs) |-> {}]
    /\ fetched = [i \in 1 .. Len(runs) |-> [p \in 1 .. PagesOf(i) |-> 0]]
    /\ producer = "running"
    /\ records = << >>
    /\ builder = [state |-> "running", got |-> << >>, page |-> << >>, out |-> << >>]
    /\ objects = << >>
    /\ uploader = [state |-> "running", puts |-> {}]
    /\ stored = {}
    /\ result = "none"

-----------------------------------------------------------------------------
(* Producer *)

Heads == {i \in 1 .. Len(runs) : taken[i] < Len(runs[i])}
Peek(i) == runs[i][taken[i] + 1]

\* The scan over the heads compares an equal record with the least one so far.
Duplicate ==
    \E i, j \in Heads :
        i < j /\ Peek(i) = Peek(j) /\ \A k \in Heads : k < j => Peek(i) <= Peek(k)

\* Variant: the first run that has a record, not the least record.
chosen_First == CHOOSE i \in Heads : \A k \in Heads : i <= k

chosen == CHOOSE i \in Heads : \A k \in Heads : Peek(i) <= Peek(k)

Waits(i) == i \in Heads /\ taken[i] = loaded[i] * PAGE

\* Variant: a page that was fetched ahead is not looked for.
ReadAheadGet_Misses(i) ==
    LET p == loaded[i] + 1
        batch == {q \in p .. PagesOf(i) : q < p + READ_AHEAD}
    IN
    /\ producer = "running" /\ Waits(i)
    /\ loaded' = [loaded EXCEPT ![i] = p]
    /\ ready' = [ready EXCEPT ![i] = (@ \cup batch) \ {p}]
    /\ fetched' = [fetched EXCEPT ![i] =
           [q \in 1 .. PagesOf(i) |-> IF q \in batch THEN @[q] + 1 ELSE @[q]]]
    /\ UNCHANGED <<runs, taken, producer, records, builder, objects, uploader, stored, result>>

\* ReadAhead::get for the next page of run i: from `ready`, or with those after it.
ReadAheadGet(i) ==
    LET p == loaded[i] + 1
        batch == IF p \in ready[i] THEN {}
                 ELSE {q \in p .. PagesOf(i) : q < p + READ_AHEAD}
    IN
    /\ producer = "running" /\ Waits(i)
    /\ loaded' = [loaded EXCEPT ![i] = p]
    /\ ready' = [ready EXCEPT ![i] = (@ \cup batch) \ {p}]
    /\ fetched' = [fetched EXCEPT ![i] =
           [q \in 1 .. PagesOf(i) |-> IF q \in batch THEN @[q] + 1 ELSE @[q]]]
    /\ UNCHANGED <<runs, taken, producer, records, builder, objects, uploader, stored, result>>

\* Take the least record and send it, when the channel has room.
ProduceRecord ==
    /\ producer = "running" /\ Heads # {} /\ ~Duplicate
    /\ \A i \in Heads : ~Waits(i)
    /\ builder.state # "err" /\ Len(records) < IN_FLIGHT
    /\ records' = Append(records, Peek(chosen))
    /\ taken' = [taken EXCEPT ![chosen] = @ + 1]
    /\ UNCHANGED <<runs, loaded, ready, fetched, producer, builder, objects, uploader, stored, result>>

\* A page cannot be read, two runs hold the same version, or the builder is gone.
ProduceFails ==
    /\ producer = "running" /\ Heads # {}
    /\ producer' = "err"
    /\ UNCHANGED <<runs, taken, loaded, ready, fetched, records, builder, objects, uploader, stored, result>>

ProduceEnds ==
    /\ producer = "running" /\ Heads = {}
    /\ producer' = "ok"
    /\ UNCHANGED <<runs, taken, loaded, ready, fetched, records, builder, objects, uploader, stored, result>>

-----------------------------------------------------------------------------
(* Builder *)

\* Receive a record; a full page is closed before it.
BuildRecord ==
    LET full == Len(builder.page) = PAGE IN
    /\ builder.state = "running" /\ builder.out = << >> /\ records # << >>
    /\ records' = Tail(records)
    /\ builder' = [builder EXCEPT
           !.got = Append(@, records[1]),
           !.page = IF full THEN <<records[1]>> ELSE Append(@, records[1]),
           !.out = IF full THEN <<Page(builder.page)>> ELSE << >>]
    /\ UNCHANGED <<runs, taken, loaded, ready, fetched, producer, objects, uploader, stored, result>>

\* The producer is gone and the channel is drained: the last page, then the root,
\* whether the producer got through its runs or not.
BuildClose ==
    /\ builder.state = "running" /\ builder.out = << >>
    /\ records = << >> /\ producer # "running"
    /\ builder' = [builder EXCEPT
           !.state = "closing",
           !.out = (IF builder.page = << >> THEN << >> ELSE <<Page(builder.page)>>)
                   \o <<Root(builder.got)>>]
    /\ UNCHANGED <<runs, taken, loaded, ready, fetched, producer, records, objects, uploader, stored, result>>

BuildSend ==
    /\ builder.state \in {"running", "closing"} /\ builder.out # << >>
    /\ uploader.state # "err" /\ Len(objects) < IN_FLIGHT
    /\ objects' = Append(objects, builder.out[1])
    /\ builder' = [builder EXCEPT !.out = Tail(@)]
    /\ UNCHANGED <<runs, taken, loaded, ready, fetched, producer, records, uploader, stored, result>>

\* Variant: a blocked send does not notice that the uploader is gone.
BuildSendFails_Blocked ==
    /\ builder.state \in {"running", "closing"} /\ builder.out # << >>
    /\ uploader.state = "err" /\ Len(objects) < IN_FLIGHT
    /\ builder' = [builder EXCEPT !.state = "err", !.out = << >>]
    /\ records' = << >>
    /\ UNCHANGED <<runs, taken, loaded, ready, fetched, producer, objects, uploader, stored, result>>

\* The uploader is gone: the builder stops, and its receiver with it.
BuildSendFails ==
    /\ builder.state \in {"running", "closing"} /\ builder.out # << >>
    /\ uploader.state = "err"
    /\ builder' = [builder EXCEPT !.state = "err", !.out = << >>]
    /\ records' = << >>
    /\ UNCHANGED <<runs, taken, loaded, ready, fetched, producer, objects, uploader, stored, result>>

\* RunBuilder bails: on a record it receives, on an object it makes, or on the
\* fence of a page that it has sent already.  Its receiver goes with it.
BuildFails(sent) ==
    /\ builder.state \in {"running", "closing"}
    /\ \/ ~sent /\ builder.state = "running" /\ builder.out = << >> /\ records # << >>
       \/ ~sent /\ builder.out # << >>
       \/ /\ sent /\ builder.out # << >> /\ builder.out[1].kind = "page"
          /\ uploader.state # "err" /\ Len(objects) < IN_FLIGHT
    /\ objects' = IF sent THEN Append(objects, builder.out[1]) ELSE objects
    /\ builder' = [builder EXCEPT !.state = "err", !.out = << >>]
    /\ records' = << >>
    /\ UNCHANGED <<runs, taken, loaded, ready, fetched, producer, uploader, stored, result>>

BuildEnds ==
    /\ builder.state = "closing" /\ builder.out = << >>
    /\ builder' = [builder EXCEPT !.state = "ok"]
    /\ UNCHANGED <<runs, taken, loaded, ready, fetched, producer, records, objects, uploader, stored, result>>

-----------------------------------------------------------------------------
(* Uploader *)

UploadStart ==
    /\ uploader.state = "running" /\ objects # << >>
    /\ Cardinality(uploader.puts) < IN_FLIGHT
    /\ objects' = Tail(objects)
    /\ uploader' = [uploader EXCEPT !.puts = @ \cup {objects[1]}]
    /\ UNCHANGED <<runs, taken, loaded, ready, fetched, producer, records, builder, stored, result>>

UploadStored(o) ==
    /\ uploader.state = "running"
    /\ stored' = stored \cup {o}
    /\ uploader' = [uploader EXCEPT !.puts = @ \ {o}]
    /\ UNCHANGED <<runs, taken, loaded, ready, fetched, producer, records, builder, objects, result>>

\* A put fails; the others are dropped, each stored by then or not.
UploadFails(landed) ==
    /\ uploader.state = "running" /\ uploader.puts # {}
    /\ stored' = stored \cup landed
    /\ uploader' = [state |-> "err", puts |-> {}]
    /\ UNCHANGED <<runs, taken, loaded, ready, fetched, producer, records, builder, objects, result>>

UploadEnds ==
    /\ uploader.state = "running" /\ uploader.puts = {}
    /\ objects = << >> /\ builder.state \in {"ok", "err"}
    /\ uploader' = [uploader EXCEPT !.state = "ok"]
    /\ UNCHANGED <<runs, taken, loaded, ready, fetched, producer, records, builder, objects, stored, result>>

-----------------------------------------------------------------------------

Joined == producer # "running" /\ builder.state \in {"ok", "err"} /\ uploader.state # "running"

\* Variant: the producer's error is not looked at.
Succeeds_NoProducer == builder.state = "ok" /\ uploader.state = "ok"

Succeeds == producer = "ok" /\ builder.state = "ok" /\ uploader.state = "ok"

\* tokio::join!, the three results, and the summary's shards.
Join(summary_stored) ==
    /\ result = "none" /\ Joined
    /\ result' = IF Succeeds /\ summary_stored THEN "ok" ELSE "err"
    /\ UNCHANGED <<runs, taken, loaded, ready, fetched, producer, records, builder, objects, uploader, stored>>

Next ==
    \/ \E i \in Heads : ReadAheadGet(i)
    \/ ProduceRecord \/ ProduceFails \/ ProduceEnds
    \/ BuildRecord \/ BuildClose \/ BuildSend \/ BuildSendFails \/ BuildEnds
    \/ \E sent \in BOOLEAN : BuildFails(sent)
    \/ UploadStart \/ UploadEnds
    \/ \E o \in uploader.puts : UploadStored(o)
    \/ \E landed \in SUBSET uploader.puts : UploadFails(landed)
    \/ \E summary_stored \in BOOLEAN : Join(summary_stored)

Spec == Init /\ [][Next]_vars

\* The runtime polls every task that can go on, a fetch or put ends, and a
\* producer whose builder is gone finds out at its next send.
FairSpec ==
    /\ Spec
    /\ WF_vars((\E i \in Heads : ReadAheadGet(i)) \/ ProduceRecord \/ ProduceEnds)
    /\ WF_vars(ProduceFails /\ (builder.state = "err" \/ Duplicate))
    /\ WF_vars(BuildRecord \/ BuildClose \/ BuildSend \/ BuildSendFails \/ BuildEnds)
    /\ WF_vars(UploadStart \/ UploadEnds)
    /\ WF_vars(\E o \in uploader.puts : UploadStored(o))
    /\ WF_vars(\E summary_stored \in BOOLEAN : Join(summary_stored))

-----------------------------------------------------------------------------

AllRecords == UNION {Range(runs[i]) : i \in 1 .. Len(runs)}

\* A merge that succeeds has stored a root of every input record and
\* all the pages it names: a root cut short by a failed read is never returned.
OkComplete ==
    result = "ok" =>
        /\ Range(builder.got) = AllRecords
        /\ Root(builder.got) \in stored
        /\ UNION {Range(o.content) : o \in {x \in stored : x.kind = "page"}} = AllRecords

\* The builder sees the records in strictly rising order, as it demands.
BuilderOrdered ==
    \A j \in 1 .. (Len(builder.got) - 1) : builder.got[j] < builder.got[j + 1]

\* A page is fetched once: those that were read by their scanner and those that
\* wait for it were, no other, and less than READ_AHEAD pages of a run wait.
PagesFetchedOnce ==
    \A i \in 1 .. Len(runs) :
        /\ \A p \in 1 .. PagesOf(i) :
             fetched[i][p] = IF p <= loaded[i] \/ p \in ready[i] THEN 1 ELSE 0
        /\ Cardinality(ready[i]) < READ_AHEAD

\* The three tasks never wait for each other for good, whichever of them fails
\* and whatever waits in the channels then: a producer whose channel is full when
\* the builder bails, a builder whose channel is full when a put fails.
MergeReturns == <>(result # "none")
===============================================================================
