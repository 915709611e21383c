# Fossil in TLA+

Fossil archives the state history of a chain in an object store. This directory
specifies how it does so, checks the specifications with TLC on small instances, and
proves its writers, its merges, its collector, its file store, its exporter and its
servers for every size with TLAPS.

## The system

| Part | Source | Module | State of the model |
|---|---|---|---|
| head, publication, compaction | `src/tiered.rs`, `codec/src/head.rs` | `TieredHead`, `TieredArchive`, `CascadeLoop` | modelled, proved |
| what the archive promises | (the same code, abstractly) | `PublishedHistory` | implemented by `TieredArchive`, proved |
| garbage collection | `src/tiered.rs`, `src/store.rs` | `GarbageCollection` | modelled, proved |
| file-system store | `src/store.rs` | `FsStore` | modelled, proved |
| run format | `codec/src/run.rs` | `RunCodec` | modelled |
| run summaries | `codec/src/summary.rs`, `src/compact.rs` | `RunSummary` | modelled |
| merge pipeline | `src/compact.rs` | `MergePipeline` | modelled, safety proved |
| anchor, exporter, probe | `src/bootstrap.rs`, `tools/base-export/` | `StateExport` | what they say of the state; proved |
| package parser | `src/normalized.rs`, `src/format.rs` | `PackageInput` | modelled without decoding |
| state readers, budgets, JSON-RPC server | `src/tiered.rs`, `src/rpc.rs`, `worker/src/core.rs` | `Serving` | modelled without JSON and HTTP, safety proved |
| edge worker | `worker/src/lib.rs` | `Serving`, `ObjectGateway` | requests and objects, not routing; safety proved |
| memory and S3 adapters | `src/store.rs` | | not modelled on their own, see below |
| command line | `src/main.rs` | | not modelled: argument handling |
| hashes | `codec/src/hash.rs` | | not modelled: digests are injective |

An exporter turns executed blocks into packages, files of records that a parser checks. `publish` writes a package as an
immutable sorted run (pages, fences, root, summary shards) and then replaces the
chain's one mutable object, the head, by compare-and-swap. `compact_once` merges the
oldest L0 runs, cascading through full levels, and replaces the head in the same way.
A collector deletes old objects no head reaches. A reader pins a head, skips runs by
interval and summary, and looks the newest version of a key up in the remaining ones.
The modules follow these seams, and each takes from its neighbours what they establish:
`TieredArchive` takes a run to be its set of packages, `GarbageCollection` a head to be
a set of objects, `MergePipeline` a builder to be a maker of pages and a root, and
`StateExport` a lookup to find the newest version at or before a block, which is what
`RunCodec` (within a run) and `RunsPartitionHistory` (across runs) say. `Serving` puts
publication, compaction, collection and readers side by side; it takes from
`RunSummary` that a summary never denies a key, and from the collector only that it
deletes nothing the current head needs.

## The modules

**TieredHead.** `Head`, `Run` and the pure parts of `publish` and `compact_once`:
`Decode` is `Head::decode`; `is_published`, `Extends`, `BacklogFull` and `Published`
are `publish`; `StopsAt`, `Taken`, `InputsContiguous`, `MergedRun`, `Compatible` and
`Compacted` are `compact_once`. The cascade is in closed form; `CascadeLoop` has the
loop as it is written and `CascadeIsLoop` compares them. A run carries the set of
packages whose records it holds, instead of the records.

**TieredArchive.** Any number of publishers and compactors on one head. One action is
one access to shared state: a publisher reads (`PublishBegin`), uploads, swaps, and
after a refused or unanswered swap reads again and confirms, rebases or fails; a
compactor plans, merges, reads, and swaps or abandons. A swap whose answer is lost
stays in `inflight` and may land at any later time the head equals what it expects.
Either process may die at any step. The `parent` field and the staged copy of the
replaced head play no part here; they are in `GarbageCollection`. An error from `swap`
before the request is sent (staging, size) is a swap that never lands. The bound on
the size of an encoded head is not modelled: at most 16 L0 runs and 8 levels stay far
below it.

**PublishedHistory.** A set of packages that grows at its tip, and acknowledgements of
published packages. `ImplementsHistory` maps the contents of the head's runs to
`published`; compactions, retries and lost answers become stutters.

**GarbageCollection.** Time is a counter and every stored object has a stamp.
`put_immutable` re-stamps a reused object only if it is older than `REFRESH_AFTER`.
A writer that compacts is bound by `MERGE_DEADLINE` until it commits; what follows the
deadline check takes at most `CommitTime`, and a publication at most `PublishTime`
(the code has no deadline there, so this is an assumption on the environment). A
collector walks the head, lists, walks the head again, and then for each doomed object
checks its age and deletes it in two steps. All clocks agree. A dry run changes
nothing and is left out.

**FsStore.** System calls of the file store: creating and syncing directories,
flushing a temporary file, linking it, the lock, compare, rename and directory sync of
the head. An unsynced entry may or may not survive a power failure. The directories
are the innermost ones, below `objects/sha256/`: a put syncs them and what is above
them, while the sync of the root before the lock reaches none of them.

**RunCodec.** `build` with its page, leaf and root cuts; `lookup`, `walk` and
`RunScanner` on what was built. A page or index is bounded by the sum of the sizes of
its entries. Errors of the builder and of its sink are in `MergePipeline`. A scan reads
what was built, so the scanner's own checks that an index agrees with its pages, which
can only end a scan early, are left out.

**RunSummary.** Sizing, heavy groups, spilling, shard paths, and the probe. A Bloom
filter is the set of its items; false positives are arbitrary.

**MergePipeline.** Producer, builder and uploader of `merge_runs` with both channels,
and `ReadAhead`, which fetches the next pages of a run together and keeps those not
asked for yet. Any fetch, put or send may fail at any time, and the builder may refuse a
record or an object (`BuildFails`), also when it has just sent a page. A page is named by run and
position; only runs with equal records could share one, and the merge refuses those.

**StateExport.** A chain whose accounts are created, changed, destroyed and recreated,
also within a block; the probe's changes; conversion with the incarnation journal, one
block at a time (`convert`) inside the transaction that `Begin` opens and `Commit` ends;
publication; and account, storage and code reads of both readers. A package's digest
is the package. Kills may fall between any two steps, also between two blocks. Code
that changed in a block is taken to be among what the probe's execution hands it; the
probe would leave a blob out silently if it were not.

**PackageInput.** A package as a file: `Emit` prints one as the exporter and the
bootstrap do, faults lose, repeat, exchange or alter records, and each `Read` action is
one arm of the parser's loop with what it keeps between records; `Finish` has the
checks after the loop. `WellFormed` says what a package is by looking at the whole file
at once, which the parser never does. Decoding of JSON, hexadecimal and zstd is left
out.

**Serving.** One server, native or edge, and one HTTP request at a time, beside an
archive whose head is replaced and whose unreachable runs are deleted at any moment.
A batch keeps the reader it began with; `StartCall` is a call entering the bounded
buffer of a batch; `MayContain` and `TreeGet` are the single GETs of a lookup, each
charged first, each able to find its object gone. A native server keeps the head it
opened (`static`, the default) or has a refresh interval (`refreshing`); an edge worker
loads the head with each request. `RefreshOpen` and `RefreshAdopt` are the refresh task:
the store may hand it an earlier head. The native shard cache is shared by all requests
and so may hold or lack any shard; the edge worker's map lives with its request and goes
by run, kind and index: an account and its slots share the shard of their address, a code
has that of its hash, and two different routes may come to one index. The edge worker takes no batches. A head has at most `MAX_RUNS`
runs, which is `MAX_L0_BACKLOG` and one run per level. `Truth` is what a call should be
answered, said of the chain alone: it knows no runs, keys or incarnations. A history is
any in which a block has one record of the account and a new code comes with one.

**ObjectGateway.** What `serve_object` answers from the two requests it makes of the
bucket: ranges, validators, and an object deleted in between.

The memory store executes every operation under one lock, and S3-compatible stores
give a conditional put per head and create-only puts per object: this is the store
`TieredArchive` assumes.

## What the runs check

`tlc -config X.cfg MC...` runs one. Every property of a passing run has a variant of
some definition (`..._Late`, `..._Skipped`, named next to the definition) that breaks
it, so no property holds by the shape of the model alone.

| Run | Question | Properties |
|---|---|---|
| `TieredRaces` | Do two publishers with rival packages (another cut of the same blocks, another file for them, a fork, a stale gate) and a compactor keep one history, with two faults? | `HeadDecodes`, `HeadDurable`, `RunsPartitionHistory`, `ChainLinked`, `AckedArchived`, `HeadAdvances`, `ImplementsHistory` |
| `TieredProgress` | With two compactors that plan the same merges, does a cascade always find its target, is its closed form the loop, does `publish` return, is every uncontested package published? | `CompactionPossible`, `CascadeIsLoop`, `PublishReturns`, `EventuallyPublished` |
| `GcSafe` | Beside two writers racing for the head, does a collector keep all the head needs and the copies it promises, and remove the rest? | `HeadObjectsKept`, `HeadCopiesKept`, `PassComplete` |
| `FsPower` | What survives kills and power failures? | `HeadObjectsDurableOrTrusted`, `NoTornObject`, `AckedHeadSurvives`, `SwapsLinear` |
| `RunCodec` | Do lookup, walk and scan agree with the records, wherever pages and leaves are cut? | `LookupExact`, `DependencyOrder`, `WalkComplete`, `ScanExact` |
| `RunSummary` | Does a summary ever deny a key of its run? | `NoFalseNegative` |
| `MergePipeline` | Does a merge return, return only a complete run, and fetch every page once? | `OkComplete`, `BuilderOrdered`, `PagesFetchedOnce`, `MergeReturns` |
| `ExportResume` | Do both readers answer with the chain's state after any kills, and does a restart get through? | `StorageExact`, `CodeExact`, `JournalExact`, `RestartGetsThrough` |
| `PackageInput` | Does the parser accept exactly the packages, notice what a file lost, and accept only what can be published? | `AcceptsPackages`, `NothingLostUnnoticed`, `PublishableRecords` |
| `Serving` | While the head moves and replaced runs are deleted, are answers exact or errors, do batches see one block, do clients never go back in time, do budgets suffice, are object responses right, does a server that refreshes recover? | `AnswersExact`, `BatchOneBlock`, `MonotonicReads`, `CleanReadFits`, `GatewayExact`, `RecoversFromCollection` |

### Where the code falls short of what is said of it

Two runs end in a counterexample; each states what a comment says.

* `GcMargin`, `HeadObjectsKept`. `GC_MIN_AGE` (3 h) is exactly `REFRESH_AFTER` (1 h)
  plus `MERGE_DEADLINE` (2 h). A merge that reuses an object just under an hour old
  and commits shortly after its deadline check commits a head whose object a collector
  may delete. The instance has the code's proportions, in half hours.
* `RunSummarySizing`, `SizingDistinct`. A shard path has the shard count but not the
  shard length. Merging a merged run with runs that have no records gives the same
  root and count with another length: the put is refused, on every attempt.

Other limits show as exceptions in properties that hold, or as constants they need:

* A writer may re-stamp and reuse an object between a collector's age check and its
  delete (`torn` in `GarbageCollection`, the exception of `HeadObjectsKept`). A comment
  in `collect_garbage` admits it; `docs/storage-guide.md` calls the combination safe.
* A pass walks one chain's head and lists the whole store. With two `Chains`,
  `HeadObjectsKept` fails as soon as the second chain's objects are old enough.
* Age counts from an object's last write, not from the moment it became unreachable, so
  the inputs of a compaction may be deleted at once under a request that pinned them.
  `AnswersExact` shows that the request then fails and never answers from older runs,
  `RecoversFromCollection` that a native server with a refresh interval gets over it with
  its next refresh: it adopts a head with the same block and other runs. Without
  `--refresh-seconds`, the default, it fails such requests until it is started again.
* A put that finds its path linked by another writer returns before the directory is
  synced (`trusted` in `FsStore`, the exception of `HeadObjectsDurableOrTrusted`), so a
  head can become durable before one of its objects.
* A kill between publication and journal commit, and a restart with a larger `--last`,
  cut the next package at another block: `PublishRefused` in `StateExport`. It is
  refused until the earlier `--last` is passed again; `RestartGetsThrough` shows that
  the published package can then be made again from the journal.
* If the answer to a swap is lost, the swap lands, and another package is published on
  top before the first publisher reads the head again, `publish` returns an error for
  an archived package.
* A native `eth_getCode` opens two budgets and the native head read is charged to none,
  so that one call may use more than the cap `docs/storage-guide.md` gives per request.
* A code record has no block number. If two blobs were exchanged between two distant
  blocks with equal counts, the parser would accept the file with other
  `first_seen_block`s; the faults of `PackageInput` exchange neighbours only.
* `docs/limitations.md` still says that no garbage collection exists.

## Bounds

The code's constants (`L0_TRIGGER` 4, `FANOUT` 8, `MAX_LEVELS` 8, `MAX_L0_BACKLOG` 16,
`CAS_ATTEMPTS` 32) shrink to 2 or 3, which keeps every case apart: L0 shorter than,
equal to and longer than the trigger, a full and a partly full level, a merge of L0 alone
and one that takes runs of a level with it, the last attempt and the one before.
`TieredProgress` has two levels and starts from an archive its writers have brought to
ten packages (`GrownInit`): L0 has grown and been compacted five times. It grows to
eighteen, which takes in a merge that stops at the first level, one that cascades through
it into the second, and the refusal when both are full; that a due compaction is refused
only then is proved for every depth. `MaxFaults` bounds crashes and lost answers together;
two are enough for a late swap to meet the retry of its own sender and another
publisher's, `TieredProgress` has one, and the proofs need no bound.

In the collector's runs the durations are the smallest for which the order of
`REFRESH_AFTER`, the longest write and `MIN_AGE` is what the run asks about, and
`MaxTime` lets a stamp age past `MIN_AGE`. Runs consist of one object, and two objects
suffice for a run to be replaced and its object reused.
`RunCodec` builds up to eight records in two partitions with pages of two units and
indexes of two or three fences: a key's versions share a page, straddle pages and
straddle leaves. `RunSummary` has a group below and a group above the heavy limit, and
three publications, so that a merge can merge a merged run. `StateExport` has one
account and one slot with packages of up to two blocks over three: accounts do not
interact, and three blocks hold a creation, a destruction and a recreation, in one
package or across two. `MergePipeline` reads two pages ahead in runs of up to three.

`PackageInput` has an anchor and deltas of two blocks, one of them empty, with two
accounts, slots and blobs, and any two faults: one to spoil the file and one that might
hide it. `MAX_U64` is 3, so that a package reaches the largest block number.

`Serving` has three blocks in which an account with a slot is destroyed and created
again, or one with code appears late, and three heads: one request may see the head
replaced by a compaction and its runs deleted, and then another publication. Its budget
is scaled: with `WalkGets` 2 and a shard charged double, 16 is exactly what the longest
clean read of these histories costs, so that one unit less would refuse it and one false
positive may reach the limit. That a budget which covers the worst case is never exceeded
is proved, and the code's covers it: a clean read makes at most 1 + 3R + 4W GETs for R
runs and walks of W GETs, 85 with 24 runs (16 in L0, 8 levels) and W = 3, of at most 1 MiB
each; a request has 192 GETs and 128 MiB. `BATCH_CONCURRENCY` is 8 in the
code and 1 here: calls of a batch share nothing but the pinned reader and the cache.
Histories, batches and ranges are listed in `MCServing`.

Symmetry is used for writers, compactors and objects in runs without temporal
properties other than action properties and a refinement without fairness.
`CHECK_DEADLOCK` is off where the modelled program ends or its bounds are used up.
The tiered runs check deadlock: the last package can always be handed over again.

## Fairness

* `TieredArchive`: a call of `publish` in progress keeps going; a compactor keeps
  being called (the `compact` command loops, and is assumed to be started again when
  it exits with an error); packages refused by a full backlog are handed over again
  (the exporter waits and retries; after any other error it stops, keeps its journal and
  is assumed to be started again). No fairness is assumed of lost messages.
* `MergePipeline`: the runtime polls every task that can move, and a put that does not
  fail ends. Failures, those of the builder included, are never forced.
* `Serving`: where there is a refresh task, its timer fires and the current head can be
  read. Nothing is assumed of the archive, of clients or of requests.

## What is proved

Six parts are proved, each for every value of its constants. What is proved is also
checked by the runs, but for the type invariants, which are conjuncts of the inductive
invariants and stated in the proofs only (that of `TieredArchive` in the module itself).

### Writers

`TieredArchiveProofs` (heads, the inductive invariant, publishers, compactors and the
theorems) holds for any number of publishers, compactors, packages, levels, attempts and
faults. The assumptions are named in
`TieredHead` and `TieredArchive`: a fan-out of at least 2, at least one level, a
positive trigger and a backlog no smaller than it, positive units of weight (a fact
about powers, which needs an induction), a package's first block not after its last,
digests that name one package, and `None` distinct from all values.

| Theorem | States |
|---|---|
| `TypeCorrect` | `TypeOK` |
| `StoredHeadDecodes` | every stored head passes `Head::decode` |
| `ObjectsBeforeHead` | every run a head names is uploaded |
| `OneChain` | the archived packages are one hash-linked chain |
| `AckedStaysArchived` | a package `publish` returned `Ok` for stays archived |
| `RunsPartition` | runs partition the history by interval |
| `PlanNeverRefused` | a due compaction is refused only when all levels are full |
| `HeadOnlyAdvances` | the head never returns to earlier contents |
| `Refinement` | `TieredArchive` implements `PublishedHistory` |

The invariants are not inductive on their own. A swap is sent with a head computed
earlier, so what makes it right must be remembered from that moment: `IInv` adds that a
publisher's package continues the head it expects and that this head has room
(`PublisherInv`), that a compactor's expected head is sound and still fits its plan
(`CompactorInv`), and that every swap in flight replaces the head it expects by a
`Successor` (`InflightInv`). Because a swap compares contents, these facts about the
expected head are facts about the actual one when it lands. A `Sound` head decodes,
holds packages within their runs only, and has the last package at its tip. The
lemmas about heads show that a publication and a compaction lead from sound
heads to sound heads, that a plan made on an older head with the same levels and the
same oldest L0 runs is as good as one made now, and that weights stay multiples of the
level's unit, which is why the cascade can always stop. `PublisherInv` also needs that
the head has not fallen behind the one a publisher read: this is what lets a rebased
publication skip the check of the backlog.

### Collector

`GarbageCollectionProofs` has the inductive invariant, the writers' half of the argument,
the collectors' half and the copies of replaced heads. It holds for any number of
writers, collectors, objects and runs and any durations, under two hypotheses that the
theorems state:

* `Margin`: `REFRESH_AFTER + MERGE_DEADLINE + CommitTime < MIN_AGE` and
  `REFRESH_AFTER + PublishTime < MIN_AGE`;
* `OneChain`: the store holds one chain.

Neither can be dropped: without the second `HeadObjectsKept` fails, and the durations in
the code satisfy `Margin` for publications that take less than two hours, but for no
merge that commits after its deadline check, which is what `GcMargin` shows.

| Theorem | States |
|---|---|
| `CollectorSafe` | `HeadObjectsKept`: the head's objects are stored, but for the admitted window |
| `CollectorComplete` | `PassComplete`: a pass that ends has deleted what is old and was not reached |
| `CopiesSafe` | `HeadCopiesKept`: the newest copies of replaced heads are stored, with the same exception |

`HeadObjectsKept` speaks of the current head, while an object is lost through a writer
that stored it long ago and commits now. `StoredInv` therefore follows a call that can
still commit: what it stored is stored, and no older than the start of the call less
`REFRESH_AFTER`, since an older object would have been re-stamped. `ClockInv` bounds the
age of such a call, so with `Margin` everything it stored is younger than `MIN_AGE`.
`PassInv` says the same from the collector's side: what a running pass may still delete
is not reached by the head it walked second, and whatever the head has come to need
since is younger than the pass's cutoff. The check of an object's age then saves it,
unless a writer re-stamps it between check and delete: `torn` remembers exactly those.
The copies need in addition that a copy is stored before the head that names it and that
the copies put aside since the pass began are younger than its cutoff (`StagedInv`,
`CopiesInv`, `RecentInv`).

### File store

`FsStoreProofs` holds for any number of writers, objects, kills and power failures.

| Theorem | States |
|---|---|
| `ObjectsSurvive` | `HeadObjectsDurableOrTrusted` |
| `NothingTorn` | `NoTornObject` |
| `AcknowledgedSurvives` | `AckedHeadSurvives` |
| `HeadsLinear` | `SwapsLinear` |

The invariant follows a put from system call to system call (`PutInv`: its directory
is there, its bytes are flushed before it links them and its entry is there before it
syncs), an entry from its link to its durability (`EntryInv`), what writers and surviving
heads refer to (`KeptInv`), and the holder of the lock between compare and unlock
(`SwapInv`: what it compared is still the head, and what it renamed is). A power failure keeps some of the unsynced entries, whichever they are; the
proof only needs that all it may keep have flushed bytes.

### Merge pipeline

`MergePipelineProofs` holds for any number of sorted runs with any records, any page
size, any capacity of the channels and any depth of reading ahead, with any fetch, put,
send or step of the builder failing.

| Theorem | States |
|---|---|
| `MergeIsComplete` | `OkComplete`: a merge that succeeds has stored its root and pages of every record |
| `BuilderGetsRising` | `BuilderOrdered`: the builder is given rising records |
| `EveryPageFetchedOnce` | `PagesFetchedOnce`: no page is fetched twice, and few wait |

When the merge returns, the records have passed two channels and three tasks, so
`PipelineInv` accounts for each of them on the way: what was taken from a run is with the
builder or before it (`NothingDropped`), what the builder got is in a page it made or is
filling (`GotIsPaged`), and what it made is stored, being put, in the channel or yet to be
sent. Each of the last two holds only while no task has failed, and a failed task never
leads to success (`EndsInOrder`: the order in which the tasks see one another end). The
order of the records needs that all that was sent is below all that is still in the runs
(`StreamRises`). The pages of a run are a separate and smaller invariant (`FetchInv`):
the ones that wait are the next ones, without a gap, so a fetch of the next group never
meets one of them.

### Servers

`ServingLookups` (the inductive invariant and the lookups of a call), `ServingProofs` (the
other steps and the theorems) and `ServingBudget` (what calls spend) hold for any
histories, heads, batches, ranges, budgets and charges, and for both front ends.

| Theorem | States |
|---|---|
| `ReadsAreExact` | `AnswersExact`: an answer is what the chain says |
| `BatchesReadOneBlock` | `BatchOneBlock` |
| `ReadsAreMonotonic` | `MonotonicReads`: no client goes back in time |
| `CleanReadsFit` | `CleanReadFits`: a read without false positives fits its budget |
| `GatewayIsExact` | `GatewayExact`: an object response has the bytes its request named |

`CleanReadsFit` has a hypothesis, `BudgetFits`: the budget covers the head, three shards
per run and four walks. The code's budgets do, in GETs and in bytes.

What makes an answer right is spread over the GETs of several lookups. `HeadOK` says that
the runs of every head follow one another and hold every block up to its number, which a
publication and a merge preserve. `Looking` says of a call in the middle of a lookup that
no run it has passed has a version it could have returned (`NoneAbove`), and that the
account it goes by is the one the chain has at its block. A shard that denies a key is
right and a walk returns the last version of its run, so the first version found is the
last one the chain has, and if all runs are passed there is none. From there
`TruthFacts` leads to `Truth`: the slots of the account's incarnation are those written
since it was last destroyed, and the code its record names is the last one written since.
`ServerInv` orders the heads in use: shown to a client, pinned, in use. That a request
keeps its head is also why a batch means one block. The gateway's part is arithmetic
on the bounds of a range and the two moments at which an object may be gone.

The budget is a second invariant, `SpendingInv`, on top of the first: it bounds what a
call without false positives has spent by where it is. Each run below the one in hand
ends before the block asked for. So only the first run visited can have the key and no
version to return, and a lookup makes at most two walks.

### Exporter and readers

`StateExportProofs` holds for any accounts, slots and code, any chain of any length, any
package size, any `--last` and any number of kills. `ExportAssumption` has what it needs:
storage words other than `Zero` are positive numbers, the two ways to have no code differ from
each other and from all code, and `NoRow` differs from every row and value.

| Theorem | States |
|---|---|
| `ExportInvariant` | journal, transaction, package and archive are what the chain determines |
| `StorageExactHolds` | `StorageExact`: no slot of an earlier life shows through |
| `CodeExactHolds` | `CodeExact`: the blob an account names is there |
| `JournalExactHolds` | `JournalExact`: the journal is at most one package behind the archive |
| `RestartGetsThroughHolds` | `RestartGetsThrough`: a restart arrives at the published package |

The exporter computes an account's incarnation step by step from its own rows, so a
row that is lost or applied twice would file storage under another life from then on.
The proof says what the row must be without the exporter: `Incarnation(a, n)` counts the
blocks up to `n` in which `a` was reborn, `RowsAt(n)` and `Records(m, n)` follow from the
chain alone. `JournalOk` and `ExporterOk` say that the committed rows, the rows of the
transaction and the package so far are exactly these, for the block each of them has
reached; `ArchiveOk` that the archive has the records of all blocks it has published and
no others. A restart therefore makes the same package again, and the checks of
`consistent` never fail. The readers' half goes from records to answers: the newest
account record at or before a block has the state the account still has (a block that
changed it would have written a newer one), the newest storage record under its
incarnation was written since the rebirth, and a blob was written when an account last
came by this code. These are inductions over blocks. They are made with `BlockInduction`,
which speaks of a set of blocks, since a theorem about every predicate is of no use to the
provers.

### What is only model-checked

* Liveness and fairness: `PublishReturns`, `EventuallyPublished`, `MergeReturns` and
  `RecoversFromCollection`. The proof system does not treat them.
* `CascadeIsLoop`, `RunCodec` and `RunSummary`: they say what a recursive definition or a
  loop over records makes of its input, which would take an induction over data.
* `PackageInput`: what the parser keeps is a summary of the records read so far, and to
  relate it to the whole file is again an induction over the records.
* `GcMargin` and the disagreements with the documentation need no proof: a
  counterexample is one.

## Not modelled

Argument handling and the command loops of `src/main.rs` (the restart of `compact` is a
fairness assumption); the streaming and pagination of the S3 adapter; JSON, HTTP, CORS,
routing and body limits of both servers; parallel replay inside the probe; hash
functions, which are taken to be injective; compression.

What could follow: `reachable` over runs that share a root and differ in their shard
counts, which it skips by root.
