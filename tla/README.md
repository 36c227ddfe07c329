# skipprd: TLA+ models of the path from source to sink

skipprd moves records from sources into sinks through a write-ahead log (WAL).
A batch is committed to a WAL segment before the source's offset advances, a
compactor applies committed segments to the sink exactly once, and a segment is
dropped only when everything that needs it has consumed it. These modules model
the code that keeps those promises. All paths below are relative to the
repository root.

    source plugin <== frames, acks ==> source host session
                                              |
                    ingest thread -> WAL writer -> persist task -> catalog row
                         |                             |               |
                         +--- offset hints ---> PipelineWalHandle --> offset store
                                                       |               |
                                             compaction planner    startup republish
                                                       |
                   stream processor <-- hold --> compaction jobs -> reclaim
                                                       |
                                        sink pool: Iceberg grouped writes
                                                       |
                                     catalog outbox -> coordinator -> Glue

## 1. Inventory

### WAL writer and live segment (`src/buffer/wal_writer.rs`, `src/buffer/ingest_buffer.rs`)

* State: the bounded command channel, `SEGMENT_LIVE`, `pending_acks`, at most one
  spawned persist task, `WAL_WRITER_PENDING_COUNT`, `REQUEST_ACKS`.
* Operations: `register_request_ack`, submit, `fail_request`,
  `complete_request_without_wal`, `flush_and_drain`, `queue_submit`,
  `try_start_persist`, `flush_live_segment_to_wal`, `apply_persist_result`.
* Interaction: ingest threads and runtime sources send commands and await oneshot
  answers; the persist task runs on another thread and shares only the live segment.
* Hard: acks are taken when the task is spawned, the live segment when it first
  runs, and the live segment is locked once per batch; persists fail after a
  partial success, or panic.
* Correct when: no batch is lost or duplicated in memory, an Ok answer means the
  unit has left memory (and, without failures, is durable), a flush covers
  everything queued before it, everything is answered in the end.

### WAL handle and offsets (`src/buffer/wal_handle.rs`, `src/helpers/offset_store.rs`, `src/ingest_work.rs`)

* State: segment and control rows with a sequence number, `SeqState`, the offset
  store with its fences, the compactor's set of registered segments.
* Operations: `persist_segment`, `persist_s3_segment`, `persist_offset_hint`,
  `commit_new_segment`, `commit_control_row`, `publish_seq`, `republish_all`.
* Interaction: called by the persist task and directly by ingest threads; startup
  rebuilds offsets from the rows before the source lists its objects.
* Hard: a crash between commit, publish and flush; offsets that were put and not
  flushed; the ceiling on unpublished commits; an object split over two segments.
* Correct when: offsets never run ahead of the catalog, an object already
  committed is not committed again, a row is dropped only when its offsets are durable.

### Compaction (`src/buffer/compaction_index.rs`, `compaction_scheduler.rs`, `compaction_transaction.rs`, `sink_conflict.rs`, `ingest_buffer.rs`, `wal_handle.rs`, `wal_startup.rs`)

* State: planner memory (slice states, manifest records, reservations), running
  jobs, `COMPACTION_IN_FLIGHT`, compaction rows (Pending, Sent, Acked), done bits.
* Operations: register, plan, resume, start, send, ack, set bits and reclaim,
  delete the row, fail and release, redo, hydrate, restart.
* Interaction: one task polls planner and jobs; the WAL writer registers segments;
  the disk-pressure thread hydrates; the sink applies ids.
* Hard: a crash between any two catalog commits; a sink call that times out and
  lands later; bits set segment by segment; a hydrate from an old snapshot.
* Correct when: nothing is marked done that the sink has not applied, nothing is
  applied twice, no slice is forgotten, everything drains.

### Stream processor (`src/processor/mod.rs`)

* State: `ProcessorMeta` (cursor and configuration hash) and measures per
  aggregate in the store, and the in-memory `MIN_UNCONSUMED_SEQ`.
* Operations: `ensure_config`, `rebuild`, `process_available`, `process_segment`,
  `apply_events`, `allows_reclaim`.
* Interaction: lists catalog rows while the compactor completes and drops them;
  the compactor reads the hold before its commit.
* Hard: a paged listing of a changing catalog, a row reclaimed after it was
  listed, a rebuild torn by a crash, one hold for several aggregates.
* Correct when: each slice is counted once, no live slice is skipped, the hold
  releases only what is consumed, every segment is consumed in the end.

### Source session (`src/runtime_plugins/host.rs`, `crates/skippr-runtime-sdk/src/source_sync.rs`, `append_source_runtime.rs`)

* State: in the plugin the outstanding requests and their results
  (`IngestAckState`); in the host `pending_source_tasks`, the ack channel,
  `control_completed`, `data_completed`, `saw_unflushed_batches`; between them
  a data and a control channel; the persisted checkpoint.
* Operations: submit with a bounded window, wait, drain, `store_checkpoint`,
  Completed, Error; frame handling, throttle, drain, flush, `persist_checkpoint`.
* Interaction: batches and checkpoints travel on one channel, Completed and the
  acknowledgements on another; an ingest task or the WAL writer answers a request.
* Hard: two channels without a common order; the flush answers Ok for batches
  whose persist failed; the idle timeout drops the source in mid-flight; either
  process dies at any point.
* Correct when: a checkpoint never passes a batch that is not in the WAL, a
  session that ends Ok lost nothing and has its last checkpoint, every session ends.

### Iceberg sink (`crates/skippr-iceberg-writer/src/lib.rs`, `history.rs`)

* State: manifests and pending receipts on S3, order tokens of the CDC state, the
  table with its snapshots, and per process a lane and a cached table.
* Operations: `sync_grouped_call_result` (check, lane, receipt, commit with
  retries, tokens, manifest), `expire_history`, schema installs.
* Interaction: the compactor has one call at a time per table but a call it gave
  up on runs on, possibly in another process of the pool.
* Hard: a commit whose answer is lost, or that arrives late; a stale cached
  table; a death between any two writes; expiry of the snapshot a retry needs.
* Correct when: a group is committed once, an acknowledged group is complete,
  every group is written in the end, and the rows a reader sees are the newest.

### Catalog outbox and coordinator (`src/catalog_outbox.rs`, `src/catalog_coordinator.rs`)

* State: one file per partition, the index over them, `directory_sync_required`,
  the due times; what each drain has scanned; the partitions in Glue.
* Operations: `persist`, `scan_eligible_pending`, `drain_once`,
  `mark_delivered_if`, `record_failure_if`, `recover_index`.
* Interaction: sink calls persist intents before they count as done; a worker and
  the drain at the end of a run deliver them.
* Hard: an entry replaced while its older version is being delivered; renames and
  unlinks that are not synced; Glue calls that fail and had their effect.
* Correct when: an acknowledged location is never lost, an entry leaves only when
  delivered, everything is delivered or kept as terminal.

### Not modelled

| Part | Where | Why |
|---|---|---|
| Catalog store: conditional transactions, ambiguous commit | `crates/skippr-wal-catalog` | planned; a commit lands or leaves no trace in the modules above (except a checkpoint's) |
| Payload persistence, orphan collection | `src/buffer/wal_persist.rs` | planned |
| Legacy import (sled, commit markers) | `src/buffer/wal_catalog_import.rs` | one-time migration, planned last |
| Lease and epochs | `CatalogFence::local()` | one epoch only: no change is reachable |
| ReplaceTable, legacy chunks, ungrouped writes, maintenance rewrites of the Iceberg sink | `crates/skippr-iceberg-writer` | other write policies; planned after the catalog |
| Other sink plugins | `plugins/data_sink` | external systems; they owe what `SinkLedger` states |
| Source plugins | `plugins/data_source` | external systems; their use of offsets is in `WalHandle`, of the SDK in `SourceSession` |
| Transforms, schema evolution, discovery, SQL, CLI, configuration, metrics, generated clients | | pure data conversion, read side, wiring: no protocol state a model checker adds anything to. They are most of the repository's lines, which is why the map covers a small share of them |

`PROJECT.json` lists every component with its status, and the hazards with the
line where each one bites.

## 2. Modules

| Module | Models | Composition |
|---|---|---|
| `WalWriter` | writer loop, persist task, request registry, flush | stands alone |
| `WalWriterProof` | theorems about `WalWriter` | extends it |
| `WalHandle` | ingest of whole objects, commit, publish, republish | contains the writer as the loop that takes the live segment |
| `WalHandleProof` | theorems about `WalHandle` | extends it |
| `WalCompaction` | planner, jobs, sink, redo, hydrate, restart | starts where a segment row is committed |
| `WalCompactionProof` | theorems about `WalCompaction`: delivery | extends it |
| `WalCompactionPlannerProof` | theorems about `WalCompaction`: planner, once per slice | extends `WalCompactionProof` |
| `StreamProcessor` | processor task and reclaim hold | contains the compactor as what finishes a segment |
| `StreamProcessorProof` | theorems about `StreamProcessor` | extends it |
| `SourceSession` | source plugin's SDK and the host's session | takes the WAL as what `WalWriter` promises (`slipped` is its `FailedPersistNotAcked` case) |
| `SourceSessionProof` | theorems about `SourceSession` | extends it |
| `SinkLedger` | abstract: what a grouped sink owes the compactor | used by `WalCompaction` as `SinkLands`, implemented by `IcebergSink` |
| `IcebergSink` | grouped exact-once writes of the Iceberg sink | instantiates `SinkLedger` |
| `IcebergSinkProof` | theorems about `IcebergSink`, the refinement included | extends it |
| `CatalogOutbox` | durable outbox and its delivery to Glue | starts where a sink call returns intents |
| `CatalogOutboxProof` | theorems about `CatalogOutbox` | extends it |
| `MC*` | instances for TLC | extend the module they are named after |

Operators called `Mut...` stand next to the definition they mutate and are used
by no specification: each is a plausible bug, and TLC finds the property it is
listed with in `PROJECT.json` violated once it replaces the definition.

### WalWriter

A part `<<unit, index>>` is one batch. `queue` is the mpsc channel, `live`
`SEGMENT_LIVE`, `persist` the task with the acks it was given and the snapshot it
took, `writer` the program counter of `run_writer` (its loop, half way through an
append, or in one of the two joins of a flush), `registry` the remaining units of
a request. `durable` and `lost` are history. One action per branch of the
`select!`: `JoinPersist`, `RecvSubmit` (then `AppendBatch` per lock acquisition
and `QueueSubmitted` or `AppendFails`), `RecvFlush` (then `FlushJoinsRunning`
and `FlushReplies`); the task is `TakeLive` and `PersistCommits`,
`PersistFails`, `PersistFailsAfterCommit` or `PersistPanics`. The callers are
`RegisterRequestAck`, `Submit`, `FailRequest`, `CompleteRequestWithoutWal`,
`FlushAndDrain` and `FlushTimeout`.

Left out: partition keys, CDC metadata, encoding; the ack timer and the size
threshold, whose guards never hold when the loop waits (`PendingHasPersist` is
that fact); the closed channel, as `WAL_WRITER_TX` is a static.

### WalHandle

An object is what a source reads as a whole; its parts are the WAL batches it is
split into. `log` is every row ever committed, by seq; `rows` the seqs still in
the catalog; `op[x]` a call of the handle by the persist task or an ingest
thread (commit, then one publish per object, then flush); `fence` the published
offsets and `flushed` those that survive a crash in any case. A crash keeps any
mixture of flushed and unflushed fences.

Left out: objects of several requests (streams, hence fence regressions),
checkpoints, positions and file sizes, payload placement. An object is read
again only after a restart.

### WalCompaction

A slice is a token. A compaction id is a hash of destination and sorted slices,
so an id *is* a set of slices. `row`, `done` and `comp` are the catalog;
`index`, `manifests`, `reserved`, `cache` the planner; `jobs` the slots of
`drive_work_conserving`; `requests`, `ledger`, `delivered` the sink, which
applies an id at most once, possibly after the caller has given up. What a job
does after the sink's answer has no yield point (`Yielded`), so the planner
waits for it while a crash, the redo and the pressure thread do not. `torn`
records that a crash found an Acked row whose bits were not all set.

Abstractions: Waiting and Ready are one state and any group of at most
`MaxParts` available slices may be planned (thresholds, ages and lane order
only restrict that); time is not modelled, a Sent record may be stale at any
moment; the flush of one redo batch is one step; the reclaim hold is
`StreamProcessor`'s (here every segment may go), and so is a payload left behind
when `after_reclaim` fails, which the next start collects; permits, metrics and
the quarantine of truncated payloads are absent. `SinkLands` is what the
compactor owes to its sinks; the Iceberg sink is shown to provide it
(`SinkLedger`), the others are taken to.

### StreamProcessor

Segment `s` is the one with catalog seq `s`; `KeyRank` is the order of the
segments' random ids, in which the catalog is listed page by page. A slice is
one store transaction, so a cursor is a segment and a number of slices.
`proc` is the task's program counter with its locals. The compactor is the job
that finishes a segment: it writes the Acked row, reads the hold, commits bits
or reclaim, removes the payload, and may fail or crash in between (`Redo`).
`FinishSegment` moves the hold, `ReclaimFullyDone` then drops all or some of
what waited for it; `TaskFails` is any error of the store, the listing or a
read, after which nothing restarts the task. `behind` and `emptied` are history
variables that only the properties read: the segments committed with an id a
running listing had already read past, and the aggregates whose rebuild has
deleted the state and not written the meta.

Left out: measures, mutations and event-id dedup (a slice is counted or not),
slices that are empty or not Arrow (only `type: copy` pipelines write the
latter, and they have no aggregates), and `drain_and_stop_processor`.

### SourceSession

A batch is one request of one ingest task; its number is its request id and the
position a checkpoint names. `plugin` is the main future of the plugin,
`pending` and `completed` its `IngestAckState`; `data`, `control` and `answers`
the frames under way; `host` the place in `sync_runtime_input_plugin`, `frame`
the frame at hand; `task`, `unit`, `request` and `acks` a batch as an ingest
task, in the ingest queue or WAL writer, in `REQUEST_ACKS`, and as an
acknowledgement not yet forwarded. `Restart` starts a later session from the
persisted checkpoint.

Left out: the byte window, frames of schema, contracts and `SinkWrite`,
discovery mode, several tasks per request (in `WalWriter`). Offset hints take
the checkpoint's way. `wait_for_capacity` and `register_request` are one step, since
one future submits.

### IcebergSink and SinkLedger

A group is its order token, and all groups change one business key: this is the
case where the order of groups can show. `table` is the Iceberg metadata, its
`version` the current snapshot's id (what `RefSnapshotIdMatch` compares) and
`snaps` the groups whose snapshot it has; `visible` the key's rows a reader
sees; `receipt[g]` what the pending receipt's files do to the key (insert,
upsert with an equality delete, or nothing); `flight` commit requests that may
still arrive. `SinkLedger` has two variables, how often a group is written and
which groups are answered; the refinement maps them to `rows` and `acked`.

Two assumptions are about time: a call is over before the snapshot of its group
can expire (retained a day, `SNAPSHOT_RETAIN_AGE_MS`), and the receipt and token
objects are read as last written. Left out: read errors and a manifest mismatch
before anything is written, which return an error without effect.

### CatalogOutbox

An entry is the whole `PendingCatalogIntent`, as its generation is a hash of
the whole. `entries` is index and file together (they change under one lock),
`ondisk[k]` the versions a crash may leave: a sync makes it a singleton.
`hand[d][k]` is what a drain holds for a partition, from the scan to the
outcome. `clock` is `now_ms`, which may stand still between two writes.

Left out: several tables and batches, corrupt files, the operation budget, the
deadline of the final drain, the limit of the recovery scan and errors of the
metrics refresh. A Glue call has landed, or never lands, when it
returns.

## 3. Runs

Passing runs (distinct states in brackets):

* `wal_writer` (72k): one request of three units with two, one and no batches,
  a channel of two, a flush, two failing persists, one panic, one failing append.
  Two batches are what a torn unit needs; a second unit falls between spawn and
  first step; the flush meets each of these states.
* `compaction` (279k): two segments of two and one slices, groups of at most two
  (so groups inside a segment and across segments), two workers, one failing
  step, two crashes (the second hits the redo of the first).
* `compaction_pressure` (1.7M, with symmetry of workers and of the two slices of
  a segment): the copy pipeline, one hydrate by the pressure thread between any
  steps, one failing job step and one failing redo.
* `processor` (1.7M): two aggregates, three segments of two slices with ids in
  the order 2, 1, 3 and a listing of one row a page, so that a later segment can
  be listed and an earlier one missed; any number of failing jobs, a failing
  store, one crash, and a restart with either configuration, so that a rebuild
  of a non-empty state can be torn by an error. Two crashes, after which the
  configuration may have gone back to the emptied state's hash, are beyond this
  size in five minutes; `CursorAgrees` covers any number, and
  `MCStreamProcessorReturn.cfg` shows the case.
* `source_session` (633k): three batches in a window of two with two ingest tasks
  at a time, so that the window fills, a checkpoint lies between batches and a
  task is throttled; two failures of any kind and two restarts, so that a
  restarted session can fail as well.
* `iceberg` (664k): two groups, two processes, two calls at a time (a retry
  beside a call that was given up), two attempts, two faults of any kind.
  Two faults are what the hard cases take: a timeout and a lost answer.
* `catalog_outbox` (638k): one partition that moves and one that is refused, two
  drains, one fault, one crash.
* `offsets` (63k): objects of two, one and no parts, two of them with discarded
  records, a ceiling of two, one failing step, two crashes.

The invariants and liveness properties of each run are listed, with what they
say, in the module and in `PROJECT.json`. The type invariant is a run's property
only where it says more than types (the owed sync of `CatalogOutbox`, the window
of `SourceSession`); the others are part of the theorems of section 4. Deadlock checking is off because every
instance has a last unit, segment or object: afterwards the system really waits.

Violation runs. Each states what a comment or document of the repository says
and shows a behaviour of the code that does not match; the finding quotes the line.

* `wal_writer_failed_ack`: a unit appended between the spawn of a persist and its
  first step is dropped with that persist when it fails, and answered Ok by the next.
* `processor_hold`: with two aggregates the hold follows the one being driven, and
  lets a segment go that the other has not read.
* `offsets_torn_unit`: a persist takes half of an object and closes it; a crash
  loses the other half.
* `iceberg_rows`: the call of a group fails after its receipt is written; a newer
  group of the same key is committed; the retry commits the stale receipt, and a
  reader sees both rows. The same comes of a commit that landed and whose tokens
  were not persisted before a newer group: the newer receipt then finds no token
  and does not delete the older row.

Further configurations are kept beside the runs; each shows one more departure
from a comment or document:

* `MCWalCompactionHydrateDrops.cfg` (`NothingForgotten`): a segment registered while
  a hydrate is running is dropped from the planner when it ends, although
  `ingest_buffer.rs:2470` says "Refresh the RAM planner from the catalog."
* `MCWalCompactionTornAck.cfg` (`WrittenOnce`): after a crash between the Acked row
  and the done bits `hydrate_from_catalog` skips the Acked row, the slices come
  back unfenced, the redo sets their bits and leaves them in the planner, and they
  are sent in another group under another `compaction_id`, although
  `runtime-plugin-contract.md:69` says that the id "is the cross-retry semantic
  identifier and must remain stable for replay."
* `MCStreamProcessorListing.cfg` (`HoldIsSafe`): with one aggregate, a segment
  committed behind a listing of several pages is passed by the cursor and let go
  without having been counted.
* `MCStreamProcessorReturn.cfg` (`HoldIsSafe`): a crash tears a rebuild and the
  process comes back with the old configuration, which takes the emptied state
  for current and its cursor for the truth.
* `MCStreamProcessorDead.cfg` (`EventuallyConsumed`): a segment reclaimed between
  listing and reading ends the task, and nothing restarts it.
* `MCWalHandleHint.cfg` (`NothingSkipped`): the hint of a discarded record closes
  the object before its good records are submitted (`ingest_work.rs:1300`).

Exceptions inside passing properties say what the code does not promise:
`EveryUnitAnswered` excepts a panicking persist (its acks are gone),
`WrittenOnceUndisturbed` a torn acknowledgement and a hydrate, `AlwaysDrains` a
torn acknowledgement, `CatchesUpUnlessDead` a task ended by an error,
`PassedIsCounted`, `HoldNotAhead` and `CatchesUpUnlessDead` a segment committed
behind a listing and an aggregate emptied by a torn rebuild,
`CheckpointCovered` and `OkIsDurable` the batches `WalWriter` answers Ok after a
failed persist (`slipped`), `IntentSurvives` and `RemovedIsDelivered` partitions
both drains have held at once.

`CheckpointCovered` is worth a remark. The host drains and flushes before it
persists a checkpoint, but that flush also answers Ok for batches whose persist
failed; the property holds because every source that has checkpoints waits for
its acknowledgements before it stores one (`WaitPayloadAcks`, and the mutant
that counts an error as an answer breaks it).

### Fairness

* `WalWriter`: weak fairness of the writer and of the persist task, both polled by
  tokio while ready. Callers are not fair: nobody has to submit.
* `WalHandle`: weak fairness of each call in progress, of the start of a process
  that ended and of `republish_all`. The source need not read on.
* `WalCompaction`: the compactor task and the WAL writer's registration are polled,
  cycles are started on a timer, the sink answers a waiting job, a stale Sent
  record becomes ready, a crashed process is started again. Crashes and failures
  are bounded and never fair.
* `StreamProcessor`: weak fairness of the task, which loops every 200 ms. The
  compactor is not fair.

* `SourceSession`: weak fairness of the plugin's main future, its frame loop, the
  host's loop and the ingest. The idle timeout, errors, deaths and restarts are
  not owed.
* `IcebergSink`: the compactor retries what is not acknowledged, and each call
  runs on. Faults are bounded and never fair.
* `CatalogOutbox`: the worker's loop (it also wakes every second), the backoff
  timers, and the repetition of a failed sink call. The final drain is not fair:
  it has a deadline.

## 4. Proofs

`WalWriterProof`, THEOREM `WriterSafety`: for every set of units, requests and
flushers, every number of batches, capacity and bound, `WalWriter` satisfies
`TypeOK`, `BatchesConserved`, `AckedIsSettled` and
`AckedIsDurableWithoutFailure`. Assumptions: `CapacityAssumption`,
`BoundsAssumption`, `UnitsAssumption` (finitely many units). The three safety
properties are not inductive: the invariant adds where a unit in each state is
(in the queue once, under the writer's hand, in `pending`, or carried by the
task), that a unit carried by a spawned task has been appended completely, and
that the pending counter equals the number of units accepted and not yet
answered (needed for `count \in Nat` when a result is applied). The argument:
a task that carries a unit's ack takes the live segment after the unit was
appended, so when it ends nothing of the unit is in memory.

THEOREM `WriterDrains` (`FlushDrainsCovered`, `IdleMeansSettled`,
`PendingHasPersist`) and THEOREM `RequestAnswers` (`RequestOkMeansUnitsOk`), under
the same assumptions. The invariant adds that whatever is pending has a persist
that runs or can be started (`OffsetsInv`); that a unit is in the one place its
state says (`WhereInv`); that a flush command is in the channel once and behind
every unit it covers (`BehindInv`); that while the writer serves it every covered
unit has been appended, so that its second persist takes all that is left of them
(`ServingInv`); and that the registry counts exactly the units of a request that
have not succeeded (`RegistryInv`). Each property then reads off the state in
which the flush, the idle writer or the request is answered.

`StreamProcessorProof`, THEOREM `ProcessorSafety`: for every number of
aggregates, segments, slices, crashes and configurations, `TypeOK` and
`AppliedOnce`. Assumptions: `SizesAssumption`, `ConfigAssumption`. The
invariant adds that what is counted is at or behind the cursor
(`CountedIsPassed`), that the state is empty between the two commits of a
rebuild, and that the task applies only a segment its cursor has not passed.

THEOREM `CursorAgrees` (`PassedIsCounted`) and THEOREM `HoldBounded`
(`HoldNotAhead`) need no more than the assumptions of the module: any number of
aggregates, any order of ids, any page size, any sequence of configurations. The
formulas name the only two ways in which a cursor comes to lie beyond a segment
that is not counted: the segment was committed behind a running listing
(`behind`), or a rebuild of the aggregate was torn (`emptied`). The invariant:
segments are committed in seq order (`WalInv`); the cursor of an aggregate is in
a committed segment, and what it has passed is counted (`StoreInv`); a running
listing holds every segment up to its last key, and when it is complete, a
segment in the catalog and not in the listing was committed after everything
listed (`ListedInv`), because a page holds every row up to its last key and a
short page all that are left (`PageHolds`); what the task has visited is counted
(`VisitedInv`), so a cursor never passes a segment that is missing in the state.
The hold is at or before the cursor of some aggregate, or just past a segment
that cursor has finished (`HoldInv`). That this holds of every aggregate is what
the document says and the code does not do (`processor_hold`).

`WalCompactionProof`, THEOREM `CompactionSafety`: for every shape of segments
and slices, every number of workers and every bound on failures, crashes and
hydrates, `TypeOK`, `DoneIsDelivered`, `AckedIsDelivered` and
`InFlightExclusive`. Assumptions: `ShapeAssumption`,
`CompactionBoundsAssumption`. The invariant adds
that whatever a compaction row, the planner's cache or a running hydrate refers
to has been committed, so that a missing segment row means a dropped one
(`CommittedInv`); that the slices a job leaves out of its call are applied
already, and all of them once the sink has answered (`JobInv`, `SinkInv`); that
the ids handed to the background redo are applied (`RedoInv`); and that the
slices of a running job are in flight (`FlightInv`). Any call of the
sink under an id, the late one of a caller that gave up included, leaves all
slices of the id applied, which is why bits may be set from the row alone.

`WalCompactionPlannerProof`, under the same assumptions. THEOREM
`CompactionOnce`: `WrittenOnceUndisturbed` and `ReadsLivePayload`. THEOREM
`PlannerForgetsNothing`: `NothingForgotten` until the pressure thread refreshes
the planner (`hydrates = 0`; after a refresh it is false, see
`MCWalCompactionHydrateDrops.cfg`). The invariant `QuietInv` says that the ids
the system still knows (of unfinished rows, manifests and jobs) overlap only
when they are equal, and none of their slices is available to the planner
(`KnownInv`); that a job keeps its id from being resumed and leaves out only
slices that are done (`JobsInv`); that every unacknowledged row has a manifest
(`RowsInv`), a reserved slice belongs to a job (`ReservedInv`), and every slice
is where planner, job or redo will find it (`FoundInv`). As long as no crash
tore an acknowledgement it also says that done bits are set only under
acknowledged ids (`WholeInv`), so every call of the sink is of a whole id and a
slice is in at most one id of the sink's ledger: the sink's own deduplication by
id is then enough. `NothingForgotten` does not need that last part, so it
survives torn acknowledgements.

`WalHandleProof`, THEOREM `HandleSafety`: for every set of objects, every number
of parts, ceiling and bound, `TypeOK`, `PublishedIsCommitted`, `CommittedOnce`
and `ReclaimedIsClosed`. Assumptions: `ObjectAssumption`,
`HandleBoundsAssumption`. The three properties need each other. A call that
publishes has a row of its own, unknown to the compactor, and has closed every
object of the row it no longer has to do (`CallInv`), so at its flush the row
may be registered (`RegisteredInv`); a row that is dropped was registered, so its
objects are durably closed; hence at the end of `republish_all` every object
that any row, dropped or not, names is closed, and an object that is read again
has no committed part (`PartsInv`); `CommittedOnce` follows, because a part in
memory is in one place and in no row.

`SourceSessionProof`, THEOREM `SessionSafety`: for every number of batches,
window, spawn cap and bound, `TypeOK`, `CheckpointCovered` and `OkIsDurable`.
Assumption: `SessionAssumption`. The invariant follows an Ok answer: it is of a
batch in the WAL wherever the answer is (`AnswersSafe`), so is every batch below
`next` that is no longer waited for (`BelowNextSafe`), hence every checkpoint
under way and the persisted one are covered (`CheckpointsSafe`), and Completed is
sent only by a plugin that has everything answered Ok (`CompletedSafe`).

THEOREM `SessionCheckpoints`: `OkIsCheckpointed` and the action property
`CheckpointAdvances`. Checkpoints are persisted in the order they are sent, each
larger than those before it (`CheckpointsInOrder`); the last one sent is
persisted, at the host's hand or in the data channel (`LastOnItsWay`); and a
host that leaves its loop for Ok has no frame at hand and has read that channel
to its end (`ChannelsDone`).

`IcebergSinkProof`, THEOREM `SinkSafety` (`TypeOK`, `GateSurvives`,
`AckedIsComplete`) and THEOREM `SinkImplementsLedger` (`Spec =>
ImplementsLedger`): for every number of groups, processes, calls, attempts and
faults the sink implements `SinkLedger`. Assumption: `SinkAssumption`. A copy of
the table, cached or a call's base, that has the current snapshot has every
snapshot of the table (`CachesOK`, `CallsOK`); a group that is written and has
no manifest keeps its snapshot (`GateSurvives`); so a call that passed the gate
and whose base is current commits a group that is not written, and a request in
flight whose base is still current is of one (`RequestsOK`). Every step is then
`Write`, `Answer` or a stutter of the ledger.

`CatalogOutboxProof`, THEOREM `OutboxSafety`: for every set of partitions,
locations and sink calls and every bound on time, faults and crashes, `TypeOK`,
`IntentSurvives` and the action property `RemovedIsDelivered`. Assumptions:
`IntentAssumption`, `OutboxBoundsAssumption`, `SentinelAssumption` (the value for
"no entry" is no entry). An intent can be lost in two ways: its entry is removed
although Glue does not have it, or a drainer that scanned an older entry writes
over what Glue has and the outbox no longer holds. Against the first, what a
drainer found equal or has written is in Glue (`ReportedIsInGlue`), because only
one drainer holds a partition that is not recorded as overlapped (`OneHolder`).
Against the second, where a crash may leave no entry, a drainer that still holds
the partition can only write the location that is wanted (`LateWriteIsHarmless`).

Only model-checked: the liveness properties (`EveryUnitAnswered`,
`EveryFlushAnswered`, `LiveIsFlushed`, `AlwaysDrains`, `CatchesUpUnlessDead`,
`CommittedIsClosed`, `EventuallySettled`, `SessionEnds`, `EventuallyAcked`), because
liveness under fairness is outside what TLAPS proves here, and what the hypotheses
above leave out: compaction with a refresh of the planner, which a run explores
at small sizes. No module uses a recursive operator.

## 5. Plan

1. `WalCatalog`: conditional transactions and a durable commit whose outcome is
   unknown, refined by the atomic commits the other modules use; then
   `ObjectPersist` (reconciling an unknown put, orphan collection).
2. `WalHandle` with several units of one offset key, fence regressions, checkpoint
   rows and a property of the commit ceiling.
3. `WalCompaction` over `SinkLedger`: a batch delivered exactly once per
   destination while undisturbed, as an abstract specification of its own.
4. ReplaceTable and the legacy chunks of the Iceberg sink; the legacy import.
5. Proofs: `WalCompaction` as an implementation of the specification of item 3,
   with `SinkLedger` for its sink; what survives a refresh of the planner.

Hazards known and without a run: a reclaim before the hold is set, the redo that
ignores the hold, a second delivery after a hydrate that reads a done bit too early, a put whose
outcome stays unknown, a sink call that outlives the retention of its snapshot,
and a Glue request that lands after its call has failed. Most of them are in
`PROJECT.json` with a note.
