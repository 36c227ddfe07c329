---------------------------- MODULE WalCompaction ----------------------------
(***************************************************************************)
(* Compaction of committed WAL segments into a destination:                *)
(* src/buffer/compaction_index.rs (the planner's memory),                  *)
(* compaction_scheduler.rs, the compactor in ingest_buffer.rs, the catalog *)
(* operations of wal_handle.rs and the restart in wal_startup.rs.          *)
(*                                                                         *)
(* A segment consists of slices.  The planner groups available slices into *)
(* a compaction, a job sends the compaction to the sink, records the       *)
(* progress in a durable row (Pending, Sent, Acked), sets the done bits of *)
(* the slices, drops segments whose bits are all set and deletes the row.  *)
(*                                                                         *)
(* A compaction id is a hash of the destination and the sorted slices      *)
(* (deterministic_compaction_id), so an id IS the set of its slices.  The  *)
(* sink is exactly-once: it applies one id at most once.  All slices have  *)
(* one sink and namespace, that is one scheduler lane.                     *)
(*                                                                         *)
(* Planner and jobs are polled by one task.  What a job does after the     *)
(* sink has answered contains no point where it yields, so planner and     *)
(* other jobs never see it half done; a crash, the background redo and     *)
(* the hydrate of the disk-pressure thread do.                             *)
(***************************************************************************)
EXTENDS Naturals, FiniteSets

CONSTANTS
    Slices,          \* slices of all segments
    Segments,        \* segment ids
    SegmentOf,       \* the segment of a slice
    GroupOf,         \* the group key of a slice
    Workers,         \* slots of drive_work_conserving
    MaxParts,        \* WAL_COMPACTION_GROUP_MAX_PARTS
    CopyPipeline,    \* pipeline type copy: no Pending row, no commit lane
    AppendPolicy,    \* write policy Append: no sink conflict key
    MaxFailures,     \* bound on failing job steps
    MaxRedoFailures, \* bound on failing redo passes
    MaxCrashes,      \* bound on crashes
    MaxHydrates      \* bound on hydrates by the disk-pressure thread

ASSUME ShapeAssumption ==
    /\ SegmentOf \in [Slices -> Segments]
    /\ DOMAIN GroupOf = Slices
    /\ CopyPipeline \in BOOLEAN
    /\ AppendPolicy \in BOOLEAN

ASSUME CompactionBoundsAssumption ==
    /\ MaxParts \in Nat \ {0}
    /\ MaxFailures \in Nat
    /\ MaxRedoFailures \in Nat
    /\ MaxCrashes \in Nat
    /\ MaxHydrates \in Nat

\* Compaction ids: non-empty sets of slices of one group.
Ids == {i \in SUBSET Slices :
            /\ i # {}
            /\ Cardinality(i) <= MaxParts
            /\ \A s, t \in i : GroupOf[s] = GroupOf[t]}

SlicesOf(g) == {s \in Slices : SegmentOf[s] = g}

SegmentsOf(S) == {SegmentOf[s] : s \in S}

VARIABLES
    row,        \* SegmentRow of a segment: none yet, live, or deleted
    done,       \* done bits of the segment rows
    comp,       \* CompactionRow of an id
    up,         \* the process runs
    unregistered, \* segments committed and not yet in the writer's register call
    cache,      \* SEGMENT_CACHE
    index,      \* CompactionIndex: the planner's state of a slice
    manifests,  \* ManifestIndex.records
    reserved,   \* records whose reserved flag is set
    inFlight,   \* COMPACTION_IN_FLIGHT
    jobs,       \* the futures of drive_work_conserving
    blocked,    \* the lane is in blocked_lanes, or no cycle has started yet
    redo,       \* ids the task of spawn_durable_redo will flush
    hydrate,    \* where the pressure thread is in hydrate_from_catalog
    requests,   \* sink calls on their way, the caller may have given up
    ledger,     \* ids the sink has applied
    delivered,  \* history: how often a slice was applied (2: more than once)
    torn,       \* history: a crash hit an Acked row whose bits were not set
    failures, redoFailures, crashes, hydrates

durableVars == <<row, done, comp>>
plannerVars == <<cache, index, manifests, reserved>>
sinkVars == <<requests, ledger, delivered>>
bounds == <<failures, redoFailures, crashes, hydrates>>
vars == <<row, done, comp, up, unregistered, cache, index, manifests,
          reserved, inFlight, jobs, blocked, redo, hydrate, requests, ledger,
          delivered, torn, failures, redoFailures, crashes, hydrates>>

NoJob == [pc |-> "idle"]

Job(pc, i, E) == [pc |-> pc, id |-> i, entries |-> E]

NoHydrate == [pc |-> "none"]

\* The job has called the sink and keeps the exactly-once commit lane.
AtSink == {"sent", "acking", "reclaiming"}

\* The job is inside the poll that follows the sink's answer.
MidPoll == {"acking", "reclaiming"}

Running == {"building"} \cup AtSink

JobType ==
    {NoJob}
    \cup [pc : {"planned", "building", "sent", "acking"},
          id : Ids, entries : SUBSET Slices]
    \cup [pc : {"reclaiming"}, id : Ids, entries : SUBSET Slices,
          todo : SUBSET Segments]

HydrateType ==
    {NoHydrate}
    \cup [pc : {"check"}, live : SUBSET Segments, todo : SUBSET Segments]
    \cup [pc : {"register"}, live : SUBSET Segments, todo : SUBSET Segments,
          seg : Segments, fresh : SUBSET Slices]
    \cup [pc : {"install"}, live : SUBSET Segments, rows : SUBSET Ids]

\* Every variable has its type.
TypeOK ==
    /\ row \in [Segments -> {"none", "live", "reclaimed"}]
    /\ done \subseteq Slices
    /\ comp \in [Ids -> {"none", "pending", "sent", "acked"}]
    /\ up \in BOOLEAN
    /\ unregistered \subseteq Segments
    /\ cache \subseteq Segments
    /\ index \in [Slices -> {"absent", "available", "reserved", "fenced"}]
    /\ manifests \in [Ids -> {"none", "pending", "sent"}]
    /\ reserved \subseteq Ids
    /\ inFlight \subseteq Slices
    /\ jobs \in [Workers -> JobType]
    /\ blocked \in BOOLEAN
    /\ redo \subseteq Ids
    /\ hydrate \in HydrateType
    /\ requests \subseteq [id : Ids, entries : SUBSET Slices]
    /\ ledger \subseteq Ids
    /\ delivered \in [Slices -> 0..2]
    /\ torn \in BOOLEAN
    /\ failures \in 0..MaxFailures
    /\ redoFailures \in 0..MaxRedoFailures
    /\ crashes \in 0..MaxCrashes
    /\ hydrates \in 0..MaxHydrates

Init ==
    /\ row = [g \in Segments |-> "none"]
    /\ done = {}
    /\ comp = [i \in Ids |-> "none"]
    /\ up = TRUE
    /\ unregistered = {}
    /\ cache = {}
    /\ index = [s \in Slices |-> "absent"]
    /\ manifests = [i \in Ids |-> "none"]
    /\ reserved = {}
    /\ inFlight = {}
    /\ jobs = [w \in Workers |-> NoJob]
    /\ blocked = TRUE
    /\ redo = {}
    /\ hydrate = NoHydrate
    /\ requests = {}
    /\ ledger = {}
    /\ delivered = [s \in Slices |-> 0]
    /\ torn = FALSE
    /\ failures = 0
    /\ redoFailures = 0
    /\ crashes = 0
    /\ hydrates = 0

-----------------------------------------------------------------------------
(* The planner's memory.                                                   *)

\* slice_is_done: the bit of the row; a missing row counts as done.  The
\* bits kept in memory (in_memory_done) only repeat committed ones.
SliceIsDone(s) == s \in done \/ row[SegmentOf[s]] # "live"

IsFenced(m, s) == \E i \in Ids : m[i] # "none" /\ s \in i

\* register_segment: the segment's slices are dropped and the fresh ones
\* inserted again.  Waiting and Ready are one state, "available".
RegisterSegment(idx, m, g, fresh) ==
    [s \in Slices |->
        IF SegmentOf[s] # g THEN idx[s]
        ELSE IF s \notin fresh THEN "absent"
        ELSE IF IsFenced(m, s) THEN "fenced" ELSE "available"]

\* remove_segment and complete_refs: the slices leave the planner.
RemoveSlices(idx, S) == [s \in Slices |-> IF s \in S THEN "absent" ELSE idx[s]]

\* The slices of id i after upsert_manifest left the records m.
Refence(idx, m, i) ==
    [s \in Slices |->
        IF s \notin i \/ idx[s] \in {"absent", "reserved"} THEN idx[s]
        ELSE IF IsFenced(m, s) THEN "fenced" ELSE "available"]

\* upsert_manifest with a Pending or Sent row.  A new record is reserved when
\* a slice of it is.
UpsertManifest(i, state) ==
    /\ manifests' = [manifests EXCEPT ![i] = state]
    /\ index' = Refence(index, manifests', i)
    /\ reserved' = IF manifests[i] = "none" /\ \E s \in i : index[s] = "reserved"
                   THEN reserved \cup {i} ELSE reserved

\* Mutant: the slices of a failed job leave the planner.
MutReleaseDrops(idx, m, i) == [s \in Slices |-> IF s \in i THEN "absent" ELSE idx[s]]

\* release_refs: reserved slices go back behind their fence or are available.
ReleaseRefs(idx, m, i) ==
    [s \in Slices |->
        IF s \notin i \/ idx[s] # "reserved" THEN idx[s]
        ELSE IF IsFenced(m, s) THEN "fenced" ELSE "available"]

Yielded == \A w \in Workers : jobs[w].pc \notin MidPoll

-----------------------------------------------------------------------------
(* The WAL writer commits a segment, then registers it with the planner.   *)

CommitSegment(g) ==
    /\ up
    /\ row[g] = "none"
    /\ SlicesOf(g) # {}
    /\ row' = [row EXCEPT ![g] = "live"]
    /\ unregistered' = unregistered \cup {g}
    /\ UNCHANGED <<done, comp, up, plannerVars, inFlight, jobs, blocked, redo,
                   hydrate, sinkVars, torn, bounds>>

SegmentCacheRegister(g) ==
    /\ up
    /\ g \in unregistered
    /\ unregistered' = unregistered \ {g}
    /\ cache' = cache \cup {g}
    /\ index' = RegisterSegment(index, manifests, g,
                                {s \in SlicesOf(g) : ~SliceIsDone(s)})
    /\ UNCHANGED <<durableVars, up, manifests, reserved, inFlight, jobs,
                   blocked, redo, hydrate, sinkVars, torn, bounds>>

-----------------------------------------------------------------------------
(* The planner: next_compaction_transactions.                              *)

CanPlan == up /\ Yielded /\ ~blocked

\* Mutant: a record left Sent by a failed job is never stale.
MutSentNeverStale(i) == manifests[i] = "pending" /\ i \notin reserved

\* A record the planner may reserve: Pending, or Sent for longer than
\* WAL_COMPACTION_SENT_STALE_SECS.  Time is not modelled: a Sent record may
\* be stale or not.
Ready(i) == manifests[i] # "none" /\ i \notin reserved

Remaining(i) == {s \in i : ~SliceIsDone(s)}

\* work_from_manifest builds work for the record.
Resumable(i) ==
    /\ i \cap inFlight = {}
    /\ SegmentsOf(i) \subseteq cache
    /\ Remaining(i) # {}

\* A manifest is resumed under its own id with the slices not yet done.
PlanManifest(w, i) ==
    /\ CanPlan
    /\ jobs[w] = NoJob
    /\ Ready(i)
    /\ Resumable(i)
    /\ manifests' = [manifests EXCEPT ![i] = "pending"]
    /\ reserved' = reserved \cup {i}
    /\ index' = RemoveSlices(index, i \ Remaining(i))
    /\ jobs' = [jobs EXCEPT ![w] = Job("planned", i, Remaining(i))]
    /\ UNCHANGED <<durableVars, up, unregistered, cache, inFlight, blocked,
                   redo, hydrate, sinkVars, torn, bounds>>

\* A manifest that yields no work is released again; when all its slices are
\* done they leave the planner.
SkipManifest(i) ==
    /\ CanPlan
    /\ Ready(i)
    /\ ~Resumable(i)
    /\ manifests' = [manifests EXCEPT ![i] = "pending"]
    /\ index' = IF i \cap inFlight = {} /\ SegmentsOf(i) \subseteq cache
                THEN RemoveSlices(index, i) ELSE index
    /\ UNCHANGED <<durableVars, up, unregistered, cache, reserved, inFlight,
                   jobs, blocked, redo, hydrate, sinkVars, torn, bounds>>

\* plan_ready and work_from_planned_group: any group of available slices.
\* Ready manifests are preferred; one that yields no work uses up a slot.
PlanGroup(w, i) ==
    /\ CanPlan
    /\ jobs[w] = NoJob
    /\ \/ \A m \in Ids : Ready(m) /\ manifests[m] = "pending" => ~Resumable(m)
       \/ \E m \in Ids : Ready(m) /\ ~Resumable(m)
    /\ \A s \in i : index[s] = "available"
    /\ SegmentsOf(i) \subseteq cache
    /\ index' = [s \in Slices |-> IF s \in i THEN "reserved" ELSE index[s]]
    /\ jobs' = [jobs EXCEPT ![w] = Job("planned", i, i)]
    /\ UNCHANGED <<durableVars, up, unregistered, cache, manifests, reserved,
                   inFlight, blocked, redo, hydrate, sinkVars, torn, bounds>>

-----------------------------------------------------------------------------
(* A job: compact_grouped_work, and compact_copy_work for copy pipelines.  *)

\* try_acquire_sink_conflict: only Append compactions run side by side.
ConflictKeyFree == AppendPolicy \/ \A v \in Workers : jobs[v].pc \notin Running

\* acquire_exact_once_commit_lane; copy jobs do not take the lane.
CommitLaneFree == CopyPipeline \/ \A v \in Workers : jobs[v].pc \notin AtSink

\* Mutant: a slice that is already in flight does not stop the job.
MutMayStart(w) == ConflictKeyFree

\* mark_work_in_flight succeeds and the conflict key is free.
MayStart(w) == jobs[w].entries \cap inFlight = {} /\ ConflictKeyFree

\* A copy job writes its first row when it calls the sink.
StartsCopy == UNCHANGED <<comp, manifests, index, reserved>>

\* persist_compaction_row with the planned, Pending transaction.
PersistsPending(i) ==
    /\ comp' = [comp EXCEPT ![i] = "pending"]
    /\ UpsertManifest(i, "pending")

\* The slices are marked in flight and the job starts to build its stream.
JobStart(w) ==
    /\ up /\ Yielded
    /\ jobs[w].pc = "planned"
    /\ MayStart(w)
    /\ inFlight' = inFlight \cup jobs[w].entries
    /\ jobs' = [jobs EXCEPT ![w].pc = "building"]
    /\ IF CopyPipeline THEN StartsCopy ELSE PersistsPending(jobs[w].id)
    /\ UNCHANGED <<row, done, up, unregistered, cache, blocked, redo, hydrate,
                   sinkVars, torn, bounds>>

\* A slice is in flight, the conflict key is taken or the Pending row cannot
\* be written: the reservation is released and the lane blocked until the
\* next cycle.
JobRefused(w) ==
    /\ up /\ Yielded
    /\ jobs[w].pc = "planned"
    /\ \/ ~MayStart(w) /\ UNCHANGED failures
       \/ failures < MaxFailures /\ failures' = failures + 1
    /\ index' = ReleaseRefs(index, manifests, jobs[w].id)
    /\ reserved' = reserved \ {jobs[w].id}
    /\ jobs' = [jobs EXCEPT ![w] = NoJob]
    /\ blocked' = TRUE
    /\ UNCHANGED <<durableVars, up, unregistered, cache, manifests, inFlight,
                   redo, hydrate, sinkVars, torn, redoFailures, crashes, hydrates>>

PayloadPresent(S) == \A s \in S : row[SegmentOf[s]] = "live"

\* The stream is built, the exactly-once commit lane is free: the Sent row is
\* written and the sink called with the id as its idempotency key.
JobSend(w) ==
    /\ up /\ Yielded
    /\ jobs[w].pc = "building"
    /\ PayloadPresent(jobs[w].entries)
    /\ CommitLaneFree
    /\ comp' = [comp EXCEPT ![jobs[w].id] = "sent"]
    /\ UpsertManifest(jobs[w].id, "sent")
    /\ requests' = requests \cup
                    {[id |-> jobs[w].id, entries |-> jobs[w].entries]}
    /\ jobs' = [jobs EXCEPT ![w].pc = "sent"]
    /\ UNCHANGED <<row, done, up, unregistered, cache, inFlight, blocked, redo,
                   hydrate, ledger, delivered, torn, bounds>>

Bump(n) == IF n < 2 THEN n + 1 ELSE n

\* The sink applies a call, also one whose caller timed out or crashed.  An
\* id in the ledger is recognised and skipped.
SinkLands(q) ==
    /\ q \in requests
    /\ requests' = requests \ {q}
    /\ ledger' = ledger \cup {q.id}
    /\ delivered' = [s \in Slices |->
                        IF s \in q.entries /\ q.id \notin ledger
                        THEN Bump(delivered[s]) ELSE delivered[s]]
    /\ UNCHANGED <<durableVars, up, unregistered, plannerVars, inFlight, jobs,
                   blocked, redo, hydrate, torn, bounds>>

\* Mutant: a call that timed out is taken for applied.
MutTimeoutIsOk(w) ==
    /\ up /\ Yielded
    /\ jobs[w].pc = "sent"
    /\ jobs' = [jobs EXCEPT ![w].pc = "acking"]
    /\ UNCHANGED <<durableVars, up, unregistered, plannerVars, inFlight,
                   blocked, redo, hydrate, sinkVars, torn, bounds>>

\* The sink answers Ok.
SinkOk(w) ==
    /\ up /\ Yielded
    /\ jobs[w].pc = "sent"
    /\ jobs[w].id \in ledger
    /\ requests' = requests \
                    {[id |-> jobs[w].id, entries |-> jobs[w].entries]}
    /\ jobs' = [jobs EXCEPT ![w].pc = "acking"]
    /\ UNCHANGED <<durableVars, up, unregistered, plannerVars, inFlight,
                   blocked, redo, hydrate, ledger, delivered, torn, bounds>>

\* The Acked row is written, the record dropped (upsert_manifest) and the
\* slices leave the planner (tombstone_grouped_work).
JobAck(w) ==
    /\ up
    /\ jobs[w].pc = "acking"
    /\ comp' = [comp EXCEPT ![jobs[w].id] = "acked"]
    /\ manifests' = [manifests EXCEPT ![jobs[w].id] = "none"]
    /\ reserved' = reserved \ {jobs[w].id}
    /\ index' = RemoveSlices(index, jobs[w].id)
    /\ jobs' = [jobs EXCEPT ![w] =
                    [pc |-> "reclaiming", id |-> jobs[w].id,
                     entries |-> jobs[w].entries,
                     todo |-> SegmentsOf(jobs[w].entries)]]
    /\ UNCHANGED <<row, done, up, unregistered, cache, inFlight, blocked, redo,
                   hydrate, sinkVars, torn, bounds>>

\* What complete_slices_and_reclaim and flush_acked_batch do to the segments
\* of S: the bits are set; a segment whose bits are all set loses its row, its
\* payload and its place in cache and planner (after_reclaim).
SetDone(S) ==
    LET bits == done \cup {s \in S : row[SegmentOf[s]] = "live"}
        full == {g \in SegmentsOf(S) : row[g] = "live" /\ SlicesOf(g) \subseteq bits}
    IN  /\ done' = bits
        /\ row' = [g \in Segments |-> IF g \in full THEN "reclaimed" ELSE row[g]]
        /\ cache' = cache \ full
        /\ index' = RemoveSlices(index, {s \in Slices : SegmentOf[s] \in full})

\* Mutant: the segment is dropped as soon as the job's own slices are done.
MutReclaimsEarly(w, g) ==
    /\ up
    /\ jobs[w].pc = "reclaiming"
    /\ g \in jobs[w].todo
    /\ row' = [row EXCEPT ![g] = "reclaimed"]
    /\ cache' = cache \ {g}
    /\ index' = RemoveSlices(index, SlicesOf(g))
    /\ done' = done \cup (jobs[w].entries \cap SlicesOf(g))
    /\ jobs' = [jobs EXCEPT ![w].todo = @ \ {g}]
    /\ UNCHANGED <<comp, up, unregistered, manifests, reserved, inFlight,
                   blocked, redo, hydrate, sinkVars, torn, bounds>>

\* One segment of the job.  A row that is already gone only clears the cache.
CompleteSlicesAndReclaim(w, g) ==
    /\ up
    /\ jobs[w].pc = "reclaiming"
    /\ g \in jobs[w].todo
    /\ IF row[g] = "live"
       THEN SetDone(jobs[w].entries \cap SlicesOf(g))
       ELSE /\ cache' = cache \ {g}
            /\ index' = RemoveSlices(index, SlicesOf(g))
            /\ UNCHANGED <<row, done>>
    /\ jobs' = [jobs EXCEPT ![w].todo = @ \ {g}]
    /\ UNCHANGED <<comp, up, unregistered, manifests, reserved, inFlight,
                   blocked, redo, hydrate, sinkVars, torn, bounds>>

\* The work guard: release_work_in_flight.
ReleaseWork(w, m) ==
    /\ inFlight' = inFlight \ jobs[w].entries
    /\ jobs' = [jobs EXCEPT ![w] = NoJob]
    /\ manifests' = m
    /\ reserved' = reserved \ {jobs[w].id}
    /\ index' = ReleaseRefs(index, m, jobs[w].id)

\* remove_manifest: slices fenced by nothing but the record become available.
Unfence(idx, i) ==
    LET m == [manifests EXCEPT ![i] = "none"]
    IN  [s \in Slices |->
            IF manifests[i] # "none" /\ s \in i /\ idx[s] = "fenced"
                /\ ~IsFenced(m, s)
            THEN "available" ELSE idx[s]]

\* The row is deleted (delete_compaction, remove_compaction_row) and the job
\* ends.  A record that a hydrate put back meanwhile is removed.
JobDone(w) ==
    /\ up
    /\ jobs[w].pc = "reclaiming"
    /\ jobs[w].todo = {}
    /\ comp[jobs[w].id] # "none"
    /\ comp' = [comp EXCEPT ![jobs[w].id] = "none"]
    /\ inFlight' = inFlight \ jobs[w].entries
    /\ jobs' = [jobs EXCEPT ![w] = NoJob]
    /\ manifests' = [manifests EXCEPT ![jobs[w].id] = "none"]
    /\ reserved' = reserved \ {jobs[w].id}
    /\ index' = ReleaseRefs(Unfence(index, jobs[w].id), manifests', jobs[w].id)
    /\ UNCHANGED <<row, done, up, unregistered, cache, blocked, redo, hydrate,
                   sinkVars, torn, bounds>>

\* The job returns an error by itself: the payload is gone, or the row it
\* wants to delete is (DeleteCond::Exists).
Doomed(w) ==
    \/ jobs[w].pc = "building" /\ ~PayloadPresent(jobs[w].entries)
    \/ /\ jobs[w].pc = "reclaiming"
       /\ jobs[w].todo = {}
       /\ comp[jobs[w].id] = "none"

\* A step of the job fails: a read, a catalog commit, a sink error or its
\* timeout.  The guard releases the work, the lane is blocked.
JobFails(w) ==
    /\ up
    /\ jobs[w].pc \in Running
    /\ Yielded \/ jobs[w].pc \in MidPoll
    /\ \/ Doomed(w) /\ UNCHANGED failures
       \/ failures < MaxFailures /\ failures' = failures + 1
    /\ ReleaseWork(w, manifests)
    /\ blocked' = TRUE
    /\ UNCHANGED <<durableVars, up, unregistered, cache, redo, hydrate,
                   sinkVars, torn, redoFailures, crashes, hydrates>>

-----------------------------------------------------------------------------
(* Redo of acknowledged compactions.                                       *)

\* Mutant: a Sent row is taken for acknowledged.
MutRedoesSent == {i \in Ids : comp[i] \in {"sent", "acked"}}

\* apply_acked_in_memory: Acked rows, and rows whose slices are all done.
AckedIds ==
    {i \in Ids :
        \/ comp[i] = "acked"
        \/ comp[i] # "none" /\ \A s \in i : SliceIsDone(s)}

\* redo_acked_durable_batches with flush_acked_batch: bits, reclaims and the
\* deletion of the rows in one catalog transaction.  The planner's records
\* are not touched.
Flush(I) ==
    /\ SetDone(UNION I)
    /\ comp' = [i \in Ids |-> IF i \in I THEN "none" ELSE comp[i]]

\* run_compaction_cycle starts: the previous cycle has drained its jobs, the
\* redo runs (a failure is only logged), the lane is unblocked.
NewCycle ==
    /\ up
    /\ \A w \in Workers : jobs[w] = NoJob
    /\ blocked' = FALSE
    /\ \/ Flush(AckedIds) /\ UNCHANGED redoFailures
       \/ /\ redoFailures < MaxRedoFailures
          /\ AckedIds # {}
          /\ redoFailures' = redoFailures + 1
          /\ UNCHANGED <<row, done, comp, cache, index>>
    /\ UNCHANGED <<up, unregistered, manifests, reserved, inFlight, jobs, redo,
                   hydrate, sinkVars, torn, failures, crashes, hydrates>>

\* The task of spawn_durable_redo flushes the ids found at startup, whatever
\* the state of their rows is by now.
BackgroundRedo ==
    /\ up
    /\ redo # {}
    /\ redo' = {}
    /\ \/ Flush({i \in redo : comp[i] # "none"}) /\ UNCHANGED redoFailures
       \/ /\ redoFailures < MaxRedoFailures
          /\ redoFailures' = redoFailures + 1
          /\ UNCHANGED <<row, done, comp, cache, index>>
    /\ UNCHANGED <<up, unregistered, manifests, reserved, inFlight, jobs,
                   blocked, hydrate, sinkVars, torn, failures, crashes,
                   hydrates>>

-----------------------------------------------------------------------------
(* Crash and restart.                                                      *)

Crash ==
    /\ up
    /\ crashes < MaxCrashes
    /\ crashes' = crashes + 1
    /\ up' = FALSE
    /\ torn' = (torn \/ \E i \in Ids : comp[i] = "acked" /\ Remaining(i) # {})
    /\ unregistered' = {}
    /\ cache' = {}
    /\ index' = [s \in Slices |-> "absent"]
    /\ manifests' = [i \in Ids |-> "none"]
    /\ reserved' = {}
    /\ inFlight' = {}
    /\ jobs' = [w \in Workers |-> NoJob]
    /\ blocked' = TRUE
    /\ redo' = {}
    /\ hydrate' = NoHydrate
    /\ UNCHANGED <<durableVars, sinkVars, failures, redoFailures, hydrates>>

\* Mutant: a Sent row is not resumed, its slices are grouped anew.
MutHydratesPending == {i \in Ids : comp[i] = "pending"}

\* The records hydrate_from_catalog installs: every row that is not Acked, a
\* Sent one as Pending.
HydratedRows == {i \in Ids : comp[i] \in {"pending", "sent"}}

Records(I) == [i \in Ids |-> IF i \in I THEN "pending" ELSE "none"]

LiveSegments == {g \in Segments : row[g] = "live"}

\* wal_startup before the compactor runs: hydrate_from_catalog rebuilds cache
\* and planner, the ids to redo are handed to the background task.
Startup ==
    /\ ~up
    /\ up' = TRUE
    /\ cache' = LiveSegments
    /\ manifests' = Records(HydratedRows)
    /\ index' = [s \in Slices |->
                    IF SliceIsDone(s) THEN "absent"
                    ELSE IF IsFenced(manifests', s) THEN "fenced" ELSE "available"]
    /\ redo' = AckedIds
    /\ UNCHANGED <<durableVars, unregistered, reserved, inFlight, jobs,
                   blocked, hydrate, sinkVars, torn, bounds>>

-----------------------------------------------------------------------------
(* The disk-pressure thread refreshes the planner while jobs run           *)
(* (attempt_pause_escape, sweep_pressure_safe).                            *)

HydrateBegin ==
    /\ up
    /\ hydrate = NoHydrate
    /\ hydrates < MaxHydrates
    /\ hydrates' = hydrates + 1
    /\ cache' = cache \cap LiveSegments
    /\ hydrate' = [pc |-> "check", live |-> LiveSegments, todo |-> LiveSegments]
    /\ UNCHANGED <<durableVars, up, unregistered, index, manifests, reserved,
                   inFlight, jobs, blocked, redo, sinkVars, torn, failures,
                   redoFailures, crashes>>

\* segment_cache_register reads the done bits without holding the index.  A
\* segment whose row and payload are gone by now is skipped as unreadable.
HydrateCheck(g) ==
    /\ up
    /\ hydrate.pc = "check"
    /\ g \in hydrate.todo
    /\ hydrate' = IF row[g] # "live"
                  THEN [hydrate EXCEPT !.todo = @ \ {g}]
                  ELSE [pc |-> "register", live |-> hydrate.live,
                        todo |-> hydrate.todo \ {g}, seg |-> g,
                        fresh |-> {s \in SlicesOf(g) : ~SliceIsDone(s)}]
    /\ UNCHANGED <<durableVars, up, unregistered, plannerVars, inFlight, jobs,
                   blocked, redo, sinkVars, torn, bounds>>

HydrateRegister ==
    /\ up
    /\ hydrate.pc = "register"
    /\ cache' = cache \cup {hydrate.seg}
    /\ index' = RegisterSegment(index, manifests, hydrate.seg, hydrate.fresh)
    /\ hydrate' = [pc |-> "check", live |-> hydrate.live, todo |-> hydrate.todo]
    /\ UNCHANGED <<durableVars, up, unregistered, manifests, reserved,
                   inFlight, jobs, blocked, redo, sinkVars, torn, bounds>>

HydrateRows ==
    /\ up
    /\ hydrate.pc = "check"
    /\ hydrate.todo = {}
    /\ hydrate' = [pc |-> "install", live |-> hydrate.live, rows |-> HydratedRows]
    /\ UNCHANGED <<durableVars, up, unregistered, plannerVars, inFlight, jobs,
                   blocked, redo, sinkVars, torn, bounds>>

\* drop_segments_not_in and install_manifests: the records are replaced and
\* lose their reserved flags; slices are fenced, never unfenced.
HydrateInstall ==
    /\ up
    /\ hydrate.pc = "install"
    /\ manifests' = Records(hydrate.rows)
    /\ reserved' = {}
    /\ index' = [s \in Slices |->
                    IF SegmentOf[s] \notin hydrate.live THEN "absent"
                    ELSE IF index[s] # "absent" /\ IsFenced(manifests', s)
                         THEN "fenced" ELSE index[s]]
    /\ hydrate' = NoHydrate
    /\ UNCHANGED <<durableVars, up, unregistered, cache, inFlight, jobs,
                   blocked, redo, sinkVars, torn, bounds>>

-----------------------------------------------------------------------------
JobStep(w) ==
    \/ JobStart(w)
    \/ JobRefused(w)
    \/ JobSend(w)
    \/ SinkOk(w)
    \/ JobAck(w)
    \/ \E g \in Segments : CompleteSlicesAndReclaim(w, g)
    \/ JobDone(w)
    \/ JobFails(w)

PlanStep(w) ==
    \/ \E i \in Ids : PlanManifest(w, i)
    \/ \E i \in Ids : PlanGroup(w, i)

HydrateStep ==
    \/ \E g \in Segments : HydrateCheck(g)
    \/ HydrateRegister
    \/ HydrateRows
    \/ HydrateInstall

Next ==
    \/ \E g \in Segments : CommitSegment(g)
    \/ \E g \in Segments : SegmentCacheRegister(g)
    \/ \E w \in Workers : PlanStep(w)
    \/ \E i \in Ids : SkipManifest(i)
    \/ \E w \in Workers : JobStep(w)
    \/ \E q \in requests : SinkLands(q)
    \/ NewCycle
    \/ BackgroundRedo
    \/ Crash
    \/ Startup
    \/ HydrateBegin
    \/ HydrateStep

Spec == Init /\ [][Next]_vars

\* The compactor task keeps being polled and keeps starting cycles, the sink
\* answers the call of a waiting job, time passes (a Sent record gets stale),
\* and a crashed process is started again.
Fairness ==
    /\ \A g \in Segments : WF_vars(SegmentCacheRegister(g))
    /\ WF_vars(\E w \in Workers : PlanStep(w))
    /\ \A w \in Workers : WF_vars(JobStep(w))
    /\ \A w \in Workers : WF_vars(\E q \in requests :
                jobs[w].pc = "sent" /\ q.id = jobs[w].id /\ SinkLands(q))
    /\ WF_vars(NewCycle)
    /\ WF_vars(BackgroundRedo)
    /\ WF_vars(Startup)
    /\ WF_vars(HydrateStep)

FairSpec == Spec /\ Fairness

-----------------------------------------------------------------------------
(* Properties.                                                             *)

\* A slice whose done bit is set, or whose segment was dropped, has been
\* applied by the sink: setting bits (complete_slices_and_reclaim,
\* flush_acked_batch) and dropping segments never lose data, whatever fails,
\* crashes or races.
DoneIsDelivered ==
    \A s \in Slices :
        s \in done \/ row[SegmentOf[s]] = "reclaimed" => delivered[s] > 0

\* All slices of an Acked compaction row have been applied, so the redo after
\* a restart may set their bits without asking the sink.
AckedIsDelivered ==
    \A i \in Ids : comp[i] = "acked" => \A s \in i : delivered[s] > 0

\* No two running jobs work on one slice: COMPACTION_IN_FLIGHT excludes it
\* even where a hydrate has made a slice available twice.
InFlightExclusive ==
    \A v, w \in Workers :
        v # w /\ jobs[v].pc \in Running /\ jobs[w].pc \in Running
            => jobs[v].entries \cap jobs[w].entries = {}

Undisturbed == ~torn /\ hydrates = 0

\* As long as no crash found an Acked row without its done bits, and the
\* pressure thread did not refresh the planner, every slice is applied at most
\* once: fences and stable ids survive failed jobs, timeouts, late sink calls
\* and the other crashes.
WrittenOnceUndisturbed ==
    Undisturbed => \A s \in Slices : delivered[s] < 2

\* Likewise, a job never reads a segment that has been dropped.
ReadsLivePayload ==
    Undisturbed =>
        \A w \in Workers : jobs[w].pc \in {"planned", "building"}
            => PayloadPresent(jobs[w].entries)

\* No slice is forgotten: while the process runs, a registered slice that is
\* not done is available, reserved by a job, fenced by a manifest record that
\* can be resumed, or covered by an Acked row that the redo will finish.
NothingForgotten ==
    up =>
        \A s \in Slices :
            \/ SliceIsDone(s)
            \/ SegmentOf[s] \in unregistered
            \/ index[s] = "available"
            \/ \E w \in Workers : jobs[w].pc # "idle" /\ s \in jobs[w].id
            \/ index[s] = "fenced" /\ IsFenced(manifests, s)
            \/ \E i \in Ids : s \in i /\ comp[i] = "acked"

\* What docs/docs/concepts/exactly-once.md promises of a destination with
\* exactly-once writes: every slice is applied at most once.
WrittenOnce == \A s \in Slices : delivered[s] < 2

Drained ==
    /\ \A g \in Segments : row[g] # "live"
    /\ \A i \in Ids : comp[i] = "none"

\* Unless a crash tears an acknowledgement, the compactor always gets back to
\* the state where every committed segment has been applied and dropped and no
\* compaction row is left: failed jobs are resumed, Sent rows retried, Acked
\* rows redone.
AlwaysDrains == []<>(Drained \/ torn)
=============================================================================
