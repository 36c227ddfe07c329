------------------------------ MODULE WalWriter ------------------------------
(***************************************************************************)
(* The single WAL writer task (src/buffer/wal_writer.rs) and the live      *)
(* segment it flushes (src/buffer/ingest_buffer.rs).                       *)
(*                                                                         *)
(* Ingest threads submit commit units through a bounded channel.  The      *)
(* writer appends the batches of a unit to the live segment one lock       *)
(* acquisition at a time, remembers the unit in pending_acks, and spawns a *)
(* persist task whenever none is running.  The acks are taken when the     *)
(* task is SPAWNED; the live segment is taken when the task first RUNS, on *)
(* another thread; the batches appended in between belong to the snapshot  *)
(* although their acks do not.                                             *)
(*                                                                         *)
(* A part is one batch of one unit, <<unit, index>>.  "durable" and "lost" *)
(* are history: what a persist committed, and what a failed or panicked    *)
(* persist dropped (the code never puts a snapshot back into live).        *)
(***************************************************************************)
EXTENDS Naturals, Sequences, FiniteSets

CONSTANTS
    Units,          \* the commit units the ingest threads produce
    Requests,       \* request ids of runtime sources (submit_id # 0)
    NoRequest,      \* submit_id = 0
    UnitRequest,    \* the request a unit belongs to
    NumBatches,     \* how many non-empty batches a unit has
    Flushers,       \* callers of flush_and_drain
    Capacity,       \* channel capacity, writer_capacity
    MaxFailures,    \* bound on failing persists
    MaxPanics,      \* bound on panicking persists
    MaxAppendErrors \* bound on failing appends

ASSUME CapacityAssumption == Capacity \in Nat \ {0}

ASSUME BoundsAssumption ==
    /\ MaxFailures \in Nat
    /\ MaxPanics \in Nat
    /\ MaxAppendErrors \in Nat

ASSUME UnitsAssumption ==
    /\ NoRequest \notin Requests
    /\ UnitRequest \in [Units -> Requests \cup {NoRequest}]
    /\ NumBatches \in [Units -> Nat]
    /\ IsFiniteSet(Units)

VARIABLES
    queue,      \* the mpsc channel into the writer
    live,       \* SEGMENT_LIVE: parts appended and not yet taken
    pending,    \* pending_acks: units waiting for a persist
    offsets,    \* pending_offsets.is_some()
    persist,    \* the spawned persist task and the acks it carries
    writer,     \* where run_writer is
    count,      \* WAL_WRITER_PENDING_COUNT
    registry,   \* REQUEST_ACKS: remaining units of a request, 0 when absent
    reqResult,  \* what the request's oneshot was sent
    unitState,  \* what became of a unit
    flushState, \* what became of a flush command
    covered,    \* history: units a flush command was queued behind
    durable,    \* history: parts committed to the WAL catalog
    lost,       \* history: parts of failed or panicked persists
    failures,   \* persists that failed so far
    panics,     \* persists that panicked so far
    appendErrors \* appends that failed so far

registryVars == <<registry, reqResult>>
historyVars == <<durable, lost>>
boundVars == <<failures, panics, appendErrors>>
vars == <<queue, live, pending, offsets, persist, writer, count, registry,
          reqResult, unitState, flushState, covered, durable, lost,
          failures, panics, appendErrors>>

PartsOf(u) == {u} \X (1..NumBatches[u])

AllParts == UNION {PartsOf(u) : u \in Units}

UnitsOf(r) == {u \in Units : UnitRequest[u] = r}

SubmitCommand(u) == [kind |-> "submit", unit |-> u]

FlushCommand(f) == [kind |-> "flush", caller |-> f]

Commands == [kind : {"submit"}, unit : Units]
                \cup [kind : {"flush"}, caller : Flushers]

Idle == [phase |-> "none", acks |-> {}, snap |-> {}]

Finished == {"ok", "err", "panic"}

AtLoop == [pc |-> "loop"]

Unresolved == {"queued", "appending", "pending"}

TypeOK ==
    /\ queue \in Seq(Commands)
    /\ Len(queue) <= Capacity
    /\ live \subseteq AllParts
    /\ pending \subseteq Units
    /\ offsets \in BOOLEAN
    /\ persist \in [phase : {"none", "spawned", "writing"} \cup Finished,
                    acks : SUBSET Units, snap : SUBSET AllParts]
    /\ writer \in {AtLoop}
            \cup [pc : {"append"}, unit : Units, done : Nat]
            \cup [pc : {"flush1", "flush2"}, caller : Flushers]
    /\ count \in Nat
    /\ registry \in [Requests -> Nat]
    /\ reqResult \in [Requests -> {"unregistered", "waiting", "ok", "err"}]
    /\ unitState \in [Units -> Unresolved \cup
                        {"new", "ok", "err", "refused", "empty", "dropped"}]
    /\ flushState \in [Flushers -> {"new", "queued", "serving", "ok", "refused"}]
    /\ covered \in [Flushers -> SUBSET Units]
    /\ durable \subseteq AllParts
    /\ lost \subseteq AllParts
    /\ failures \in 0..MaxFailures
    /\ panics \in 0..MaxPanics
    /\ appendErrors \in 0..MaxAppendErrors

Init ==
    /\ queue = <<>>
    /\ live = {}
    /\ pending = {}
    /\ offsets = FALSE
    /\ persist = Idle
    /\ writer = AtLoop
    /\ count = 0
    /\ registry = [r \in Requests |-> 0]
    /\ reqResult = [r \in Requests |-> "unregistered"]
    /\ unitState = [u \in Units |-> "new"]
    /\ flushState = [f \in Flushers |-> "new"]
    /\ covered = [f \in Flushers |-> {}]
    /\ durable = {}
    /\ lost = {}
    /\ failures = 0
    /\ panics = 0
    /\ appendErrors = 0

-----------------------------------------------------------------------------
(* The request registry.                                                   *)

Hits(us, r) == Cardinality({u \in us : UnitRequest[u] = r})

\* Mutant: an error counts the unit down instead of resolving the request.
MutErrorCountsDown(us, result) ==
    LET left(r) == IF Hits(us, r) >= registry[r] THEN 0
                                                 ELSE registry[r] - Hits(us, r)
    IN  /\ registry' = [r \in Requests |-> left(r)]
        /\ reqResult' = [r \in Requests |->
                IF registry[r] > 0 /\ left(r) = 0 THEN result ELSE reqResult[r]]

\* complete_request_unit for every unit of us, all with the same result.  A
\* request that is no longer registered ignores the call; an error resolves
\* it at once.
CompleteRequestUnits(us, result) ==
    LET hit(r) == registry[r] > 0 /\ Hits(us, r) > 0
        left(r) == IF Hits(us, r) >= registry[r] THEN 0
                                                 ELSE registry[r] - Hits(us, r)
    IN  /\ registry' = [r \in Requests |->
                CASE hit(r) /\ result = "err" -> 0
                  [] hit(r) /\ result = "ok"  -> left(r)
                  [] OTHER                    -> registry[r]]
        /\ reqResult' = [r \in Requests |->
                CASE hit(r) /\ result = "err"              -> "err"
                  [] hit(r) /\ result = "ok" /\ left(r) = 0 -> "ok"
                  [] OTHER                                 -> reqResult[r]]

\* register_request_ack: a request of no units is answered at once.
RegisterRequestAck(r) ==
    /\ reqResult[r] = "unregistered"
    /\ LET expected == Cardinality(UnitsOf(r))
       IN  /\ registry' = [registry EXCEPT ![r] = expected]
           /\ reqResult' = [reqResult EXCEPT ![r] =
                                IF expected = 0 THEN "ok" ELSE "waiting"]
    /\ UNCHANGED <<queue, live, pending, offsets, persist, writer, count,
                   unitState, flushState, covered, historyVars, boundVars>>

\* The host registers a request before it hands its tasks to ingest.
Started(u) ==
    /\ unitState[u] = "new"
    /\ UnitRequest[u] # NoRequest => reqResult[UnitRequest[u]] # "unregistered"

-----------------------------------------------------------------------------
(* Ingest threads.                                                         *)

Submit(u) ==
    /\ Started(u)
    /\ Len(queue) < Capacity
    /\ queue' = Append(queue, SubmitCommand(u))
    /\ unitState' = [unitState EXCEPT ![u] = "queued"]
    /\ UNCHANGED <<live, pending, offsets, persist, writer, count,
                   registryVars, flushState, covered, historyVars, boundVars>>

\* send_with_timeout gives up on a full channel, and ingest fails the
\* request; the transform and dead-letter errors before it do the same.
FailRequest(u) ==
    /\ Started(u)
    /\ unitState' = [unitState EXCEPT ![u] = "refused"]
    /\ CompleteRequestUnits({u}, "err")
    /\ UNCHANGED <<queue, live, pending, offsets, persist, writer, count,
                   flushState, covered, historyVars, boundVars>>

\* A task whose records were all filtered out produces no batch.
CompleteRequestWithoutWal(u) ==
    /\ Started(u)
    /\ NumBatches[u] = 0
    /\ unitState' = [unitState EXCEPT ![u] = "empty"]
    /\ CompleteRequestUnits({u}, "ok")
    /\ UNCHANGED <<queue, live, pending, offsets, persist, writer, count,
                   flushState, covered, historyVars, boundVars>>

FlushAndDrain(f) ==
    /\ flushState[f] = "new"
    /\ Len(queue) < Capacity
    /\ queue' = Append(queue, FlushCommand(f))
    /\ flushState' = [flushState EXCEPT ![f] = "queued"]
    /\ covered' = [covered EXCEPT ![f] =
                        {u \in Units : unitState[u] # "new"}]
    /\ UNCHANGED <<live, pending, offsets, persist, writer, count,
                   registryVars, unitState, historyVars, boundVars>>

\* The channel stayed full for WAL_SUBMIT_TIMEOUT.
FlushTimeout(f) ==
    /\ flushState[f] = "new"
    /\ Len(queue) = Capacity
    /\ flushState' = [flushState EXCEPT ![f] = "refused"]
    /\ UNCHANGED <<queue, live, pending, offsets, persist, writer, count,
                   registryVars, unitState, covered, historyVars, boundVars>>

-----------------------------------------------------------------------------
(* The persist task.                                                       *)

\* try_start_persist, on the values the caller has reached: a running task,
\* nothing to do or no offsets database each make it a no-op.  All pending
\* acks go with the task; the live segment does not, yet.
TryStartPersist(alive, acks, haveOffsets, task) ==
    IF task.phase # "none" \/ (acks = {} /\ alive = {}) \/ ~haveOffsets
    THEN /\ pending' = acks
         /\ persist' = task
    ELSE /\ pending' = {}
         /\ persist' = [phase |-> "spawned", acks |-> acks, snap |-> {}]

\* Mutant: live is copied into the snapshot, not taken.
MutTakeCopies ==
    /\ persist.phase = "spawned"
    /\ persist' = IF live = {} THEN [persist EXCEPT !.phase = "ok"]
                  ELSE [persist EXCEPT !.phase = "writing", !.snap = live]
    /\ UNCHANGED <<queue, live, pending, offsets, writer, count, registryVars,
                   unitState, flushState, covered, historyVars, boundVars>>

\* flush_live_segment_to_wal up to the write: an empty live segment is a
\* successful flush of nothing.
TakeLive ==
    /\ persist.phase = "spawned"
    /\ persist' = IF live = {} THEN [persist EXCEPT !.phase = "ok"]
                  ELSE [persist EXCEPT !.phase = "writing", !.snap = live]
    /\ live' = {}
    /\ UNCHANGED <<queue, pending, offsets, writer, count, registryVars,
                   unitState, flushState, covered, historyVars, boundVars>>

\* Mutant: only the batches of the units whose acks the task carries are
\* written.
MutWritesAckedOnly ==
    /\ persist.phase = "writing"
    /\ persist' = [persist EXCEPT !.phase = "ok", !.snap = {}]
    /\ durable' = durable \cup {p \in persist.snap : p[1] \in persist.acks}
    /\ UNCHANGED <<queue, live, pending, offsets, writer, count, registryVars,
                   unitState, flushState, covered, lost, boundVars>>

PersistCommits ==
    /\ persist.phase = "writing"
    /\ persist' = [persist EXCEPT !.phase = "ok", !.snap = {}]
    /\ durable' = durable \cup persist.snap
    /\ UNCHANGED <<queue, live, pending, offsets, writer, count, registryVars,
                   unitState, flushState, covered, lost, boundVars>>

\* The snapshot is dropped: live is not restored.
PersistFails ==
    /\ persist.phase = "writing"
    /\ failures < MaxFailures
    /\ failures' = failures + 1
    /\ persist' = [persist EXCEPT !.phase = "err", !.snap = {}]
    /\ lost' = lost \cup persist.snap
    /\ UNCHANGED <<queue, live, pending, offsets, writer, count, registryVars,
                   unitState, flushState, covered, durable, panics,
                   appendErrors>>

\* The catalog commit went through and the offset publish after it did not.
PersistFailsAfterCommit ==
    /\ persist.phase = "writing"
    /\ failures < MaxFailures
    /\ failures' = failures + 1
    /\ persist' = [persist EXCEPT !.phase = "err", !.snap = {}]
    /\ durable' = durable \cup persist.snap
    /\ UNCHANGED <<queue, live, pending, offsets, writer, count, registryVars,
                   unitState, flushState, covered, lost, panics, appendErrors>>

PersistPanics ==
    /\ persist.phase \in {"spawned", "writing"}
    /\ panics < MaxPanics
    /\ panics' = panics + 1
    /\ persist' = [persist EXCEPT !.phase = "panic", !.snap = {}]
    /\ lost' = lost \cup persist.snap
    /\ UNCHANGED <<queue, live, pending, offsets, writer, count, registryVars,
                   unitState, flushState, covered, durable, failures,
                   appendErrors>>

PersistTask == TakeLive \/ PersistCommits \/ PersistFails
                    \/ PersistFailsAfterCommit \/ PersistPanics

-----------------------------------------------------------------------------
(* The writer task.                                                        *)

\* Mutant: the acks queued since the task was spawned are answered with it.
MutAnswersPending ==
    /\ unitState' = [u \in Units |-> IF u \in persist.acks \cup pending
                                     THEN persist.phase ELSE unitState[u]]
    /\ count' = count - Cardinality(persist.acks)
    /\ CompleteRequestUnits(persist.acks, persist.phase)

\* apply_persist_result: every ack of the task gets the task's result.  A
\* panicked task took its acks with it: their senders are dropped, the
\* registry and the counters keep them.
ApplyPersistResult ==
    IF persist.phase \in {"ok", "err"}
    THEN /\ unitState' = [u \in Units |-> IF u \in persist.acks
                                          THEN persist.phase ELSE unitState[u]]
         /\ count' = count - Cardinality(persist.acks)
         /\ CompleteRequestUnits(persist.acks, persist.phase)
    ELSE /\ unitState' = [u \in Units |-> IF u \in persist.acks
                                          THEN "dropped" ELSE unitState[u]]
         /\ UNCHANGED <<count, registry, reqResult>>

\* The select branch on the join handle.
JoinPersist ==
    /\ writer = AtLoop
    /\ persist.phase \in Finished
    /\ ApplyPersistResult
    /\ TryStartPersist(live, pending, offsets, Idle)
    /\ UNCHANGED <<queue, live, offsets, writer, flushState, covered,
                   historyVars, boundVars>>

\* Mutant: the pending counter is not raised.
MutNotCounted ==
    /\ writer = AtLoop
    /\ queue # <<>>
    /\ Head(queue).kind = "submit"
    /\ LET u == Head(queue).unit
       IN  /\ writer' = [pc |-> "append", unit |-> u, done |-> 0]
           /\ unitState' = [unitState EXCEPT ![u] = "appending"]
    /\ queue' = Tail(queue)
    /\ offsets' = TRUE
    /\ UNCHANGED <<live, pending, persist, count, registryVars, flushState,
                   covered, historyVars, boundVars>>

\* queue_submit begins: the counters first, then the batches one by one.
RecvSubmit ==
    /\ writer = AtLoop
    /\ queue # <<>>
    /\ Head(queue).kind = "submit"
    /\ LET u == Head(queue).unit
       IN  /\ writer' = [pc |-> "append", unit |-> u, done |-> 0]
           /\ unitState' = [unitState EXCEPT ![u] = "appending"]
    /\ queue' = Tail(queue)
    /\ offsets' = TRUE
    /\ count' = count + 1
    /\ UNCHANGED <<live, pending, persist, registryVars, flushState, covered,
                   historyVars, boundVars>>

\* One iteration of append_batches_to_live: SEGMENT_LIVE is locked for this
\* batch only, so the persist task may take live between two of them.
AppendBatch ==
    /\ writer.pc = "append"
    /\ writer.done < NumBatches[writer.unit]
    /\ live' = live \cup {<<writer.unit, writer.done + 1>>}
    /\ writer' = [writer EXCEPT !.done = @ + 1]
    /\ UNCHANGED <<queue, pending, offsets, persist, count, registryVars,
                   unitState, flushState, covered, historyVars, boundVars>>

\* Mutant: the branch leaves the persist to the timer.
MutWaitsForTimer ==
    /\ writer.pc = "append"
    /\ writer.done = NumBatches[writer.unit]
    /\ unitState' = [unitState EXCEPT ![writer.unit] = "pending"]
    /\ writer' = AtLoop
    /\ pending' = pending \cup {writer.unit}
    /\ UNCHANGED <<queue, live, offsets, persist, count, registryVars,
                   flushState, covered, historyVars, boundVars>>

\* The append succeeded: the unit joins pending_acks, and the select branch
\* ends with try_start_persist.
QueueSubmitted ==
    /\ writer.pc = "append"
    /\ writer.done = NumBatches[writer.unit]
    /\ unitState' = [unitState EXCEPT ![writer.unit] = "pending"]
    /\ writer' = AtLoop
    /\ TryStartPersist(live, pending \cup {writer.unit}, offsets, persist)
    /\ UNCHANGED <<queue, live, offsets, count, registryVars, flushState,
                   covered, historyVars, boundVars>>

\* Mutant: a failed append returns before try_start_persist.
MutErrorReturnsEarly ==
    /\ writer.pc = "append"
    /\ writer.done < NumBatches[writer.unit]
    /\ appendErrors < MaxAppendErrors
    /\ appendErrors' = appendErrors + 1
    /\ unitState' = [unitState EXCEPT ![writer.unit] = "err"]
    /\ count' = count - 1
    /\ CompleteRequestUnits({writer.unit}, "err")
    /\ writer' = AtLoop
    /\ UNCHANGED <<queue, live, pending, persist, offsets, flushState, covered,
                   historyVars, failures, panics>>

\* A batch cannot be added: the unit is answered with the error, and the
\* batches already appended stay in the live segment.
AppendFails ==
    /\ writer.pc = "append"
    /\ writer.done < NumBatches[writer.unit]
    /\ appendErrors < MaxAppendErrors
    /\ appendErrors' = appendErrors + 1
    /\ unitState' = [unitState EXCEPT ![writer.unit] = "err"]
    /\ count' = count - 1
    /\ CompleteRequestUnits({writer.unit}, "err")
    /\ writer' = AtLoop
    /\ TryStartPersist(live, pending, offsets, persist)
    /\ UNCHANGED <<queue, live, offsets, flushState, covered, historyVars,
                   failures, panics>>

\* Mutant: a flush only joins the persist that is running.
MutFlushJoinsOnce ==
    /\ writer = AtLoop
    /\ queue # <<>>
    /\ Head(queue).kind = "flush"
    /\ LET f == Head(queue).caller
       IN  /\ writer' = [pc |-> "flush2", caller |-> f]
           /\ flushState' = [flushState EXCEPT ![f] = "serving"]
    /\ queue' = Tail(queue)
    /\ offsets' = TRUE
    /\ UNCHANGED <<live, pending, persist, count, registryVars, unitState,
                   covered, historyVars, boundVars>>

RecvFlush ==
    /\ writer = AtLoop
    /\ queue # <<>>
    /\ Head(queue).kind = "flush"
    /\ LET f == Head(queue).caller
       IN  /\ writer' = [pc |-> "flush1", caller |-> f]
           /\ flushState' = [flushState EXCEPT ![f] = "serving"]
    /\ queue' = Tail(queue)
    /\ offsets' = TRUE
    /\ UNCHANGED <<live, pending, persist, count, registryVars, unitState,
                   covered, historyVars, boundVars>>

\* Mutant: the join waits for a task although none was spawned.
MutJoinNeedsTask ==
    /\ persist.phase \in Finished
    /\ ApplyPersistResult

\* join_persist when there may be nothing to join.
JoinIfRunning ==
    /\ persist.phase \in Finished \cup {"none"}
    /\ IF persist.phase = "none"
       THEN UNCHANGED <<unitState, count, registry, reqResult>>
       ELSE ApplyPersistResult

\* The running persist is joined, and one more is started.
FlushJoinsRunning ==
    /\ writer.pc = "flush1"
    /\ JoinIfRunning
    /\ TryStartPersist(live, pending, offsets, Idle)
    /\ writer' = [writer EXCEPT !.pc = "flush2"]
    /\ UNCHANGED <<queue, live, offsets, flushState, covered, historyVars,
                   boundVars>>

\* That one is joined, and the caller is told Ok, whatever the result.
FlushReplies ==
    /\ writer.pc = "flush2"
    /\ JoinIfRunning
    /\ persist' = Idle
    /\ flushState' = [flushState EXCEPT ![writer.caller] = "ok"]
    /\ offsets' = FALSE
    /\ writer' = AtLoop
    /\ UNCHANGED <<queue, live, pending, covered, historyVars, boundVars>>

WriterTask == JoinPersist \/ RecvSubmit \/ AppendBatch \/ QueueSubmitted
                \/ AppendFails \/ RecvFlush \/ FlushJoinsRunning \/ FlushReplies

Callers ==
    \/ \E r \in Requests : RegisterRequestAck(r)
    \/ \E u \in Units : Submit(u) \/ FailRequest(u) \/ CompleteRequestWithoutWal(u)
    \/ \E f \in Flushers : FlushAndDrain(f) \/ FlushTimeout(f)

Next == Callers \/ PersistTask \/ WriterTask

Spec == Init /\ [][Next]_vars

\* Both tasks are polled by the tokio runtime as long as they are ready.
FairSpec == Spec /\ WF_vars(PersistTask) /\ WF_vars(WriterTask)

-----------------------------------------------------------------------------
(* Properties.                                                             *)

\* Parts of unit u the writer has appended so far.
Appended(u) ==
    CASE unitState[u] \in {"pending", "ok", "dropped"} -> PartsOf(u)
      [] unitState[u] = "appending" ->
            {p \in PartsOf(u) : p[2] <= writer.done}
      [] OTHER -> {}

\* Held in memory only: in the live segment or in the snapshot a persist task
\* has taken.
Volatile == live \cup persist.snap

\* No batch is duplicated or forgotten on its way through the writer: live,
\* the snapshot in flight, what was committed and what a failed persist
\* dropped never overlap, and together they hold every batch of every unit
\* append_batches_to_live accepted, although acks and batches are taken at
\* different times.
BatchesConserved ==
    /\ live \cap persist.snap = {}
    /\ Volatile \cap (durable \cup lost) = {}
    /\ durable \cap lost = {}
    /\ \A u \in Units : Appended(u) \subseteq Volatile \cup durable \cup lost

\* A unit is answered Ok only when none of its batches is still in memory:
\* the persist whose result it gets took live after the unit was appended,
\* even when it was torn across two snapshots.
AckedIsSettled ==
    \A u \in Units : unitState[u] = "ok" => PartsOf(u) \cap Volatile = {}

\* As long as no persist has failed or panicked, an Ok answer means every
\* batch of the unit is committed.
AckedIsDurableWithoutFailure ==
    failures = 0 /\ panics = 0 =>
        \A u \in Units : unitState[u] = "ok" => PartsOf(u) \subseteq durable

\* A runtime source's request is answered Ok only when each of its units was
\* answered Ok or had nothing to write, whatever order units of different
\* requests are joined, refused or failed in.
RequestOkMeansUnitsOk ==
    \A r \in Requests : reqResult[r] = "ok" =>
        \A u \in UnitsOf(r) : unitState[u] \in {"ok", "empty"}

\* A flush command is answered only when every unit queued before it has been
\* answered and has left memory.
FlushDrainsCovered ==
    panics = 0 =>
        \A f \in Flushers : flushState[f] = "ok" =>
            \A u \in covered[f] : /\ unitState[u] \notin Unresolved
                                  /\ PartsOf(u) \cap Volatile = {}

\* has_pending_work answers FALSE only when every unit the writer has
\* received is answered and none of an answered-Ok unit is in memory:
\* wait_for_completion relies on it before a checkpoint and at shutdown.
HasPendingWork == count > 0 \/ live # {}

IdleMeansSettled ==
    ~HasPendingWork =>
        \A u \in Units :
            /\ unitState[u] \notin {"appending", "pending", "dropped"}
            /\ unitState[u] = "ok" => PartsOf(u) \cap Volatile = {}

\* The timer branch and the size threshold of run_writer need pending acks
\* without a running persist.  Every path of the loop ends in
\* try_start_persist, so the writer never waits for either: acks are delayed
\* by a running persist only.
PendingHasPersist ==
    writer = AtLoop /\ pending # {} => persist.phase # "none"

\* Every unit the channel accepted is answered, unless a persist task panicked
\* and took its acks with it.
EveryUnitAnswered ==
    \A u \in Units :
        unitState[u] \in Unresolved
            ~> unitState[u] \in {"ok", "err"} \/ panics > 0

\* Every flush command the channel accepted is answered.
EveryFlushAnswered ==
    \A f \in Flushers : flushState[f] = "queued" ~> flushState[f] = "ok"

\* Batches left in the live segment, also those of a unit whose append
\* failed, leave memory without waiting for another unit, unless a persist
\* task panicked before it took them.
LiveIsFlushed == live # {} ~> live = {} \/ panics > 0

\* What the comments at the failure path of flush_live_segment_to_wal say
\* ("Persist failed without ACK. Source retries."): no unit of a failed
\* persist is answered Ok.
FailedPersistNotAcked ==
    \A u \in Units : unitState[u] = "ok" => PartsOf(u) \cap lost = {}
=============================================================================
