---------------------------- MODULE SourceSession ----------------------------
(* One session between the host and a runtime source plugin                *)
(* (src/runtime_plugins/host.rs sync_runtime_input_plugin, and the SDK's   *)
(* source_sync.rs and append_source_runtime.rs on the plugin's side).      *)
(*                                                                         *)
(* The plugin reads its source in batches, sends each as a request on the  *)
(* data channel, waits for the acknowledgements, and stores a checkpoint   *)
(* behind the batches it waited for.  The host spawns one ingest task per  *)
(* request, at most SpawnCap at a time, forwards what the WAL writer       *)
(* answers on the control channel, and persists a checkpoint only after    *)
(* draining the ingest and flushing the WAL.  When the source ends the     *)
(* plugin drains its acknowledgements and sends Completed.                 *)
(*                                                                         *)
(* A batch is one request of one ingest task; its position is its request  *)
(* id and what a checkpoint names.  The WAL is what WalWriter promises: a  *)
(* unit answered Ok is durable, except one whose batches a failing persist *)
(* has taken while its ack stayed behind (slipped, see                     *)
(* WalWriter!FailedPersistNotAcked).  Sync mode only; offset hints take    *)
(* the way of checkpoints and end in WalHandle!HintCall.                   *)
EXTENDS Integers, Sequences, FiniteSets

CONSTANTS
    NumBatches,   \* batches the source holds
    Window,       \* max_in_flight_requests
    SpawnCap,     \* runtime_source_blocking_spawn_cap
    MaxFailures,  \* bound on failing tasks, units, flushes and commits
    MaxRestarts   \* bound on restarts of the host

Batches == 1..NumBatches

ASSUME SessionAssumption ==
    /\ NumBatches \in Nat \ {0} /\ Window \in Nat \ {0} /\ SpawnCap \in Nat \ {0}
    /\ MaxFailures \in Nat /\ MaxRestarts \in Nat

VARIABLES
    plugin,      \* what the plugin's main future does
    next,        \* the next batch it reads
    waiting,     \* submitted batches it has not waited for
    stored,      \* position of the last checkpoint it sent
    pending,     \* IngestAckState.pending
    completed,   \* IngestAckState.completed, "none" where there is no entry
    data,        \* frames on the data channel
    control,     \* frames of the plugin on the control channel
    answers,     \* IngestAck frames on the control channel
    host,        \* where sync_runtime_input_plugin is
    frame,       \* the data frame it is handling
    ctlDone,     \* control_completed
    dataDone,    \* data_completed
    unflushed,   \* saw_unflushed_batches
    task,        \* pending_source_tasks, by batch
    unit,        \* the batch in the ingest queue or the WAL writer
    request,     \* the batch's entry in REQUEST_ACKS
    acks,        \* ingest_ack_rx
    durable,     \* batches in the WAL
    slipped,     \* history: answered Ok although a failed persist took them
    checkpoint,  \* position of the persisted checkpoint
    failures, restarts

pluginVars == <<plugin, next, waiting, stored>>
clientVars == <<pending, completed>>
channelVars == <<data, control, answers>>
hostVars == <<host, frame, ctlDone, dataDone, unflushed>>
ingestVars == <<task, unit, request, acks>>
walVars == <<durable, slipped, checkpoint>>
boundVars == <<failures, restarts>>
vars == <<pluginVars, clientVars, channelVars, hostVars, ingestVars, walVars, boundVars>>

NoFrame == [kind |-> "none", at |-> 0]
Frame(k, n) == [kind |-> k, at |-> n]
Ack(b, r) == [at |-> b, result |-> r]

----------------------------------------------------------------------------
(* The plugin and its acknowledgement client                               *)

Init ==
    /\ plugin = "run" /\ next = 1 /\ waiting = {} /\ stored = 0
    /\ pending = {} /\ completed = [b \in Batches |-> "none"]
    /\ data = <<>> /\ control = <<>> /\ answers = <<>>
    /\ host = "loop" /\ frame = NoFrame /\ ctlDone = FALSE /\ dataDone = FALSE
    /\ unflushed = FALSE
    /\ task = [b \in Batches |-> "none"] /\ unit = [b \in Batches |-> "none"]
    /\ request = [b \in Batches |-> "none"] /\ acks = {}
    /\ durable = {} /\ slipped = {} /\ checkpoint = 0 /\ failures = 0 /\ restarts = 0

\* Mutant of Submit: wait_for_capacity is left out.
MutNoCapacity ==
    /\ plugin = "run" /\ next \in Batches
    /\ pending' = pending \cup {next}
    /\ data' = Append(data, Frame("batch", next))
    /\ waiting' = waiting \cup {next} /\ next' = next + 1
    /\ UNCHANGED <<plugin, stored, completed, control, answers, hostVars, ingestVars,
                   walVars, boundVars>>

\* submit_payload_tasks_accepted: wait_for_capacity, register_request, write.
Submit ==
    /\ plugin = "run" /\ next \in Batches
    /\ Cardinality(pending) < Window
    /\ pending' = pending \cup {next}
    /\ data' = Append(data, Frame("batch", next))
    /\ waiting' = waiting \cup {next} /\ next' = next + 1
    /\ UNCHANGED <<plugin, stored, completed, control, answers, hostVars, ingestVars,
                   walVars, boundVars>>

\* Mutant of WaitPayloadAcks: an error counts as an answer.
MutWaitForAnyAnswer ==
    /\ plugin = "run" /\ waiting # {}
    /\ \A b \in waiting : completed[b] # "none"
    /\ completed' = [b \in Batches |-> IF b \in waiting THEN "none" ELSE completed[b]]
    /\ waiting' = {}
    /\ UNCHANGED <<plugin, control, next, stored, pending, data, answers, hostVars,
                   ingestVars, walVars, boundVars>>

\* wait_payload_acks for the batches submitted so far: wait_for_request_ids
\* takes the results that are there and stops at the first error.
WaitPayloadAcks ==
    /\ plugin = "run" /\ waiting # {}
    /\ \/ /\ \A b \in waiting : completed[b] = "ok"
          /\ completed' = [b \in Batches |-> IF b \in waiting THEN "none" ELSE completed[b]]
          /\ waiting' = {}
          /\ UNCHANGED <<plugin, control>>
       \/ \E b \in waiting :
             /\ completed[b] = "err"
             /\ completed' = [completed EXCEPT ![b] = "none"]
             /\ plugin' = "gone" /\ control' = Append(control, "error")
             /\ UNCHANGED waiting
    /\ UNCHANGED <<next, stored, pending, data, answers, hostVars, ingestVars, walVars,
                   boundVars>>

\* store_checkpoint, which every plugin that has checkpoints calls after it
\* waited for the batches the checkpoint covers.
StoreCheckpoint ==
    /\ plugin = "run" /\ waiting = {} /\ stored < next - 1
    /\ data' = Append(data, Frame("checkpoint", next - 1))
    /\ stored' = next - 1
    /\ UNCHANGED <<plugin, next, waiting, clientVars, control, answers, hostVars, ingestVars,
                   walVars, boundVars>>

\* sync returns Ok: the source is read to its end and its batches waited for.
SyncReturns ==
    /\ plugin = "run" /\ next \notin Batches /\ waiting = {}
    /\ plugin' = "drain"
    /\ UNCHANGED <<next, waiting, stored, clientVars, channelVars, hostVars, ingestVars,
                   walVars, boundVars>>

\* wait_for_runtime_source_once_idle drops the future of sync, wherever it
\* is: batches may be submitted and not waited for.
OnceIdle ==
    /\ plugin = "run" /\ plugin' = "drain"
    /\ UNCHANGED <<next, waiting, stored, clientVars, channelVars, hostVars, ingestVars,
                   walVars, boundVars>>

\* The source fails: Error frame and exit.
SyncErrs ==
    /\ plugin = "run" /\ failures < MaxFailures
    /\ plugin' = "gone" /\ control' = Append(control, "error")
    /\ failures' = failures + 1
    /\ UNCHANGED <<next, waiting, stored, clientVars, data, answers, hostVars, ingestVars,
                   walVars, restarts>>

\* Mutant of DrainPayloadAcks: the results are dropped unread.
MutDrainIgnoresErrors ==
    /\ plugin = "drain" /\ pending = {}
    /\ plugin' = "gone"
    /\ completed' = [b \in Batches |-> "none"]
    /\ control' = Append(control, "completed")
    /\ UNCHANGED <<next, waiting, stored, pending, data, answers, hostVars, ingestVars,
                   walVars, boundVars>>

\* drain_payload_acks, then Completed; an error leaves without a frame.
DrainPayloadAcks ==
    /\ plugin = "drain" /\ pending = {}
    /\ plugin' = "gone"
    /\ completed' = [b \in Batches |-> "none"]
    /\ control' = IF \E b \in Batches : completed[b] = "err"
                  THEN control ELSE Append(control, "completed")
    /\ UNCHANGED <<next, waiting, stored, pending, data, answers, hostVars, ingestVars,
                   walVars, boundVars>>

\* run_runtime_source_host_frame_loop: resolve_ack.
ResolveAck ==
    /\ plugin # "gone" /\ answers # <<>>
    /\ LET ack == Head(answers) IN
       /\ pending' = pending \ {ack.at}
       /\ completed' = [completed EXCEPT ![ack.at] = ack.result]
    /\ answers' = Tail(answers)
    /\ UNCHANGED <<pluginVars, data, control, hostVars, ingestVars, walVars, boundVars>>

\* The plugin process dies; its frames already sent can still be read.
PluginDies ==
    /\ plugin # "gone" /\ host \notin {"ok", "err"} /\ failures < MaxFailures
    /\ plugin' = "gone" /\ failures' = failures + 1
    /\ UNCHANGED <<next, waiting, stored, clientVars, channelVars, hostVars, ingestVars,
                   walVars, restarts>>

----------------------------------------------------------------------------
(* The host                                                                *)

Unjoined == {b \in Batches : task[b] \in {"running", "ok", "err"}}
Finished == {b \in Batches : task[b] \in {"ok", "err"}}

\* complete_request_unit: the first error, or the only unit, closes the
\* request and the spawned waiter sends the ack.
CloseRequest(b, result) ==
    /\ request' = [request EXCEPT ![b] = "none"]
    /\ acks' = IF request[b] = "open" THEN acks \cup {Ack(b, result)} ELSE acks

\* Every return of an error drops the connection, which kills the child.
HostErr ==
    /\ host' = "err" /\ plugin' = "gone"
    /\ UNCHANGED <<next, waiting, stored, frame, ctlDone, dataDone, unflushed>>

\* A control frame: Completed drains the ingest before the loop goes on.
TakeControlFrame ==
    /\ host = "loop" /\ ~ctlDone /\ control # <<>>
    /\ control' = Tail(control)
    /\ \/ /\ Head(control) = "completed"
          /\ ctlDone' = TRUE /\ host' = "drain" /\ frame' = Frame("completed", 0)
          /\ UNCHANGED <<pluginVars, dataDone, unflushed>>
       \/ Head(control) = "error" /\ HostErr
    /\ UNCHANGED <<clientVars, data, answers, ingestVars, walVars, boundVars>>

\* The control channel is closed before Completed, whatever is still unread
\* on the data channel.
ControlEof ==
    /\ host = "loop" /\ ~ctlDone /\ plugin = "gone" /\ control = <<>>
    /\ HostErr
    /\ UNCHANGED <<clientVars, channelVars, ingestVars, walVars, boundVars>>

\* Forwards one ack; a send to a plugin that is gone may fail.
ForwardAck ==
    /\ host = "loop"
    /\ \E ack \in acks :
          /\ acks' = acks \ {ack}
          /\ \/ answers' = Append(answers, ack) /\ UNCHANGED <<pluginVars, hostVars>>
             \/ plugin = "gone" /\ HostErr /\ UNCHANGED answers
    /\ UNCHANGED <<clientVars, data, control, task, unit, request, walVars, boundVars>>

\* The next data frame: a batch registers its request and is throttled, a
\* checkpoint drains the ingest first.
TakeDataFrame ==
    /\ host = "loop" /\ data # <<>>
    /\ frame' = Head(data) /\ data' = Tail(data)
    /\ \/ /\ Head(data).kind = "batch"
          /\ host' = "throttle"
          /\ request' = [request EXCEPT ![Head(data).at] = "open"]
       \/ Head(data).kind = "checkpoint" /\ host' = "drain" /\ UNCHANGED request
    /\ UNCHANGED <<pluginVars, clientVars, control, answers, ctlDone, dataDone, unflushed,
                   task, unit, acks, walVars, boundVars>>

\* runtime_source_throttle_blocking_tasks joins finished tasks; the error of
\* any of them fails the request at hand and ends the session.
ThrottleJoins ==
    /\ host = "throttle"
    /\ \E b \in Finished :
          /\ task' = [task EXCEPT ![b] = "joined"]
          /\ \/ task[b] = "ok" /\ UNCHANGED <<pluginVars, hostVars, request, acks>>
             \/ task[b] = "err" /\ HostErr /\ CloseRequest(frame.at, "err")
    /\ UNCHANGED <<clientVars, channelVars, unit, walVars, boundVars>>

SpawnTask ==
    /\ host = "throttle" /\ Finished = {} /\ Cardinality(Unjoined) < SpawnCap
    /\ task' = [task EXCEPT ![frame.at] = "running"]
    /\ unflushed' = TRUE /\ host' = "loop" /\ frame' = NoFrame
    /\ UNCHANGED <<pluginVars, clientVars, channelVars, ctlDone, dataDone, unit, request,
                   acks, walVars, boundVars>>

\* drain_runtime_source_tasks: the error of a task ends the session.
DrainJoins ==
    /\ host = "drain"
    /\ \E b \in Finished :
          /\ task' = [task EXCEPT ![b] = "joined"]
          /\ \/ task[b] = "ok" /\ UNCHANGED <<pluginVars, hostVars>>
             \/ task[b] = "err" /\ HostErr
    /\ UNCHANGED <<clientVars, channelVars, unit, request, acks, walVars, boundVars>>

\* drain_runtime_source_ingest is done when wait_for_completion is: no task,
\* and nothing in the ingest queue or the WAL writer.
DrainDone ==
    /\ host = "drain" /\ Unjoined = {} /\ \A b \in Batches : unit[b] # "queued"
    /\ \/ frame.kind = "completed" /\ host' = "loop" /\ frame' = NoFrame
       \/ frame.kind # "completed" /\ host' = "flush" /\ UNCHANGED frame
    /\ UNCHANGED <<pluginVars, clientVars, channelVars, ctlDone, dataDone, unflushed,
                   ingestVars, walVars, boundVars>>

\* flush_all_segments, when batches were seen since the last one.
Flush ==
    /\ host = "flush"
    /\ \/ /\ unflushed' = FALSE
          /\ host' = IF frame.kind = "checkpoint" THEN "persist" ELSE "ok"
          /\ UNCHANGED <<pluginVars, frame, ctlDone, dataDone, failures>>
       \/ /\ unflushed /\ failures < MaxFailures
          /\ HostErr /\ failures' = failures + 1
    /\ UNCHANGED <<clientVars, channelVars, ingestVars, walVars, restarts>>

\* persist_checkpoint; a commit that reports an error may have landed.
PersistCheckpoint ==
    /\ host = "persist"
    /\ \/ /\ checkpoint' = frame.at
          /\ host' = "loop" /\ frame' = NoFrame
          /\ UNCHANGED <<pluginVars, ctlDone, dataDone, unflushed, failures>>
       \/ /\ failures < MaxFailures /\ failures' = failures + 1
          /\ checkpoint' \in {checkpoint, frame.at}
          /\ HostErr
    /\ UNCHANGED <<clientVars, channelVars, ingestVars, durable, slipped, restarts>>

\* The data channel is closed and read to its end.
DataEof ==
    /\ host = "loop" /\ ~dataDone /\ data = <<>> /\ plugin = "gone"
    /\ dataDone' = TRUE
    /\ UNCHANGED <<pluginVars, clientVars, channelVars, host, frame, ctlDone, unflushed,
                   ingestVars, walVars, boundVars>>

\* Mutant of Finish: the data channel is not read to its end.
MutFinishOnCompleted ==
    /\ host = "loop" /\ ctlDone
    /\ host' = "drain" /\ frame' = Frame("finish", 0)
    /\ UNCHANGED <<pluginVars, clientVars, channelVars, ctlDone, dataDone, unflushed,
                   ingestVars, walVars, boundVars>>

\* Both channels are done: drain, flush, leave the loop.
Finish ==
    /\ host = "loop" /\ ctlDone /\ dataDone
    /\ host' = "drain" /\ frame' = Frame("finish", 0)
    /\ UNCHANGED <<pluginVars, clientVars, channelVars, ctlDone, dataDone, unflushed,
                   ingestVars, walVars, boundVars>>

----------------------------------------------------------------------------
(* Ingest tasks and WAL units, which outlive the session's end             *)

\* Mutant of RunTask: an error does not fail the request.
MutErrorUnanswered(b) ==
    /\ task[b] = "running"
    /\ \/ /\ task' = [task EXCEPT ![b] = "ok"] /\ unit' = [unit EXCEPT ![b] = "queued"]
          /\ UNCHANGED failures
       \/ /\ failures < MaxFailures /\ failures' = failures + 1
          /\ task' = [task EXCEPT ![b] = "err"] /\ UNCHANGED unit
    /\ UNCHANGED <<pluginVars, clientVars, channelVars, hostVars, request, acks, walVars,
                   restarts>>

\* ingest_source_payload_batches_into_core queues the batch and returns; an
\* error (capacity, panic) fails the request, queued or not.
RunTask(b) ==
    /\ task[b] = "running"
    /\ \/ /\ task' = [task EXCEPT ![b] = "ok"] /\ unit' = [unit EXCEPT ![b] = "queued"]
          /\ UNCHANGED <<request, acks, failures>>
       \/ /\ failures < MaxFailures /\ failures' = failures + 1
          /\ task' = [task EXCEPT ![b] = "err"]
          /\ unit' \in {unit, [unit EXCEPT ![b] = "queued"]}
          /\ CloseRequest(b, "err")
    /\ UNCHANGED <<pluginVars, clientVars, channelVars, hostVars, walVars, restarts>>

\* The unit is persisted, or skipped because its offset is published.
UnitPersists(b) ==
    /\ unit[b] = "queued"
    /\ unit' = [unit EXCEPT ![b] = "done"]
    /\ durable' = durable \cup {b}
    /\ CloseRequest(b, "ok")
    /\ UNCHANGED <<pluginVars, clientVars, channelVars, hostVars, task, slipped, checkpoint,
                   boundVars>>

\* Processing or persisting fails; when a failing persist has taken the rows
\* and not the ack, the next persist answers Ok.
UnitFails(b) ==
    /\ unit[b] = "queued" /\ failures < MaxFailures /\ failures' = failures + 1
    /\ unit' = [unit EXCEPT ![b] = "done"]
    /\ \/ CloseRequest(b, "err") /\ UNCHANGED slipped
       \/ CloseRequest(b, "ok") /\ slipped' = slipped \cup {b}
    /\ UNCHANGED <<pluginVars, clientVars, channelVars, hostVars, task, durable, checkpoint,
                   restarts>>

\* Mutant of Restart: the session starts from the beginning.
MutCheckpointNotLoaded ==
    /\ host # "ok" /\ restarts < MaxRestarts /\ restarts' = restarts + 1
    /\ plugin' = "run" /\ next' = 1 /\ waiting' = {} /\ stored' = 0
    /\ pending' = {} /\ completed' = [b \in Batches |-> "none"]
    /\ data' = <<>> /\ control' = <<>> /\ answers' = <<>>
    /\ host' = "loop" /\ frame' = NoFrame /\ ctlDone' = FALSE /\ dataDone' = FALSE
    /\ unflushed' = FALSE
    /\ task' = [b \in Batches |-> "none"] /\ unit' = [b \in Batches |-> "none"]
    /\ request' = [b \in Batches |-> "none"] /\ acks' = {}
    /\ UNCHANGED <<walVars, failures>>

\* The host process stops, by a crash or after an error, and a later run
\* starts a session from the persisted checkpoint.
Restart ==
    /\ host # "ok" /\ restarts < MaxRestarts /\ restarts' = restarts + 1
    /\ plugin' = "run" /\ next' = checkpoint + 1 /\ waiting' = {} /\ stored' = checkpoint
    /\ pending' = {} /\ completed' = [b \in Batches |-> "none"]
    /\ data' = <<>> /\ control' = <<>> /\ answers' = <<>>
    /\ host' = "loop" /\ frame' = NoFrame /\ ctlDone' = FALSE /\ dataDone' = FALSE
    /\ unflushed' = FALSE
    /\ task' = [b \in Batches |-> "none"] /\ unit' = [b \in Batches |-> "none"]
    /\ request' = [b \in Batches |-> "none"] /\ acks' = {}
    /\ UNCHANGED <<walVars, failures>>

----------------------------------------------------------------------------

PluginStep == Submit \/ WaitPayloadAcks \/ StoreCheckpoint \/ SyncReturns \/ DrainPayloadAcks

HostStep == \/ TakeControlFrame \/ ControlEof \/ ForwardAck \/ TakeDataFrame
            \/ ThrottleJoins \/ SpawnTask \/ DrainJoins \/ DrainDone \/ Flush
            \/ PersistCheckpoint \/ DataEof \/ Finish

IngestStep == \E b \in Batches : RunTask(b) \/ UnitPersists(b) \/ UnitFails(b)

Next == PluginStep \/ ResolveAck \/ HostStep \/ IngestStep \/ OnceIdle
        \/ SyncErrs \/ PluginDies \/ Restart

Spec == Init /\ [][Next]_vars

(* Every thread is scheduled.  The plugin is stuck as long as capacity or  *)
(* acknowledgements do not come; the idle timeout, errors, deaths and      *)
(* restarts are not owed.                                                  *)
FairSpec == /\ Spec
            /\ WF_vars(PluginStep) /\ WF_vars(ResolveAck)
            /\ WF_vars(HostStep) /\ WF_vars(IngestStep)
----------------------------------------------------------------------------
(* Properties                                                              *)

TypeOK ==
    /\ plugin \in {"run", "drain", "gone"}
    /\ next \in 1..(NumBatches + 1) /\ waiting \subseteq Batches /\ stored \in 0..NumBatches
    /\ pending \subseteq Batches /\ Cardinality(pending) <= Window
    /\ completed \in [Batches -> {"none", "ok", "err"}]
    /\ data \in Seq([kind : {"batch", "checkpoint"}, at : Batches])
    /\ control \in Seq({"completed", "error"})
    /\ answers \in Seq([at : Batches, result : {"ok", "err"}])
    /\ host \in {"loop", "throttle", "drain", "flush", "persist", "ok", "err"}
    /\ frame \in [kind : {"none", "batch", "checkpoint", "completed", "finish"},
                  at : 0..NumBatches]
    /\ ctlDone \in BOOLEAN /\ dataDone \in BOOLEAN /\ unflushed \in BOOLEAN
    /\ task \in [Batches -> {"none", "running", "ok", "err", "joined"}]
    /\ unit \in [Batches -> {"none", "queued", "done"}]
    /\ request \in [Batches -> {"none", "open"}]
    /\ acks \subseteq [at : Batches, result : {"ok", "err"}]
    /\ durable \subseteq Batches /\ slipped \subseteq Batches
    /\ checkpoint \in 0..NumBatches
    /\ failures \in 0..MaxFailures /\ restarts \in 0..MaxRestarts

Covered(n) == 1..n \subseteq durable \cup slipped

\* A persisted checkpoint never lies beyond a batch that is not in the WAL:
\* what a later session skips is not lost.  The plugin's wait
\* (wait_for_request_ids) carries this; the drain and flush of the host do
\* not, as flush_all_segments answers Ok for batches that failed.
CheckpointCovered == Covered(checkpoint)

\* A session that ends Ok has every batch it read in the WAL, those submitted
\* and never waited for included (drain_payload_acks before Completed).
OkIsDurable == host = "ok" => Covered(next - 1)

\* A session that ends Ok has persisted the last checkpoint the plugin sent:
\* Completed travels on another channel and must not overtake it.
OkIsCheckpointed == host = "ok" => checkpoint = stored

\* No step, a restart's first checkpoint included, moves the checkpoint back.
CheckpointAdvances == [][checkpoint' >= checkpoint]_vars

\* The host always gets to the end of a session: no request is left without
\* an answer the plugin waits for.
SessionEnds == []<>(host \in {"ok", "err"})

=============================================================================
