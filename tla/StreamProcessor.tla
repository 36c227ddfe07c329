--------------------------- MODULE StreamProcessor ---------------------------
(***************************************************************************)
(* The stream processor (src/processor/mod.rs): one task that replays the  *)
(* committed WAL segments into keyed aggregates, and the reclaim hold that *)
(* keeps the compactor from dropping a segment the task has not passed.    *)
(*                                                                         *)
(* Segment s is the one committed with catalog seq s; KeyRank is the order *)
(* of the segment ids in the catalog, which are random.  A slice is        *)
(* applied in one store transaction that also writes the cursor, so the    *)
(* cursor is a segment and the number of its slices applied.  The          *)
(* compactor appears only as what finishes the last slices of a segment.   *)
(***************************************************************************)
EXTENDS Naturals, FiniteSets

CONSTANTS
    NumAggs,        \* transform.aggregates, in the order they are listed
    NumSegments,    \* bound on the segments committed
    NumSlices,      \* slices of a segment
    KeyRank,        \* rank of a segment's id among the catalog keys
    Page,           \* PAGE of query_all
    Configs,        \* configuration hashes
    NoConfig,       \* no ProcessorMeta was ever written
    FirstConfig,
    NextConfigs,    \* configurations a restart may come back with
    MaxCrashes      \* bound on crashes

ASSUME SizesAssumption ==
    /\ {NumAggs, NumSegments, NumSlices, Page} \subseteq Nat \ {0}
    /\ MaxCrashes \in Nat

Segments == 1..NumSegments
Aggs == 1..NumAggs
SliceNos == 1..NumSlices

ASSUME KeyAssumption ==
    /\ KeyRank \in [Segments -> Segments]
    /\ \A s, t \in Segments : KeyRank[s] = KeyRank[t] => s = t

ASSUME ConfigAssumption ==
    /\ FirstConfig \in Configs
    /\ NoConfig \notin Configs
    /\ NextConfigs \in [Configs -> SUBSET Configs]
    /\ \A c \in Configs : c \in NextConfigs[c]

VARIABLES
    row,        \* the SegmentRow: none, live, done (all bits set) or gone
    payload,    \* segments whose payload is on disk
    acked,      \* segments an Acked compaction row still covers
    job,        \* the compaction job finishing a segment
    minSeq,     \* MIN_UNCONSUMED_SEQ
    cursor,     \* ProcessorMeta.cursor of each aggregate
    hash,       \* ProcessorMeta.config_hash of each aggregate
    applied,    \* how often a slice is counted in an aggregate
    config,     \* the configuration the process runs with
    proc,       \* where the processor task is
    behind,     \* history: segments committed behind a running listing
    emptied,    \* history: aggregates a rebuild has emptied, meta unwritten
    crashes

storeVars == <<cursor, hash, applied>>
walVars == <<row, payload, acked>>
historyVars == <<behind, emptied>>
vars == <<row, payload, acked, job, minSeq, cursor, hash, applied, config,
          proc, behind, emptied, crashes>>

NoHold == NumSegments + 2   \* u64::MAX
NoJob == [pc |-> "idle", seg |-> 0, reclaim |-> FALSE]
FreshCursor == [seq |-> 0, count |-> 0]
NothingApplied == [s \in Segments |-> [k \in SliceNos |-> 0]]

\* The task's program counter with its locals: the rows listed so far, the
\* last key seen, the aggregate, the segments still to visit for it.
At(pc, rows, after, agg, seg) ==
    [pc |-> pc, rows |-> rows, after |-> after, agg |-> agg, seg |-> seg]
Down == At("down", {}, 0, 1, 0)
Listing == At("list", {}, 0, 1, 0)
Dead == At("dead", {}, 0, 1, 0)

Present == {s \in Segments : row[s] \in {"live", "done"}}

JobType == [pc : {"idle", "acked", "decided", "committed"},
            seg : 0..NumSegments, reclaim : BOOLEAN]

CursorType == [seq : 0..NumSegments, count : 0..NumSlices]

ProcType == [pc : {"down", "open", "rebuild", "list", "visit", "apply",
                   "finish", "reclaim", "dead"},
             rows : SUBSET Segments, after : 0..NumSegments,
             agg : 1..(NumAggs + 1), seg : 0..NumSegments]

TypeOK ==
    /\ row \in [Segments -> {"none", "live", "done", "gone"}]
    /\ payload \subseteq Segments
    /\ acked \subseteq Segments
    /\ job \in JobType
    /\ minSeq \in 0..NoHold
    /\ cursor \in [Aggs -> CursorType]
    /\ hash \in [Aggs -> Configs \cup {NoConfig}]
    /\ applied \in [Aggs -> [Segments -> [SliceNos -> 0..2]]]
    /\ config \in Configs
    /\ proc \in ProcType
    /\ behind \subseteq Segments
    /\ emptied \subseteq Aggs
    /\ crashes \in 0..MaxCrashes

Init ==
    /\ row = [s \in Segments |-> "none"]
    /\ payload = {}
    /\ acked = {}
    /\ job = NoJob
    /\ minSeq = NoHold
    /\ cursor = [a \in Aggs |-> FreshCursor]
    /\ hash = [a \in Aggs |-> NoConfig]
    /\ applied = [a \in Aggs |-> NothingApplied]
    /\ config = FirstConfig
    /\ proc = Down
    /\ behind = {}
    /\ emptied = {}
    /\ crashes = 0

-----------------------------------------------------------------------------
(* Ingest and compaction, as the processor meets them.                     *)

\* commit_new_segment: the payload first, then the row with the next seq.
\* Ingest begins after the services were started.  A listing that has read
\* past the new id does not see the row.
CommitSegment(s) ==
    /\ proc # Down
    /\ row[s] = "none"
    /\ \A t \in 1..(s - 1) : row[t] # "none"
    /\ row' = [row EXCEPT ![s] = "live"]
    /\ payload' = payload \cup {s}
    /\ behind' = IF proc.pc = "list" /\ KeyRank[s] <= proc.after
                 THEN behind \cup {s} ELSE behind
    /\ UNCHANGED <<acked, job, minSeq, storeVars, config, proc, emptied, crashes>>

\* The sink took the last slices of s and the compaction row became Acked.
JobAcks(s) ==
    /\ job = NoJob
    /\ row[s] = "live"
    /\ acked' = acked \cup {s}
    /\ job' = [pc |-> "acked", seg |-> s, reclaim |-> FALSE]
    /\ UNCHANGED <<row, payload, minSeq, storeVars, config, proc, historyVars, crashes>>

AllowsReclaim(s) == s < minSeq

\* complete_slices_and_reclaim reads the row and the hold ...
JobDecides ==
    /\ job.pc = "acked"
    /\ job' = [job EXCEPT !.pc = "decided", !.reclaim = AllowsReclaim(job.seg)]
    /\ UNCHANGED <<walVars, minSeq, storeVars, config, proc, historyVars, crashes>>

\* ... and commits the deletion of the row, or its done bits.
JobCommits ==
    /\ job.pc = "decided"
    /\ row' = [row EXCEPT ![job.seg] = IF job.reclaim THEN "gone" ELSE "done"]
    /\ job' = [job EXCEPT !.pc = "committed"]
    /\ UNCHANGED <<payload, acked, minSeq, storeVars, config, proc, historyVars, crashes>>

\* after_reclaim deletes the payload; then the compaction row goes.
JobFinishes ==
    /\ job.pc = "committed"
    /\ payload' = IF job.reclaim THEN payload \ {job.seg} ELSE payload
    /\ acked' = acked \ {job.seg}
    /\ job' = NoJob
    /\ UNCHANGED <<row, minSeq, storeVars, config, proc, historyVars, crashes>>

\* The done bits could not be committed: the Acked row stays for the redo.
JobFails ==
    /\ job.pc \in {"acked", "decided"}
    /\ job' = NoJob
    /\ UNCHANGED <<walVars, minSeq, storeVars, config, proc, historyVars, crashes>>

\* flush_acked_batch: a segment whose bits are then all set is deleted,
\* without a look at the hold.
Redo(s) ==
    /\ s \in acked
    /\ job.seg # s
    /\ row' = [row EXCEPT ![s] = "gone"]
    /\ payload' = payload \ {s}
    /\ acked' = acked \ {s}
    /\ UNCHANGED <<job, minSeq, storeVars, config, proc, historyVars, crashes>>

-----------------------------------------------------------------------------
(* Start: the compactor service is started first; the hold is set by the   *)
(* spawned task.                                                           *)

StartProcessorService ==
    /\ proc = Down
    /\ proc' = [Down EXCEPT !.pc = "open"]
    /\ UNCHANGED <<walVars, job, minSeq, storeVars, config, historyVars, crashes>>

\* ensure_config for one aggregate whose state is absent or current.
EnsureConfig ==
    /\ proc.pc = "open"
    /\ proc.agg \in Aggs
    /\ hash[proc.agg] \in {NoConfig, config}
    /\ hash' = [hash EXCEPT ![proc.agg] = config]
    /\ proc' = [proc EXCEPT !.agg = @ + 1]
    /\ UNCHANGED <<walVars, job, minSeq, cursor, applied, config, historyVars, crashes>>

\* Mutant: the cursor is reset and the state is kept.
MutRebuildKeepsState ==
    /\ proc.pc = "open"
    /\ proc.agg \in Aggs
    /\ hash[proc.agg] \notin {NoConfig, config}
    /\ proc' = [proc EXCEPT !.pc = "rebuild"]
    /\ UNCHANGED <<walVars, job, minSeq, storeVars, config, historyVars, crashes>>

\* rebuild deletes the state of the aggregate ...
RebuildDeletes ==
    /\ proc.pc = "open"
    /\ proc.agg \in Aggs
    /\ hash[proc.agg] \notin {NoConfig, config}
    /\ applied' = [applied EXCEPT ![proc.agg] = NothingApplied]
    /\ emptied' = emptied \cup {proc.agg}
    /\ proc' = [proc EXCEPT !.pc = "rebuild"]
    /\ UNCHANGED <<walVars, job, minSeq, cursor, hash, config, behind, crashes>>

\* ... and in a later commit writes its meta.
RebuildWritesMeta ==
    /\ proc.pc = "rebuild"
    /\ cursor' = [cursor EXCEPT ![proc.agg] = FreshCursor]
    /\ hash' = [hash EXCEPT ![proc.agg] = config]
    /\ minSeq' = 0
    /\ emptied' = emptied \ {proc.agg}
    /\ proc' = [proc EXCEPT !.pc = "open", !.agg = @ + 1]
    /\ UNCHANGED <<walVars, job, applied, config, behind, crashes>>

\* The hold starts at the aggregate that is furthest behind.
SetHold(a) ==
    /\ proc.pc = "open"
    /\ proc.agg \notin Aggs
    /\ \A b \in Aggs : cursor[a].seq <= cursor[b].seq
    /\ minSeq' = cursor[a].seq
    /\ proc' = Listing
    /\ UNCHANGED <<walVars, job, storeVars, config, historyVars, crashes>>

-----------------------------------------------------------------------------
(* process_available.                                                      *)

\* The next page of live_segment_rows: at most Page rows after the last key.
NextPage ==
    LET beyond == {s \in Present : KeyRank[s] > proc.after}
    IN  {s \in beyond :
            Cardinality({t \in beyond : KeyRank[t] < KeyRank[s]}) < Page}

\* Each page reads the catalog of its moment; a full one is followed by
\* another, from its last key on.
ListFullPage(last) ==
    /\ proc.pc = "list"
    /\ Cardinality(NextPage) >= Page
    /\ last \in NextPage
    /\ \A s \in NextPage : KeyRank[s] <= KeyRank[last]
    /\ proc' = At("list", proc.rows \cup NextPage, KeyRank[last], 1, 0)
    /\ UNCHANGED <<walVars, job, minSeq, storeVars, config, historyVars, crashes>>

\* A short page ends the listing.
ListShortPage ==
    /\ proc.pc = "list"
    /\ Cardinality(NextPage) < Page
    /\ proc' = At("visit", proc.rows \cup NextPage, 0, 1, 0)
    /\ UNCHANGED <<walVars, job, minSeq, storeVars, config, historyVars, crashes>>

\* The rows of the listing not yet visited for the current aggregate.
ToVisit == {s \in proc.rows : s > proc.seg}

\* They are visited in seq order.
NextToVisit(s) == s \in ToVisit /\ \A t \in ToVisit : s <= t

\* A segment behind the cursor is skipped.
SkipSegment(s) ==
    /\ proc.pc = "visit"
    /\ NextToVisit(s)
    /\ cursor[proc.agg].seq > s
    /\ proc' = [proc EXCEPT !.seg = s]
    /\ UNCHANGED <<walVars, job, minSeq, storeVars, config, historyVars, crashes>>

\* process_segment reads the payload into memory.  A payload that is gone is
\* an error, and an error ends the task.
ReadSegment(s) ==
    /\ proc.pc = "visit"
    /\ NextToVisit(s)
    /\ cursor[proc.agg].seq <= s
    /\ proc' = IF s \in payload THEN [proc EXCEPT !.pc = "apply", !.seg = s]
                                ELSE Dead
    /\ UNCHANGED <<walVars, job, minSeq, storeVars, config, historyVars, crashes>>

\* How many slices of segment s the aggregate has applied.
AppliedCount(a, s) == IF cursor[a].seq = s THEN cursor[a].count ELSE 0

\* Mutant: the cursor is not part of the transaction.
MutCursorNotWritten ==
    LET a == proc.agg
        k == AppliedCount(a, proc.seg) + 1
    IN  /\ proc.pc = "apply"
        /\ k \in SliceNos
        /\ applied[a][proc.seg][k] < 2
        /\ applied' = [applied EXCEPT ![a][proc.seg][k] = @ + 1]
        /\ minSeq' = proc.seg
        /\ UNCHANGED <<walVars, job, cursor, hash, config, proc, historyVars, crashes>>

\* Mutant: the hold moves past the segment with its first slice.
MutHoldPastSegment ==
    LET a == proc.agg
        k == AppliedCount(a, proc.seg) + 1
    IN  /\ proc.pc = "apply"
        /\ k \in SliceNos
        /\ applied' = [applied EXCEPT ![a][proc.seg][k] = @ + 1]
        /\ cursor' = [cursor EXCEPT ![a] = [seq |-> proc.seg, count |-> k]]
        /\ minSeq' = proc.seg + 1
        /\ proc' = IF k = NumSlices THEN [proc EXCEPT !.pc = "finish"]
                                    ELSE proc
        /\ UNCHANGED <<walVars, job, hash, config, historyVars, crashes>>

\* apply_events: measures and cursor in one commit, then the hold.
ApplySlice ==
    LET a == proc.agg
        k == AppliedCount(a, proc.seg) + 1
    IN  /\ proc.pc = "apply"
        /\ k \in SliceNos
        /\ applied' = [applied EXCEPT ![a][proc.seg][k] = @ + 1]
        /\ cursor' = [cursor EXCEPT ![a] = [seq |-> proc.seg, count |-> k]]
        /\ minSeq' = proc.seg
        /\ proc' = IF k = NumSlices THEN [proc EXCEPT !.pc = "finish"]
                                    ELSE proc
        /\ UNCHANGED <<walVars, job, hash, config, historyVars, crashes>>

\* A segment with no slice left to apply changes nothing.
NothingToApply ==
    /\ proc.pc = "apply"
    /\ AppliedCount(proc.agg, proc.seg) = NumSlices
    /\ proc' = [proc EXCEPT !.pc = "visit"]
    /\ UNCHANGED <<walVars, job, minSeq, storeVars, config, historyVars, crashes>>

\* After the last slice the hold moves past the segment ...
FinishSegment ==
    /\ proc.pc = "finish"
    /\ minSeq' = proc.seg + 1
    /\ proc' = [proc EXCEPT !.pc = "reclaim"]
    /\ UNCHANGED <<walVars, job, storeVars, config, historyVars, crashes>>

\* ... and reclaim_fully_done_before drops what was only waiting for it, or
\* some of it when a deletion fails: that error is only logged.
ReclaimFullyDone ==
    /\ proc.pc = "reclaim"
    /\ \E free \in SUBSET {s \in Segments : row[s] = "done" /\ AllowsReclaim(s)} :
        /\ row' = [s \in Segments |-> IF s \in free THEN "gone" ELSE row[s]]
        /\ payload' = payload \ free
    /\ proc' = [proc EXCEPT !.pc = "visit"]
    /\ UNCHANGED <<acked, job, minSeq, storeVars, config, historyVars, crashes>>

\* Mutant: the next round drives the first aggregate over the old listing.
MutKeepsListing ==
    /\ proc.pc = "visit"
    /\ ToVisit = {}
    /\ proc' = At("visit", proc.rows, 0, 1, 0)
    /\ UNCHANGED <<walVars, job, minSeq, storeVars, config, historyVars, crashes>>

NextAggregate ==
    /\ proc.pc = "visit"
    /\ ToVisit = {}
    /\ proc' = IF proc.agg < NumAggs
               THEN At("visit", proc.rows, 0, proc.agg + 1, 0)
               ELSE Listing
    /\ UNCHANGED <<walVars, job, minSeq, storeVars, config, historyVars, crashes>>

\* A read, a listing or a commit of the store fails: run_processor_loop
\* returns, the hold stays where it is and nothing starts the task again.
TaskFails ==
    /\ proc.pc \in {"open", "rebuild", "list", "visit", "apply"}
    /\ proc' = Dead
    /\ UNCHANGED <<walVars, job, minSeq, storeVars, config, historyVars, crashes>>

-----------------------------------------------------------------------------

\* The catalog, the payloads and the stream state survive; the hold does not.
\* The startup's orphan collection removes payloads without a row.
Crash ==
    /\ crashes < MaxCrashes
    /\ crashes' = crashes + 1
    /\ minSeq' = NoHold
    /\ job' = NoJob
    /\ proc' = Down
    /\ payload' = payload \cap Present
    /\ config' \in NextConfigs[config]
    /\ UNCHANGED <<row, acked, storeVars, historyVars>>

Processor ==
    \/ StartProcessorService
    \/ EnsureConfig \/ RebuildDeletes \/ RebuildWritesMeta
    \/ \E a \in Aggs : SetHold(a)
    \/ ListShortPage
    \/ \E s \in Segments :
            ListFullPage(s) \/ SkipSegment(s) \/ ReadSegment(s)
    \/ ApplySlice \/ NothingToApply \/ FinishSegment \/ ReclaimFullyDone
    \/ NextAggregate

Compactor ==
    \/ \E s \in Segments : JobAcks(s) \/ Redo(s)
    \/ JobDecides \/ JobCommits \/ JobFinishes \/ JobFails

Next ==
    \/ \E s \in Segments : CommitSegment(s)
    \/ Compactor
    \/ Processor
    \/ TaskFails
    \/ Crash

Spec == Init /\ [][Next]_vars

\* The task is scheduled again after every await and every 200 ms.
FairSpec == Spec /\ WF_vars(Processor)

-----------------------------------------------------------------------------
(* Properties.                                                             *)

Consumed(a, s) == \A k \in SliceNos : applied[a][s][k] > 0

\* A slice is counted at most once in an aggregate, whatever crashes and
\* rebuilds come between: apply_events commits the cursor with the measures.
AppliedOnce ==
    \A a \in Aggs, s \in Segments, k \in SliceNos : applied[a][s][k] <= 1

Passed(a, s, k) == s < cursor[a].seq \/ (s = cursor[a].seq /\ k <= cursor[a].count)

\* An aggregate counts nothing its cursor has not passed, and of the segments
\* in the catalog its cursor has passed nothing that it does not count
\* (process_segment skips everything behind cursor.seq for good), with two
\* exceptions only: a segment committed behind a running listing, and an
\* aggregate that a torn rebuild has emptied.
PassedIsCounted ==
    /\ \A a \in Aggs, s \in Segments, k \in SliceNos :
            applied[a][s][k] > 0 => Passed(a, s, k)
    /\ \A a \in Aggs \ emptied, s \in Present \ behind, k \in SliceNos :
            Passed(a, s, k) => applied[a][s][k] > 0

\* The hold never runs ahead of all aggregates: whenever the processor holds a
\* seq, some aggregate counts every segment below it that is still in the
\* catalog, with the exceptions of PassedIsCounted.
HoldNotAhead ==
    minSeq # NoHold =>
        \E a \in Aggs : \A s \in Present :
            s < minSeq => Consumed(a, s) \/ a \in emptied \/ s \in behind

\* What docs/docs/concepts/materialised-views.md says of the hold: whatever it
\* lets go has been passed, so every segment below it that is still in the
\* catalog is counted in every aggregate.
HoldIsSafe ==
    minSeq # NoHold =>
        \A s \in Present : s < minSeq => \A a \in Aggs : Consumed(a, s)

\* Every committed segment is consumed by every aggregate unless it is
\* reclaimed.
EventuallyConsumed ==
    \A s \in Segments : row[s] = "live" ~>
        (row[s] = "gone" \/ \A a \in Aggs : Consumed(a, s))

\* The processor catches up: whenever ingest pauses, and every instance has a
\* last segment, the time comes when each aggregate counts every segment in
\* the catalog, unless an error has ended the task, with the exceptions of
\* PassedIsCounted.
CatchesUpUnlessDead ==
    []<>(\/ proc.pc = "dead"
         \/ \A a \in Aggs \ emptied, s \in Present \ behind : Consumed(a, s))
=============================================================================
