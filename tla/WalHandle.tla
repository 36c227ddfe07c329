------------------------------ MODULE WalHandle ------------------------------
(* Offsets and the WAL catalog: how PipelineWalHandle commits segment and  *)
(* control rows, publishes the source offsets they carry, and rebuilds the *)
(* offsets at startup (src/buffer/wal_handle.rs, helpers/offset_store.rs). *)
(*                                                                         *)
(* An object is what a source reads as a whole (an S3 key, a file); its    *)
(* offset key in the store is Closed once any row that names it has been   *)
(* published, and a closed object is not read again.  Ingest splits an     *)
(* object into parts, one per sink partition, that the WAL writer appends  *)
(* to the live segment one by one while the persist task may take it.  A   *)
(* record that cannot be decoded is discarded when no deadletter sink is   *)
(* configured, and its position is committed as an offset hint.            *)
(*                                                                         *)
(* Positions, file sizes and the payload are left out; acknowledgements    *)
(* are those of WalWriter; compaction is the end of a segment row.         *)
EXTENDS Integers, Sequences, FiniteSets

CONSTANTS
    Objects,      \* offset keys the source lists
    NumParts,     \* NumParts[o]: WAL batches of object o
    BadObjects,   \* objects with discarded records
    Persister,    \* the persist task of the WAL writer
    Ceiling,      \* UNPUBLISHED_COMMIT_CEILING
    MaxFailures,  \* bound on failing commits, flushes and schema syncs
    MaxCrashes    \* bound on crashes

ASSUME ObjectAssumption ==
    /\ NumParts \in [Objects -> Nat]
    /\ BadObjects \subseteq Objects
    /\ Persister \notin Objects

ASSUME HandleBoundsAssumption ==
    /\ Ceiling \in Nat \ {0}
    /\ MaxFailures \in Nat
    /\ MaxCrashes \in Nat

VARIABLES
    phase,         \* of the process: down, in wal_startup, up
    ing,           \* ing[o]: how far the ingest of object o is
    appended,      \* appended[o]: parts of o appended to the live segment
    live,          \* parts in SEGMENT_LIVE
    pending,       \* whether units wait for a persist (pending_acks)
    op,            \* op[x]: a call of the handle in progress
    log,           \* log[s]: the parts and objects of the row committed with seq s
    rows,          \* seqs of the rows in the catalog
    registered,    \* segments the compactor knows
    republish,     \* rows republish_all has still to publish
    maxCommitted, maxPublished,  \* SeqState
    fence,         \* fence[o]: seq of the published offset of o, 0 for none
    flushed,       \* the fences that survive a crash in any case
    failures, crashes

memVars == <<ing, appended, live, pending>>
catalogVars == <<log, rows, registered>>
seqVars == <<maxCommitted, maxPublished>>
storeVars == <<fence, flushed>>
startVars == <<phase, republish>>
boundVars == <<failures, crashes>>
vars == <<memVars, op, catalogVars, seqVars, storeVars, startVars, boundVars>>

PartsOf(o) == {<<o, k>> : k \in 1..NumParts[o]}

Parts == UNION {PartsOf(o) : o \in Objects}

\* The persist task, and the ingest thread of each object.
Callers == Objects \cup {Persister}

Seqs == 1..Len(log)

ObjectsOf(ps) == {p[1] : p \in ps}

\* One call of persist_segment or persist_offset_hint: parts of the segment
\* (none for a hint) and objects still to be published.
Idle == [pc |-> "idle", seq |-> 0, parts |-> {}, todo |-> {}]

\* persist_segment and persist_s3_segment, for a snapshot with these parts.
SegmentCall(ps) ==
    [pc |-> "commit", seq |-> 0, parts |-> ps, todo |-> ObjectsOf(ps)]

\* persist_offset_hint.  An object that has a hint row is closed, so the row is
\* always a new one.
HintCall(o) == [pc |-> "commit", seq |-> 0, parts |-> {}, todo |-> {o}]

CallType ==
    [pc : {"idle", "spawned", "commit", "publish"}, seq : 0..Len(log),
     parts : SUBSET Parts, todo : SUBSET Objects]

\* The handle, the catalog, the fences and the ingest of every object are in
\* the states their types allow.
TypeOK ==
    /\ phase \in {"down", "startup", "up"}
    /\ ing \in [Objects -> {"unread", "hint", "submit", "append", "done"}]
    /\ appended \in [Objects -> Nat]
    /\ \A o \in Objects : appended[o] <= NumParts[o]
    /\ live \subseteq Parts
    /\ pending \in BOOLEAN
    /\ op \in [Callers -> CallType]
    /\ log \in Seq([parts : SUBSET Parts, objects : SUBSET Objects])
    /\ rows \subseteq Seqs
    /\ registered \subseteq rows
    /\ republish \subseteq rows
    /\ maxCommitted \in 0..Len(log)
    /\ maxPublished \in 0..Len(log)
    /\ fence \in [Objects -> 0..Len(log)]
    /\ flushed \in [Objects -> 0..Len(log)]
    /\ failures \in 0..MaxFailures
    /\ crashes \in 0..MaxCrashes

Closed(o) == fence[o] # 0

Init ==
    /\ phase = "down"
    /\ ing = [o \in Objects |-> "unread"]
    /\ appended = [o \in Objects |-> 0]
    /\ live = {}
    /\ pending = FALSE
    /\ op = [x \in Callers |-> Idle]
    /\ log = <<>>
    /\ rows = {}
    /\ registered = {}
    /\ republish = {}
    /\ maxCommitted = 0
    /\ maxPublished = 0
    /\ fence = [o \in Objects |-> 0]
    /\ flushed = [o \in Objects |-> 0]
    /\ failures = 0
    /\ crashes = 0

-----------------------------------------------------------------------------
(* The ingest of an object.                                                *)

\* The source and the ingest gate skip a closed object.
SkipObject(o) ==
    /\ phase = "up"
    /\ ing[o] = "unread"
    /\ Closed(o)
    /\ ing' = [ing EXCEPT ![o] = "done"]
    /\ UNCHANGED <<appended, live, pending, op, catalogVars, seqVars, storeVars,
                   startVars, boundVars>>

\* Discarded records are committed as a hint (commit_deadletters) before the
\* rest of the object is submitted.
ReadObject(o) ==
    /\ phase = "up"
    /\ ing[o] = "unread"
    /\ ~Closed(o)
    /\ IF o \in BadObjects
       THEN /\ ing' = [ing EXCEPT ![o] = "hint"]
            /\ op' = [op EXCEPT ![o] = HintCall(o)]
       ELSE /\ ing' = [ing EXCEPT ![o] = "submit"]
            /\ UNCHANGED op
    /\ UNCHANGED <<appended, live, pending, catalogVars, seqVars, storeVars,
                   startVars, boundVars>>

\* The schema sync barrier, or an object that has nothing but discarded
\* records: the request ends without a WAL unit.
EndWithoutWal(o) ==
    /\ ing[o] = "submit"
    /\ \/ NumParts[o] = 0 /\ UNCHANGED failures
       \/ NumParts[o] > 0 /\ failures < MaxFailures /\ failures' = failures + 1
    /\ ing' = [ing EXCEPT ![o] = "done"]
    /\ UNCHANGED <<appended, live, pending, op, catalogVars, seqVars, storeVars,
                   startVars, crashes>>

\* append_batches_to_live: the writer appends one unit at a time, and takes
\* the lock of the live segment for each of its parts.
AppendPart(o) ==
    /\ ing[o] \in {"submit", "append"}
    /\ NumParts[o] > 0
    /\ \A q \in Objects \ {o} : ing[q] # "append"
    /\ appended' = [appended EXCEPT ![o] = @ + 1]
    /\ live' = live \cup {<<o, appended[o] + 1>>}
    /\ LET last == appended[o] + 1 = NumParts[o]
       IN  /\ ing' = [ing EXCEPT ![o] = IF last THEN "done" ELSE "append"]
           /\ pending' = (pending \/ last)
    /\ UNCHANGED <<op, catalogVars, seqVars, storeVars, startVars, boundVars>>

\* try_start_persist, between two units: the task is spawned.
StartPersist ==
    /\ op[Persister] = Idle
    /\ pending \/ live # {}
    /\ \A o \in Objects : ing[o] # "append"
    /\ op' = [op EXCEPT ![Persister].pc = "spawned"]
    /\ pending' = FALSE
    /\ UNCHANGED <<ing, appended, live, catalogVars, seqVars, storeVars,
                   startVars, boundVars>>

\* flush_live_segment_to_wal: when the task runs it takes whatever is there.
TakeLive ==
    /\ op[Persister].pc = "spawned"
    /\ op' = [op EXCEPT ![Persister] =
                IF live = {} THEN Idle ELSE SegmentCall(live)]
    /\ live' = {}
    /\ UNCHANGED <<ing, appended, pending, catalogVars, seqVars, storeVars,
                   startVars, boundVars>>

-----------------------------------------------------------------------------
(* Commit and publish.                                                     *)

\* A failed hint fails the request of its object; a failed segment is dropped.
Fails(x) ==
    /\ op' = [op EXCEPT ![x] = Idle]
    /\ ing' = IF x = Persister THEN ing ELSE [ing EXCEPT ![x] = "done"]

AtCeiling == maxCommitted - maxPublished >= Ceiling

\* Mutant: the row is published under the seq before its own.
MutSeqNotAdvanced(x) ==
    /\ op[x].pc = "commit"
    /\ ~AtCeiling
    /\ log' = Append(log, [parts |-> op[x].parts, objects |-> op[x].todo])
    /\ rows' = rows \cup {Len(log) + 1}
    /\ maxCommitted' = Len(log) + 1
    /\ op' = [op EXCEPT ![x].pc = "publish", ![x].seq = Len(log)]
    /\ UNCHANGED <<memVars, registered, maxPublished, storeVars, startVars,
                   boundVars>>

\* commit_new_segment and commit_control_row, under catalog_mutex: the row and
\* the next seq in one durable transaction.
CommitRow(x) ==
    /\ op[x].pc = "commit"
    /\ ~AtCeiling
    /\ log' = Append(log, [parts |-> op[x].parts, objects |-> op[x].todo])
    /\ rows' = rows \cup {Len(log) + 1}
    /\ maxCommitted' = Len(log) + 1
    /\ op' = [op EXCEPT ![x].pc = "publish", ![x].seq = Len(log) + 1]
    /\ UNCHANGED <<memVars, registered, maxPublished, storeVars, startVars,
                   boundVars>>

CommitRefused(x) ==
    /\ op[x].pc = "commit"
    /\ AtCeiling
    /\ Fails(x)
    /\ UNCHANGED <<appended, live, pending, catalogVars, seqVars, storeVars, startVars,
                   boundVars>>

CommitFails(x) ==
    /\ op[x].pc = "commit"
    /\ failures < MaxFailures
    /\ failures' = failures + 1
    /\ Fails(x)
    /\ UNCHANGED <<appended, live, pending, catalogVars, seqVars, storeVars, startVars,
                   crashes>>

\* publish_committed, one object: decide_wal_publish compares the stored fence
\* with the seq of the row, then offset and fence are put in one commit of the
\* store that is not yet flushed.  An object is one unit of one request, so its
\* rows are published in the order of their seqs and none is refused.
PublishOffset(x, o) ==
    /\ op[x].pc = "publish"
    /\ o \in op[x].todo
    /\ fence[o] < op[x].seq
    /\ fence' = [fence EXCEPT ![o] = op[x].seq]
    /\ op' = [op EXCEPT ![x].todo = @ \ {o}]
    /\ UNCHANGED <<memVars, catalogVars, seqVars, flushed, startVars, boundVars>>

\* Mutant: the segment is registered without a flush of the offsets.
MutPublishNotFlushed(x) ==
    /\ op[x].pc = "publish"
    /\ op[x].todo = {}
    /\ maxPublished' = op[x].seq
    /\ registered' = IF x = Persister THEN registered \cup {op[x].seq} ELSE registered
    /\ ing' = IF x = Persister THEN ing ELSE [ing EXCEPT ![x] = "submit"]
    /\ op' = [op EXCEPT ![x] = Idle]
    /\ UNCHANGED <<appended, live, pending, log, rows, maxCommitted, storeVars, startVars,
                   boundVars>>

\* The end of publish_seq: flush, then max_published.  The persist task goes
\* on to register the segment, the ingest thread to submit its object.
PublishDone(x) ==
    /\ op[x].pc = "publish"
    /\ op[x].todo = {}
    /\ flushed' = fence
    /\ maxPublished' = op[x].seq
    /\ registered' = IF x = Persister THEN registered \cup {op[x].seq} ELSE registered
    /\ ing' = IF x = Persister THEN ing ELSE [ing EXCEPT ![x] = "submit"]
    /\ op' = [op EXCEPT ![x] = Idle]
    /\ UNCHANGED <<appended, live, pending, log, rows, maxCommitted, fence, startVars,
                   boundVars>>

FlushFails(x) ==
    /\ op[x].pc = "publish"
    /\ op[x].todo = {}
    /\ failures < MaxFailures
    /\ failures' = failures + 1
    /\ Fails(x)
    /\ UNCHANGED <<appended, live, pending, catalogVars, seqVars, storeVars, startVars,
                   crashes>>

-----------------------------------------------------------------------------
(* Compaction, crash and startup.                                          *)

\* Every slice of a registered segment has been applied: its row is dropped.
Reclaim(s) ==
    /\ phase = "up"
    /\ s \in registered
    /\ log[s].parts # {}
    /\ rows' = rows \ {s}
    /\ registered' = registered \ {s}
    /\ UNCHANGED <<memVars, op, log, seqVars, storeVars, startVars, boundVars>>

\* The process ends, in a crash or after a failed sync.  A fence written since
\* the last flush may be there or not.
Crash ==
    /\ phase # "down"
    /\ crashes < MaxCrashes
    /\ crashes' = crashes + 1
    /\ phase' = "down"
    /\ ing' = [o \in Objects |-> "unread"]
    /\ appended' = [o \in Objects |-> 0]
    /\ live' = {}
    /\ pending' = FALSE
    /\ op' = [x \in Callers |-> Idle]
    /\ maxCommitted' = 0
    /\ maxPublished' = 0
    /\ registered' = {}
    /\ republish' = {}
    /\ \E lost \in SUBSET {o \in Objects : fence[o] # flushed[o]} :
            fence' = [o \in Objects |-> IF o \in lost THEN flushed[o] ELSE fence[o]]
    /\ flushed' = fence'
    /\ UNCHANGED <<log, rows, failures>>

\* Mutant: the offsets are taken as they are.
MutNoRepublish ==
    /\ phase = "down"
    /\ phase' = "up"
    /\ registered' = {s \in rows : log[s].parts # {}}
    /\ UNCHANGED <<memVars, op, log, rows, seqVars, storeVars, republish,
                   boundVars>>

\* wal_startup: hydrate_from_catalog registers the live segments.
WalStartup ==
    /\ phase = "down"
    /\ phase' = "startup"
    /\ registered' = {s \in rows : log[s].parts # {}}
    /\ republish' = rows
    /\ UNCHANGED <<memVars, op, log, rows, seqVars, storeVars, boundVars>>

\* Mutant: control rows are not republished.
MutSegmentsOnly(s) ==
    /\ phase = "startup"
    /\ s \in republish
    /\ republish' = republish \ {s}
    /\ fence' = [o \in Objects |->
                    IF o \in ObjectsOf(log[s].parts) /\ fence[o] < s
                    THEN s ELSE fence[o]]
    /\ UNCHANGED <<memVars, op, catalogVars, seqVars, flushed, phase, boundVars>>

\* republish_all, one row: an offset that is newer is left alone.
RepublishRow(s) ==
    /\ phase = "startup"
    /\ s \in republish
    /\ republish' = republish \ {s}
    /\ fence' = [o \in Objects |->
                    IF o \in log[s].objects /\ fence[o] < s THEN s ELSE fence[o]]
    /\ UNCHANGED <<memVars, op, catalogVars, seqVars, flushed, phase, boundVars>>

RepublishDone ==
    /\ phase = "startup"
    /\ republish = {}
    /\ phase' = "up"
    /\ flushed' = fence
    /\ UNCHANGED <<memVars, op, catalogVars, seqVars, fence, republish, boundVars>>

-----------------------------------------------------------------------------

Ingest(o) == SkipObject(o) \/ ReadObject(o) \/ EndWithoutWal(o) \/ AppendPart(o)

Call(x) ==
    \/ CommitRow(x) \/ CommitRefused(x) \/ CommitFails(x)
    \/ \E o \in Objects : PublishOffset(x, o)
    \/ PublishDone(x) \/ FlushFails(x)

Next ==
    \/ \E o \in Objects : Ingest(o)
    \/ StartPersist \/ TakeLive
    \/ \E x \in Callers : Call(x)
    \/ \E s \in Seqs : Reclaim(s) \/ RepublishRow(s)
    \/ Crash \/ WalStartup \/ RepublishDone

Spec == Init /\ [][Next]_vars

\* The tasks of the host are scheduled, and a process that ended is started
\* again; whether the source reads on is left open.
FairSpec ==
    /\ Spec
    /\ \A x \in Callers : WF_vars(Call(x))
    /\ WF_vars(WalStartup)
    /\ WF_vars(RepublishDone \/ \E s \in Seqs : RepublishRow(s))

-----------------------------------------------------------------------------
(* Properties.                                                             *)

\* An offset is published only for a row that the catalog has committed and
\* that names its object: the offsets are a view of the catalog.
PublishedIsCommitted ==
    \A o \in Objects : Closed(o) => o \in log[fence[o]].objects

\* No part is committed twice: a crash between the commit of a segment and
\* the publication of its offsets does not make the source's next run commit
\* the objects again.
CommittedOnce ==
    \A s, t \in Seqs : s # t => log[s].parts \cap log[t].parts = {}

\* Once a segment row is dropped its objects are durably closed: republish_all
\* has nothing left to close them with.
ReclaimedIsClosed ==
    \A s \in Seqs \ rows : \A o \in log[s].objects : flushed[o] # 0

\* In the end every object that a committed row names is closed and stays so,
\* by publish_seq or by the republish of a later start.
CommittedIsClosed ==
    \A o \in Objects :
        <>[]((\E s \in Seqs : o \in log[s].objects) => Closed(o))

\* A part is in memory as long as its unit, its live segment or its persist is.
InMemory(p) ==
    \/ p \in live
    \/ p \in op[Persister].parts
    \/ ing[p[1]] \in {"hint", "submit", "append"} /\ p[2] > appended[p[1]]

\* What the README says, "Every batch is committed to the WAL (local disk or
\* S3) before source offsets advance", read as weakly as it can be: a part of
\* a closed object is committed, or is still on its way.
NothingSkipped ==
    \A p \in Parts :
        Closed(p[1]) => InMemory(p) \/ \E s \in Seqs : p \in log[s].parts
=============================================================================
