---------------------------- MODULE CatalogOutbox ----------------------------
(* The durable catalog outbox and the coordinator that delivers it         *)
(* (src/catalog_outbox.rs, src/catalog_coordinator.rs).                    *)
(*                                                                         *)
(* A sink call returns catalog intents: "the Glue partition k lies at      *)
(* location l".  The host persists them before the call counts as done,    *)
(* one file per partition, a newer intent replacing an older one.  Two     *)
(* loops deliver them, the worker of the coordinator and the drain at the  *)
(* end of a run: each scans the due entries, asks Glue, writes what        *)
(* differs and removes the entry, provided the entry is still the one it   *)
(* scanned.                                                                *)
(*                                                                         *)
(* Every operation of the outbox holds its lock from start to end, so it   *)
(* is one step; a crash inside it is its failure followed by a crash.  A   *)
(* rename or an unlink survives a crash for sure only after the directory  *)
(* is synced: ondisk[k] is the set of versions a crash may leave.  All     *)
(* intents are of one table, and one batch of BatchCreatePartition holds   *)
(* them.  A Glue call has landed, or never lands, when it returns.         *)
EXTENDS Integers, FiniteSets

CONSTANTS
    Keys,         \* partitions (identities of intents)
    Locations,    \* what an intent says of its partition
    Inadmissible, \* locations of intents that are not admissible
    Calls,        \* sink calls
    IntentsOf,    \* IntentsOf[c]: the intents call c returns, by partition
    Worker,       \* the loop of start_worker
    Finaliser,    \* drain_catalog_outboxes at the end of a run
    NoEntry,      \* no file for the partition
    Nowhere,      \* the partition is not in Glue
    MaxClock,     \* bound on the milliseconds that pass
    MaxFaults,    \* bound on failing file operations and Glue calls
    MaxCrashes    \* bound on crashes

Drainers == {Worker, Finaliser}

ASSUME IntentAssumption ==
    /\ Inadmissible \subseteq Locations
    /\ Nowhere \notin Locations
    /\ \A c \in Calls : /\ DOMAIN IntentsOf[c] \subseteq Keys
                        /\ \A k \in DOMAIN IntentsOf[c] : IntentsOf[c][k] \in Locations

ASSUME OutboxBoundsAssumption ==
    MaxClock \in Nat /\ MaxFaults \in Nat /\ MaxCrashes \in Nat

VARIABLES
    entries,     \* entries[k]: the entry of k, in the index and in its file
    ondisk,      \* ondisk[k]: the versions of k a crash may leave
    dirty,       \* directory_sync_required
    deferred,    \* partitions whose next_attempt_at_ms is not reached
    clock,       \* now_ms
    call,        \* call[c]: whether the intents of c are persisted
    hand,        \* hand[d][k]: what drainer d holds for k, and how far it is
    glue,        \* glue[k]: location of the partition in Glue
    wanted,      \* history: the locations the last persist of k asks for
    overlapped,  \* history: partitions both drainers have held at once
    faults, crashes

outboxVars == <<entries, ondisk, dirty, deferred, clock>>
boundVars == <<faults, crashes>>
vars == <<outboxVars, call, hand, glue, wanted, overlapped, boundVars>>

----------------------------------------------------------------------------
(* Entries and hands.  The generation of an entry is the whole of it.      *)

EntryType == [intent : Locations, attempts : Nat, stamp : 0..MaxClock, terminal : BOOLEAN]

ASSUME SentinelAssumption == NoEntry \notin EntryType

Free == [entry |-> NoEntry, step |-> "none", kind |-> "none"]

HandType == [entry : EntryType \cup {NoEntry},
             step : {"none", "layout", "refuse", "get", "equal", "differs", "missing",
                     "written", "error"},
             kind : {"none", "transient", "terminal"}]

\* What the coordinator makes of an error: transient errors are retried.
ErrorKinds == {"transient", "terminal"}

Held(d, steps) == {k \in Keys : hand[d][k].step \in steps}

Holding(d, k, step, kind) ==
    hand' = [hand EXCEPT ![d][k] = [@ EXCEPT !.step = step, !.kind = kind]]

Drop(d, k) == hand' = [hand EXCEPT ![d][k] = Free]

\* An error of the outbox ends drain_once: the rest is scanned again later.
DropAll(d) == hand' = [hand EXCEPT ![d] = [k \in Keys |-> Free]]

Init ==
    /\ entries = [k \in Keys |-> NoEntry]
    /\ ondisk = [k \in Keys |-> {NoEntry}]
    /\ dirty = FALSE
    /\ deferred = {}
    /\ clock = 0
    /\ call = [c \in Calls |-> "todo"]
    /\ hand = [d \in Drainers |-> [k \in Keys |-> Free]]
    /\ glue = [k \in Keys |-> Nowhere]
    /\ wanted = [k \in Keys |-> {Nowhere}]
    /\ overlapped = {}
    /\ faults = 0
    /\ crashes = 0

Fault == faults < MaxFaults /\ faults' = faults + 1

\* now_ms: two writes may fall into the same millisecond.
Tick == clock' \in {clock, clock + 1} \cap 0..MaxClock

----------------------------------------------------------------------------
(* Persisting the intents of a sink call                                   *)

\* Partitions whose entry the call writes; the others are coalesced.
Written(c) ==
    {k \in DOMAIN IntentsOf[c] :
        IF entries[k] = NoEntry THEN TRUE ELSE entries[k].intent # IntentsOf[c][k]}

Fresh(c, k) ==
    [intent |-> IntentsOf[c][k], attempts |-> 0, stamp |-> clock', terminal |-> FALSE]

SyncDirectory ==
    /\ ondisk' = [k \in Keys |-> {entries'[k]}]
    /\ dirty' = FALSE

\* Mutant: a failed sync is forgotten.
MutNoSyncOwed(S) ==
    /\ ondisk' = [k \in Keys |-> IF k \in S THEN ondisk[k] \cup {entries'[k]} ELSE ondisk[k]]
    /\ UNCHANGED dirty

\* The change of the partitions in S is made and the sync has failed.
LeaveUnsynced(S) ==
    /\ ondisk' = [k \in Keys |-> IF k \in S THEN ondisk[k] \cup {entries'[k]} ELSE ondisk[k]]
    /\ dirty' = (dirty \/ S # {})

\* Nothing is synced when every intent is coalesced and no sync is owed.
Persist(c) ==
    /\ call[c] = "todo"
    /\ Tick
    /\ entries' = [k \in Keys |-> IF k \in Written(c) THEN Fresh(c, k) ELSE entries[k]]
    /\ IF Written(c) # {} \/ dirty THEN SyncDirectory ELSE UNCHANGED <<ondisk, dirty>>
    /\ deferred' = deferred \ Written(c)
    /\ wanted' = [k \in Keys |-> IF k \in DOMAIN IntentsOf[c] THEN {IntentsOf[c][k]}
                                 ELSE wanted[k]]
    /\ call' = [call EXCEPT ![c] = "ok"]
    /\ UNCHANGED <<hand, glue, overlapped, boundVars>>

\* A write fails after those of S, or all are written and the sync fails:
\* the call fails and its intents are in the outbox all the same.
PersistFails(c) ==
    /\ call[c] = "todo"
    /\ Fault
    /\ Tick
    /\ \E S \in SUBSET Written(c) :
        /\ S # Written(c) \/ S # {} \/ dirty
        /\ entries' = [k \in Keys |-> IF k \in S THEN Fresh(c, k) ELSE entries[k]]
        /\ LeaveUnsynced(S)
        /\ deferred' = deferred \ S
        /\ wanted' = [k \in Keys |-> IF k \in S THEN wanted[k] \cup {IntentsOf[c][k]}
                                     ELSE wanted[k]]
    /\ call' = [call EXCEPT ![c] = "failed"]
    /\ UNCHANGED <<hand, glue, overlapped, crashes>>

\* The failed sink call is made again; the sink answers AlreadyApplied with
\* the same intents.
RepeatCall(c) ==
    /\ call[c] = "failed"
    /\ call' = [call EXCEPT ![c] = "todo"]
    /\ UNCHANGED <<outboxVars, hand, glue, wanted, overlapped, boundVars>>

----------------------------------------------------------------------------
(* drain_once                                                              *)

\* Mutant: an entry that has failed is not put back into the due index.
MutNeverRetried == {k \in Keys : /\ entries[k] # NoEntry
                                 /\ ~entries[k].terminal
                                 /\ entries[k].attempts = 0
                                 /\ k \notin deferred}

Due == {k \in Keys : /\ entries[k] # NoEntry
                     /\ ~entries[k].terminal
                     /\ k \notin deferred}

\* scan_eligible_pending; intents that are not admissible are set apart.
Scan(d) ==
    /\ hand[d] = [k \in Keys |-> Free]
    /\ Due # {}
    /\ hand' = [hand EXCEPT ![d] =
         [k \in Keys |->
            IF k \notin Due THEN Free
            ELSE IF entries[k].intent \in Inadmissible
                 THEN [entry |-> entries[k], step |-> "refuse", kind |-> "terminal"]
                 ELSE [entry |-> entries[k], step |-> "layout", kind |-> "none"]]]
    /\ overlapped' = overlapped \cup
         {k \in Due : \E e \in Drainers \ {d} : hand[e][k] # Free}
    /\ UNCHANGED <<outboxVars, call, glue, wanted, boundVars>>

\* The layout of the table: an error refuses all intents, a partition
\* layout that does not match refuses single ones for now.
LoadLayout(d) ==
    /\ Held(d, {"layout"}) # {}
    /\ Held(d, {"refuse"}) = {}
    /\ \E bad \in SUBSET Held(d, {"layout"}), kind \in ErrorKinds :
        /\ kind = "terminal" => bad = Held(d, {"layout"})
        /\ IF bad = {} THEN UNCHANGED faults ELSE Fault
        /\ hand' = [hand EXCEPT ![d] =
             [k \in Keys |->
                IF k \in bad THEN [@[k] EXCEPT !.step = "refuse", !.kind = kind]
                ELSE IF @[k].step = "layout" THEN [@[k] EXCEPT !.step = "get"]
                ELSE @[k]]]
    /\ UNCHANGED <<outboxVars, call, glue, wanted, overlapped, crashes>>

\* The partitions are inspected in parallel, all before any is acted on.
GetPartition(d, k) ==
    /\ hand[d][k].step = "get"
    /\ Held(d, {"layout", "refuse"}) = {}
    /\ \/ /\ Holding(d, k, IF glue[k] = Nowhere THEN "missing"
                           ELSE IF glue[k] = hand[d][k].entry.intent THEN "equal"
                           ELSE "differs", "none")
          /\ UNCHANGED faults
       \/ /\ Fault
          /\ \E kind \in ErrorKinds : Holding(d, k, "error", kind)
    /\ UNCHANGED <<outboxVars, call, glue, wanted, overlapped, crashes>>

Inspected(d) == Held(d, {"layout", "refuse", "get"}) = {}

\* Mutant: the result of UpdatePartition is not looked at.
MutErrorIgnored(d, k) ==
    /\ hand[d][k].step = "differs"
    /\ Inspected(d)
    /\ \/ glue' = [glue EXCEPT ![k] = hand[d][k].entry.intent] /\ UNCHANGED faults
       \/ UNCHANGED glue /\ Fault
    /\ Holding(d, k, "written", "none")
    /\ UNCHANGED <<outboxVars, call, wanted, overlapped, crashes>>

\* A call that fails may have had its effect.
UpdatePartition(d, k) ==
    /\ hand[d][k].step = "differs"
    /\ Inspected(d)
    /\ \/ /\ glue' = [glue EXCEPT ![k] = hand[d][k].entry.intent]
          /\ Holding(d, k, "written", "none")
          /\ UNCHANGED faults
       \/ /\ Fault
          /\ \/ glue' = [glue EXCEPT ![k] = hand[d][k].entry.intent]
             \/ UNCHANGED glue
          /\ \E kind \in ErrorKinds : Holding(d, k, "error", kind)
    /\ UNCHANGED <<outboxVars, call, wanted, overlapped, crashes>>

\* batch_create_partitions of what was missing, after everything else: one
\* that has appeared meanwhile (AlreadyExists) is looked at again later.
CreatePartitions(d) ==
    LET missing == Held(d, {"missing"})
        absent == {k \in missing : glue[k] = Nowhere}
        Create(S) == glue' = [k \in Keys |-> IF k \in S THEN hand[d][k].entry.intent ELSE glue[k]]
        Outcome(S, kind) ==
            hand' = [hand EXCEPT ![d] =
              [k \in Keys |->
                 IF k \notin missing THEN @[k]
                 ELSE IF k \in S THEN [@[k] EXCEPT !.step = "written"]
                 ELSE [@[k] EXCEPT !.step = "error",
                                   !.kind = IF k \in absent THEN kind ELSE "transient"]]]
    IN /\ missing # {}
       /\ Held(d, {"layout", "refuse", "get", "equal", "differs", "error", "written"}) = {}
       /\ \/ \E failed \in SUBSET absent, kind \in ErrorKinds :
               /\ IF failed = {} THEN UNCHANGED faults ELSE Fault
               /\ Create(absent \ failed)
               /\ Outcome(absent \ failed, kind)
          \/ \E landed \in SUBSET absent, kind \in ErrorKinds :
               /\ Fault
               /\ Create(landed)
               /\ hand' = [hand EXCEPT ![d] =
                    [k \in Keys |-> IF k \in missing
                                    THEN [@[k] EXCEPT !.step = "error", !.kind = kind]
                                    ELSE @[k]]]
       /\ UNCHANGED <<outboxVars, call, wanted, overlapped, crashes>>

\* The entry is still the one that was scanned; otherwise the result is Stale.
Current(d, k) == entries[k] = hand[d][k].entry

\* Mutant: the entry is removed whatever it has become.
MutMarkAnyGeneration(d, k) ==
    /\ hand[d][k].step \in {"equal", "written"}
    /\ Inspected(d)
    /\ entries' = [entries EXCEPT ![k] = NoEntry]
    /\ SyncDirectory
    /\ deferred' = deferred \ {k}
    /\ Drop(d, k)
    /\ UNCHANGED <<clock, call, glue, wanted, overlapped, boundVars>>

\* mark_delivered_if
MarkDelivered(d, k) ==
    /\ hand[d][k].step \in {"equal", "written"}
    /\ Inspected(d)
    /\ IF Current(d, k)
       THEN /\ entries' = [entries EXCEPT ![k] = NoEntry]
            /\ SyncDirectory
            /\ deferred' = deferred \ {k}
       ELSE UNCHANGED <<entries, ondisk, dirty, deferred>>
    /\ Drop(d, k)
    /\ UNCHANGED <<clock, call, glue, wanted, overlapped, boundVars>>

\* The file cannot be removed, or it is and the sync fails.
MarkFails(d, k) ==
    /\ hand[d][k].step \in {"equal", "written"}
    /\ Inspected(d)
    /\ Current(d, k)
    /\ Fault
    /\ \/ UNCHANGED <<entries, ondisk, dirty, deferred>>
       \/ /\ entries' = [entries EXCEPT ![k] = NoEntry]
          /\ LeaveUnsynced({k})
          /\ deferred' = deferred \ {k}
    /\ DropAll(d)
    /\ UNCHANGED <<clock, call, glue, wanted, overlapped, crashes>>

FailedEntry(d, k) ==
    [entries[k] EXCEPT !.attempts = @ + 1, !.stamp = clock',
                       !.terminal = (hand[d][k].kind = "terminal")]

AfterFailure(d, k) ==
    /\ Tick
    /\ entries' = [entries EXCEPT ![k] = FailedEntry(d, k)]
    /\ deferred' = IF hand[d][k].kind = "transient" THEN deferred \cup {k} ELSE deferred \ {k}

\* record_failure_if: backoff for a transient error, the end for another.
RecordFailure(d, k) ==
    /\ hand[d][k].step \in {"refuse", "error"}
    /\ hand[d][k].step = "error" => Inspected(d)
    /\ IF Current(d, k)
       THEN AfterFailure(d, k) /\ SyncDirectory
       ELSE UNCHANGED outboxVars
    /\ Drop(d, k)
    /\ UNCHANGED <<call, glue, wanted, overlapped, boundVars>>

RecordFails(d, k) ==
    /\ hand[d][k].step \in {"refuse", "error"}
    /\ hand[d][k].step = "error" => Inspected(d)
    /\ Current(d, k)
    /\ Fault
    /\ \/ UNCHANGED outboxVars
       \/ AfterFailure(d, k) /\ LeaveUnsynced({k})
    /\ DropAll(d)
    /\ UNCHANGED <<call, glue, wanted, overlapped, crashes>>

\* The backoff of an entry is over.
Backoff(k) ==
    /\ k \in deferred
    /\ deferred' = deferred \ {k}
    /\ UNCHANGED <<entries, ondisk, dirty, clock, call, hand, glue, wanted, overlapped, boundVars>>

\* The process dies and starts again: recover_index reads what the crash
\* left, and calls whose compaction was not acknowledged yet come again.
Crash ==
    /\ crashes < MaxCrashes
    /\ crashes' = crashes + 1
    /\ \E left \in [Keys -> UNION {ondisk[k] : k \in Keys}], again \in SUBSET Calls :
        /\ \A k \in Keys : left[k] \in ondisk[k]
        /\ entries' = left
        /\ ondisk' = [k \in Keys |-> {left[k]}]
        /\ deferred' = {k \in deferred : left[k] = entries[k]}
        /\ call' = [c \in Calls |-> IF c \in again \/ call[c] # "ok" THEN "todo" ELSE "ok"]
    /\ dirty' = FALSE
    /\ hand' = [d \in Drainers |-> [k \in Keys |-> Free]]
    /\ UNCHANGED <<clock, glue, wanted, overlapped, faults>>

Drain(d) ==
    \/ Scan(d)
    \/ LoadLayout(d)
    \/ CreatePartitions(d)
    \/ \E k \in Keys : \/ GetPartition(d, k)
                       \/ UpdatePartition(d, k)
                       \/ MarkDelivered(d, k)
                       \/ MarkFails(d, k)
                       \/ RecordFailure(d, k)
                       \/ RecordFails(d, k)

SinkCall(c) == Persist(c) \/ PersistFails(c) \/ RepeatCall(c)

Next ==
    \/ \E c \in Calls : SinkCall(c)
    \/ \E d \in Drainers : Drain(d)
    \/ \E k \in Keys : Backoff(k)
    \/ Crash

Spec == Init /\ [][Next]_vars

\* The worker loops for ever, its timers fire, and a failed sink call is
\* made again; the drain at the end of a run may stop at its deadline.
Fairness ==
    /\ WF_vars(Drain(Worker))
    /\ \A k \in Keys : WF_vars(Backoff(k))
    /\ \A c \in Calls : WF_vars(SinkCall(c))

FairSpec == Spec /\ Fairness

----------------------------------------------------------------------------
(* Properties                                                              *)

\* Type invariant; an entry is one of the versions a crash may leave, and
\* without an owed sync it is the only one.
TypeOK ==
    /\ entries \in [Keys -> EntryType \cup {NoEntry}]
    /\ ondisk \in [Keys -> SUBSET (EntryType \cup {NoEntry})]
    /\ \A k \in Keys : entries[k] \in ondisk[k] /\ (~dirty => ondisk[k] = {entries[k]})
    /\ dirty \in BOOLEAN
    /\ deferred \subseteq {k \in Keys : entries[k] # NoEntry}
    /\ clock \in 0..MaxClock
    /\ call \in [Calls -> {"todo", "ok", "failed"}]
    /\ hand \in [Drainers -> [Keys -> HandType]]
    /\ glue \in [Keys -> Locations \cup {Nowhere}]
    /\ wanted \in [Keys -> SUBSET (Locations \cup {Nowhere})]
    /\ overlapped \subseteq Keys
    /\ faults \in 0..MaxFaults
    /\ crashes \in 0..MaxCrashes

\* Once the last persist of a partition is acknowledged, its location is in
\* Glue or in every version of the entry that a crash may leave: delivering
\* an older intent, a failed sync or a crash never loses it.  Partitions
\* both drainers have held at once are excepted: there a late write of the
\* one can undo what the other has delivered.
IntentSurvives ==
    \A k \in Keys \ overlapped, loc \in Locations :
        wanted[k] = {loc} =>
            \A v \in ondisk[k] : IF v = NoEntry THEN glue[k] = loc ELSE v.intent = loc

\* An entry leaves the outbox only when Glue has the location it asks for,
\* with the same exception; a crash may only bring an entry back.
RemovedIsDelivered ==
    [][\A k \in Keys \ overlapped :
          entries[k] # NoEntry /\ entries'[k] = NoEntry
            => \/ glue[k] = entries[k].intent
               \/ crashes' # crashes /\ NoEntry \in ondisk[k]]_vars

\* Every intent is delivered in the end, or kept as terminal.
EventuallySettled ==
    \A k \in Keys : <>[](entries[k] = NoEntry \/ entries[k].terminal)
=============================================================================
