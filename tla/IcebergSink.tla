----------------------------- MODULE IcebergSink -----------------------------
(* The grouped write path of the Iceberg sink, sync_grouped_call_result in *)
(* crates/skippr-iceberg-writer/src/lib.rs, with the history expiry of     *)
(* history.rs, for exact-once CDC groups (ExactOnceFinalState) of a table. *)
(*                                                                         *)
(* A call looks for the manifest of its group, takes the table's lane in   *)
(* its process, looks again, reads or produces the pending receipt, and    *)
(* commits the receipt's files to the table: a compare-and-swap on the     *)
(* table's metadata from a base that may be the process' cached copy,      *)
(* skipped when the base has a snapshot of the group.  Then it persists    *)
(* the order tokens, writes the manifest and expires old snapshots.        *)
(*                                                                         *)
(* The host has one call at a time for the table (the commit lane of       *)
(* exact-once groups), but a call it gave up on runs on, possibly in       *)
(* another process of the sink's pool.  A group is its order token: every  *)
(* group updates the same business key, a greater group being newer.  A    *)
(* call is over before the snapshot of its group can expire: snapshots are *)
(* kept for SNAPSHOT_RETAIN_AGE_MS, a day.  The objects are on S3, the     *)
(* order tokens in a shard that is written with if_match.  ReplaceTable,   *)
(* legacy chunk manifests, schema versions and maintenance rewrites are    *)
(* left out.                                                               *)
EXTENDS Integers, FiniteSets

CONSTANTS
    NumGroups,    \* groups the compactor has to write
    Writers,      \* processes of the sink's pool
    Calls,        \* calls that can run at a time
    NoCall, NoTable,
    Attempts,     \* GROUPED_COMMIT_ATTEMPTS
    MaxFaults     \* bound on failing or lost requests, calls the host gives
                  \* up on and deaths of sink processes, together

Groups == 1..NumGroups

ASSUME SinkAssumption ==
    /\ NumGroups \in Nat /\ Attempts \in Nat \ {0}
    /\ MaxFaults \in Nat
    /\ NoCall \notin Calls \cup Writers


VARIABLES
    call,      \* call[c]: where call c is, and what it holds
    lane,      \* lane[w]: the call that has the table's lane in process w
    cache,     \* cache[w]: the table_cache entry of process w
    table,     \* the table's metadata in the Iceberg catalog
    visible,   \* the key's rows a reader of the table sees, by their group
    rows,      \* history: rows[g], how often g has been committed
    receipt,   \* receipt[g]: what the files of g's pending receipt are
    tokens,    \* greatest token in the persisted CDC state
    manifest,  \* groups whose manifest exists
    flight,    \* commit requests that were given up and may still arrive
    awaited,   \* the call the host waits for
    acked,     \* groups the host knows to be written
    faults     \* faults so far

storeVars == <<table, visible, rows, receipt, tokens, manifest, flight>>
hostVars == <<awaited, acked>>
vars == <<call, lane, cache, storeVars, hostVars, faults>>

Idle == [pc |-> "idle", g |-> 0, w |-> NoCall, live |-> {}, base |-> NoTable,
         files |-> "none", tries |-> 0, already |-> FALSE]

Active(c) == call[c].pc # "idle"

Fault == faults < MaxFaults /\ faults' = faults + 1

Init ==
    /\ call = [c \in Calls |-> Idle]
    /\ lane = [w \in Writers |-> NoCall] /\ cache = [w \in Writers |-> NoTable]
    /\ table = [version |-> 0, snaps |-> {}, head |-> 0]
    /\ visible = {} /\ rows = [g \in Groups |-> 0]
    /\ receipt = [g \in Groups |-> "none"] /\ tokens = 0 /\ manifest = {} /\ flight = {}
    /\ awaited = NoCall /\ acked = {}
    /\ faults = 0

----------------------------------------------------------------------------
(* The host                                                                *)

\* compact_grouped_work sends a group that is not written yet; the call
\* carries the WAL segments that are live, those of unwritten groups.
Dispatch(c, g, w) ==
    /\ awaited = NoCall /\ g \notin acked /\ ~Active(c)
    /\ call' = [call EXCEPT ![c] = [Idle EXCEPT !.pc = "check", !.g = g, !.w = w,
                                                !.live = Groups \ acked]]
    /\ awaited' = c
    /\ UNCHANGED <<lane, cache, storeVars, acked, faults>>

\* The host stops waiting; the call goes on.
TimeOut ==
    /\ awaited # NoCall /\ awaited' = NoCall
    /\ Fault
    /\ UNCHANGED <<call, lane, cache, storeVars, acked>>

\* The call returns, releasing its lane; the host hears of it if it waits.
Return(c, ok) ==
    /\ call' = [call EXCEPT ![c] = Idle]
    /\ lane' = [w \in Writers |-> IF lane[w] = c THEN NoCall ELSE lane[w]]
    /\ awaited' = IF awaited = c THEN NoCall ELSE awaited
    /\ acked' = IF ok /\ awaited = c THEN acked \cup {call[c].g} ELSE acked

----------------------------------------------------------------------------
(* The call                                                                *)

\* read_manifest: AlreadyApplied when it is there.
CheckManifest(c) ==
    /\ call[c].pc = "check"
    /\ \/ call[c].g \in manifest /\ Return(c, TRUE)
       \/ /\ call[c].g \notin manifest
          /\ call' = [call EXCEPT ![c].pc = "lane"]
          /\ UNCHANGED <<lane, hostVars>>
    /\ UNCHANGED <<cache, storeVars, faults>>

\* table_lane
TakeLane(c) ==
    /\ call[c].pc = "lane" /\ lane[call[c].w] = NoCall
    /\ lane' = [lane EXCEPT ![call[c].w] = c]
    /\ call' = [call EXCEPT ![c].pc = "recheck"]
    /\ UNCHANGED <<cache, storeVars, hostVars, faults>>

\* final_state_cdc_batches: a change that is not above the persisted token
\* is dropped, and the key's older row is deleted only if there is a token.
Produced(g) ==
    IF g <= tokens THEN "empty" ELSE IF tokens = 0 THEN "insert" ELSE "upsert"

\* apply_grouped_pending begins with the cached table, if there is one.
StartCommit(c, files) ==
    [call EXCEPT ![c].pc = "commit", ![c].files = files, ![c].base = cache[call[c].w]]

\* Under the lane: the manifest again, then the pending receipt.  Without one
\* the files are produced.
Prepare(c) ==
    LET g == call[c].g IN
    /\ call[c].pc = "recheck"
    /\ \/ g \in manifest /\ Return(c, TRUE) /\ UNCHANGED faults
       \/ /\ g \notin manifest
          /\ \/ /\ receipt[g] # "none"
                /\ call' = StartCommit(c, receipt[g])
             \/ /\ receipt[g] = "none"
                /\ call' = [call EXCEPT ![c].pc = "receipt", ![c].files = Produced(g)]
          /\ UNCHANGED <<lane, hostVars, faults>>
       \/ g \notin manifest /\ Fault /\ Return(c, FALSE)
    /\ UNCHANGED <<cache, storeVars>>

\* write_grouped_pending replaces whatever is there.
WriteReceipt(c) ==
    LET new == [receipt EXCEPT ![call[c].g] = call[c].files] IN
    /\ call[c].pc = "receipt"
    /\ \/ /\ receipt' = new
          /\ call' = StartCommit(c, call[c].files)
          /\ UNCHANGED <<lane, hostVars, faults>>
       \/ receipt' \in {receipt, new} /\ Fault /\ Return(c, FALSE)
    /\ UNCHANGED <<cache, table, visible, rows, tokens, manifest, flight>>

\* table_for_write without a cached table, which it caches, and load_table of
\* the later attempts.
LoadTable(c) ==
    /\ call[c].pc = "commit" /\ call[c].base = NoTable /\ call[c].tries < Attempts
    /\ \/ /\ call' = [call EXCEPT ![c].base = table]
          /\ cache' = IF call[c].tries > 0 THEN cache
                      ELSE [cache EXCEPT ![call[c].w] = table]
          /\ UNCHANGED <<lane, hostVars, faults>>
       \/ Fault /\ Return(c, FALSE) /\ UNCHANGED cache
    /\ UNCHANGED storeVars

\* Mutant of CommitTo: the snapshot does not carry the group's key.
MutKeyNotStamped(t, g) == [version |-> t.version + 1, snaps |-> t.snaps, head |-> g]

\* What a commit of g does to the table; the version is the current
\* snapshot's id.
CommitTo(t, g) == [version |-> t.version + 1, snaps |-> t.snaps \cup {g}, head |-> g]

Committed(g, files) ==
    /\ table' = CommitTo(table, g)
    /\ rows' = [rows EXCEPT ![g] = @ + 1]
    /\ visible' = CASE files = "insert" -> visible \cup {g}
                    [] files = "upsert" -> {g}
                    [] OTHER -> visible

\* table_has_grouped_snapshot on the base.
GateHit(c) ==
    /\ call[c].pc = "commit" /\ call[c].base # NoTable /\ call[c].tries < Attempts
    /\ call[c].g \in call[c].base.snaps
    /\ call' = [call EXCEPT ![c].pc = "state", ![c].already = TRUE]
    /\ UNCHANGED <<lane, cache, storeVars, hostVars, faults>>

\* Mutant of NextAttempt: the next attempt starts from the cached table again.
MutRetryFromCache(c) ==
    call' = [call EXCEPT ![c].base = cache[call[c].w], ![c].tries = @ + 1]

\* An attempt that reports an error: the next one loads the table.
NextAttempt(c) ==
    call' = [call EXCEPT ![c].base = NoTable, ![c].tries = @ + 1]

\* commit_without_rebase: the catalog takes the commit if the current
\* snapshot is the base's (RefSnapshotIdMatch).  The request or its answer
\* can be lost, the request also arrive later.
TryCommit(c) ==
    LET g == call[c].g
        base == call[c].base
    IN
    /\ call[c].pc = "commit" /\ base # NoTable /\ call[c].tries < Attempts
    /\ g \notin base.snaps
    /\ \/ /\ base.version = table.version
          /\ Committed(g, call[c].files)
          /\ call' = [call EXCEPT ![c].pc = "state", ![c].base = CommitTo(table, g)]
          /\ UNCHANGED <<flight, faults>>
       \/ /\ base.version = table.version
          /\ Committed(g, call[c].files) /\ NextAttempt(c) /\ Fault
          /\ UNCHANGED flight
       \/ /\ base.version # table.version
          /\ NextAttempt(c)
          /\ UNCHANGED <<table, rows, visible, flight, faults>>
       \/ /\ flight' = flight \cup {[g |-> g, version |-> base.version,
                                      files |-> call[c].files]}
          /\ NextAttempt(c) /\ Fault
          /\ UNCHANGED <<table, rows, visible>>
    /\ UNCHANGED <<lane, cache, receipt, tokens, manifest, hostVars>>

\* A commit request that was given up reaches the catalog.
LateCommit ==
    /\ \E f \in flight :
          /\ flight' = flight \ {f}
          /\ \/ f.version = table.version /\ Committed(f.g, f.files)
             \/ f.version # table.version /\ UNCHANGED <<table, rows, visible>>
    /\ UNCHANGED <<call, lane, cache, receipt, tokens, manifest, hostVars, faults>>

GiveUp(c) ==
    /\ call[c].pc = "commit" /\ call[c].tries = Attempts
    /\ Return(c, FALSE)
    /\ UNCHANGED <<cache, storeVars, faults>>

\* The tokens after persist_cdc_state_delta, which keeps the greater one.
Merged(c) == IF call[c].files # "empty" /\ call[c].g > tokens THEN call[c].g ELSE tokens

\* Mutant of PersistState: tokens are persisted only by the call that commits.
MutStateOnlyIfApplied(c) ==
    /\ call[c].pc = "state"
    /\ tokens' = IF call[c].already THEN tokens ELSE Merged(c)
    /\ cache' = [cache EXCEPT ![call[c].w] = call[c].base]
    /\ call' = [call EXCEPT ![c].pc = "manifest"]
    /\ UNCHANGED <<table, visible, rows, receipt, manifest, flight, lane, hostVars, faults>>

\* The order tokens of the pending receipt are persisted, if it has any; then
\* the committed table goes to the cache.
PersistState(c) ==
    /\ call[c].pc = "state"
    /\ \/ /\ tokens' = Merged(c)
          /\ cache' = [cache EXCEPT ![call[c].w] = call[c].base]
          /\ call' = [call EXCEPT ![c].pc = "manifest"]
          /\ UNCHANGED <<lane, hostVars, faults>>
       \/ /\ call[c].files # "empty" /\ tokens' \in {tokens, Merged(c)}
          /\ Fault /\ Return(c, FALSE)
          /\ UNCHANGED cache
    /\ UNCHANGED <<table, visible, rows, receipt, manifest, flight>>

\* write_manifest; a call that found its commit there is AlreadyApplied.
WriteManifest(c) ==
    /\ call[c].pc = "manifest"
    /\ \/ /\ manifest' = manifest \cup {call[c].g}
          /\ \/ call[c].already /\ Return(c, TRUE)
             \/ /\ ~call[c].already
                /\ call' = [call EXCEPT ![c].pc = "expire"]
                /\ UNCHANGED <<lane, hostVars>>
          /\ UNCHANGED faults
       \/ /\ manifest' \in {manifest, manifest \cup {call[c].g}}
          /\ Fault /\ Return(c, FALSE)
    /\ UNCHANGED <<cache, table, visible, rows, receipt, tokens, flight>>

\* Mutant of Expirable: snapshots of live segments expire too.
MutExpireLive(c) ==
    {g \in call[c].base.snaps : /\ g # call[c].base.head
                                /\ \A d \in Calls : Active(d) => call[d].g # g}

\* SnapshotFacts::eligible: not the current snapshot and of no live segment.
\* It is a day old, which no call of its group is.
Expirable(c) ==
    {g \in call[c].base.snaps : /\ g # call[c].base.head /\ g \notin call[c].live
                                /\ \A d \in Calls : Active(d) => call[d].g # g}

\* expire_history from the committed table: thresholds and batches are
\* abstracted to any set.  A failure is ignored, and the call is Applied.
\* Another snapshot makes it fail; the current one stays.
Expire(c) ==
    /\ call[c].pc = "expire"
    /\ Return(c, TRUE)
    /\ \/ UNCHANGED <<table, cache>>
       \/ /\ call[c].base.version = table.version
          /\ \E S \in SUBSET Expirable(c) \ {{}} : table' = [table EXCEPT !.snaps = @ \ S]
          /\ cache' \in {cache, [cache EXCEPT ![call[c].w] =
                                     IF @ = NoTable THEN NoTable ELSE table']}
    /\ UNCHANGED <<visible, rows, receipt, tokens, manifest, flight, faults>>

\* install_schema_delta drops the cached table.
InstallSchema(w) ==
    /\ cache[w] # NoTable
    /\ cache' = [cache EXCEPT ![w] = NoTable]
    /\ UNCHANGED <<call, lane, storeVars, hostVars, faults>>

\* A process of the pool dies with its calls.
WriterDies(w) ==
    /\ Fault
    /\ call' = [c \in Calls |-> IF call[c].w = w THEN Idle ELSE call[c]]
    /\ lane' = [lane EXCEPT ![w] = NoCall] /\ cache' = [cache EXCEPT ![w] = NoTable]
    /\ awaited' = IF awaited # NoCall /\ call[awaited].w = w THEN NoCall ELSE awaited
    /\ UNCHANGED <<storeVars, acked>>

----------------------------------------------------------------------------

Step(c) == \/ CheckManifest(c) \/ TakeLane(c) \/ Prepare(c) \/ WriteReceipt(c)
           \/ LoadTable(c) \/ GateHit(c) \/ TryCommit(c) \/ GiveUp(c)
           \/ PersistState(c) \/ WriteManifest(c) \/ Expire(c)

HostStep == \E c \in Calls, g \in Groups, w \in Writers : Dispatch(c, g, w)

Next == \/ HostStep \/ TimeOut \/ LateCommit
        \/ \E c \in Calls : Step(c)
        \/ \E w \in Writers : InstallSchema(w) \/ WriterDies(w)

Spec == Init /\ [][Next]_vars

(* The compactor retries what is not written, and a call runs on.  Faults, *)
(* timeouts, deaths and late requests are not owed.                        *)
FairSpec == Spec /\ WF_vars(HostStep) /\ \A c \in Calls : WF_vars(Step(c))

----------------------------------------------------------------------------
(* Properties                                                              *)

Files == {"insert", "upsert", "empty"}

TableType == [version : Nat, snaps : SUBSET Groups, head : 0..NumGroups]

CallType == [pc : {"idle", "check", "lane", "recheck", "receipt", "commit", "state",
                   "manifest", "expire"},
             g : 0..NumGroups, w : Writers \cup {NoCall}, live : SUBSET Groups,
             base : TableType \cup {NoTable}, files : {"none"} \cup Files,
             tries : 0..Attempts, already : BOOLEAN]

TypeOK ==
    /\ call \in [Calls -> CallType]
    /\ lane \in [Writers -> Calls \cup {NoCall}]
    /\ cache \in [Writers -> TableType \cup {NoTable}]
    /\ table \in TableType
    /\ visible \subseteq Groups /\ rows \in [Groups -> Nat]
    /\ receipt \in [Groups -> {"none"} \cup Files]
    /\ tokens \in 0..NumGroups /\ manifest \subseteq Groups
    /\ flight \subseteq [g : Groups, version : Nat, files : Files]
    /\ awaited \in Calls \cup {NoCall} /\ acked \subseteq Groups
    /\ faults \in 0..MaxFaults

Ledger == INSTANCE SinkLedger WITH written <- rows, answered <- acked

\* The sink is an exactly-once ledger: retries, late calls, lost answers,
\* stale cached tables and expired snapshots never write a group twice, and
\* a group reported as written is in the table.
ImplementsLedger == Ledger!LedgerSpec

\* As long as no manifest tells that a group is written, the table still has
\* its snapshot (SnapshotFacts::eligible asks for live segments), so that a
\* retry finds it.
GateSurvives == \A g \in Groups : rows[g] > 0 /\ g \notin manifest => g \in table.snaps

\* A group the host takes as written needs no retry: its manifest is there,
\* and the groups that come after it find an order token that is no older.
AckedIsComplete == acked \subseteq manifest /\ \A g \in acked : tokens >= g

\* Every group is written and acknowledged in the end.
EventuallyAcked == <>(acked = Groups)

\* When every group is acknowledged, a reader sees the newest row of the key
\* and no other (docs/docs/cdc/guarantees.md: "the destination rows for the
\* replicated set should match the source").
TableMatchesSource == acked = Groups => visible = {NumGroups}
=============================================================================
