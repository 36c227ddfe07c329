------------------------- MODULE WalCompactionProof -------------------------
(***************************************************************************)
(* Compaction never marks a slice done, never drops a segment and never    *)
(* acknowledges a compaction whose slices the sink has not applied: for    *)
(* any number of segments, slices, workers, failures, crashes and          *)
(* hydrates, and for every pipeline type and write policy.                 *)
(***************************************************************************)
EXTENDS WalCompaction, TLAPS

Committed(s) == row[SegmentOf[s]] # "none"

Applied(s) == delivered[s] > 0

\* What planner, writer and catalog rows refer to has been committed, so
\* that a missing row can only mean a dropped one (slice_is_done).
CommittedInv ==
    /\ \A g \in cache \cup unregistered : row[g] # "none"
    /\ hydrate.pc = "register" => row[hydrate.seg] # "none"
    /\ \A i \in Ids : comp[i] # "none" => \A s \in i : Committed(s)

\* A job leaves out only slices that are applied already; past the sink's
\* answer all are.
JobInv ==
    \A w \in Workers : jobs[w].pc # "idle" =>
        /\ jobs[w].entries \subseteq jobs[w].id
        /\ \A s \in jobs[w].id :
                Committed(s) /\ (s \in jobs[w].entries \/ Applied(s))
        /\ jobs[w].pc \in MidPoll => \A s \in jobs[w].id : Applied(s)

\* A sink call under an id, first or repeated, early or late, leaves all
\* slices of the id applied.
SinkInv ==
    /\ \A q \in requests : \A s \in q.id : s \in q.entries \/ Applied(s)
    /\ \A i \in ledger : \A s \in i : Applied(s)

\* The ids handed to the background redo are applied.
RedoInv == \A i \in redo : \A s \in i : Applied(s)

\* The slices of a running job are in flight.
FlightInv ==
    \A w \in Workers : jobs[w].pc \in Running => jobs[w].entries \subseteq inFlight

IInv ==
    /\ TypeOK
    /\ CommittedInv
    /\ JobInv
    /\ SinkInv
    /\ RedoInv
    /\ FlightInv
    /\ InFlightExclusive
    /\ DoneIsDelivered
    /\ AckedIsDelivered

-----------------------------------------------------------------------------
(* Helpers.                                                                *)

SliceStates == {"absent", "available", "reserved", "fenced"}

\* Ids are sets of slices.
LEMMA IdsFacts == \A i \in Ids : i \subseteq Slices
BY DEF Ids

\* The planner's operations return a state for every slice.
LEMMA IndexOps ==
    ASSUME NEW idx \in [Slices -> SliceStates]
    PROVE  /\ \A m, g, fresh :
                RegisterSegment(idx, m, g, fresh) \in [Slices -> SliceStates]
           /\ \A S : RemoveSlices(idx, S) \in [Slices -> SliceStates]
           /\ \A m, i : Refence(idx, m, i) \in [Slices -> SliceStates]
           /\ \A m, i : ReleaseRefs(idx, m, i) \in [Slices -> SliceStates]
           /\ \A i : Unfence(idx, i) \in [Slices -> SliceStates]
<1>1. \A m, g, fresh : RegisterSegment(idx, m, g, fresh) \in [Slices -> SliceStates]
  BY DEF RegisterSegment, SliceStates
<1>2. \A S : RemoveSlices(idx, S) \in [Slices -> SliceStates]
  BY DEF RemoveSlices, SliceStates
<1>3. \A m, i : Refence(idx, m, i) \in [Slices -> SliceStates]
  BY DEF Refence, SliceStates
<1>4. \A m, i : ReleaseRefs(idx, m, i) \in [Slices -> SliceStates]
  BY DEF ReleaseRefs, SliceStates
<1>5. \A i : Unfence(idx, i) \in [Slices -> SliceStates]
  BY DEF Unfence, SliceStates
<1>. QED BY <1>1, <1>2, <1>3, <1>4, <1>5

\* A job that is not idle has an id and entries, and once it reclaims also a
\* list of segments.
LEMMA JobFacts ==
    ASSUME TypeOK, NEW w \in Workers
    PROVE  /\ jobs[w] = NoJob <=> jobs[w].pc = "idle"
           /\ jobs[w].pc \in {"idle", "planned", "building", "sent", "acking",
                              "reclaiming"}
           /\ jobs[w].pc # "idle" =>
                jobs[w].id \in Ids /\ jobs[w].entries \in SUBSET Slices
           /\ jobs[w].pc = "reclaiming" =>
                /\ jobs[w].todo \in SUBSET Segments
                /\ jobs[w] \in [pc : {"reclaiming"}, id : Ids,
                                entries : SUBSET Slices, todo : SUBSET Segments]
           /\ jobs[w].pc \in {"planned", "building", "sent", "acking"} =>
                jobs[w] \in [pc : {"planned", "building", "sent", "acking"},
                             id : Ids, entries : SUBSET Slices]
<1>1. jobs[w] \in JobType
  BY DEF TypeOK
<1>2. CASE jobs[w] = NoJob
  BY <1>2 DEF NoJob
<1>3. CASE jobs[w] \in [pc : {"planned", "building", "sent", "acking"},
                        id : Ids, entries : SUBSET Slices]
  BY <1>3 DEF NoJob
<1>4. CASE jobs[w] \in [pc : {"reclaiming"}, id : Ids,
                        entries : SUBSET Slices, todo : SUBSET Segments]
  BY <1>4 DEF NoJob
<1>. QED BY <1>1, <1>2, <1>3, <1>4 DEF JobType

-----------------------------------------------------------------------------
(* Types.                                                                  *)

\* A job that takes another program counter, or is replaced, keeps its type.
LEMMA JobsType ==
    ASSUME TypeOK, NEW w \in Workers
    PROVE  /\ [jobs EXCEPT ![w] = NoJob] \in [Workers -> JobType]
           /\ \A i \in Ids, E \in SUBSET Slices :
                [jobs EXCEPT ![w] = Job("planned", i, E)] \in [Workers -> JobType]
           /\ jobs[w].pc \in {"planned", "building", "sent"} =>
                \A pc \in {"building", "sent", "acking"} :
                    [jobs EXCEPT ![w].pc = pc] \in [Workers -> JobType]
           /\ jobs[w].pc = "acking" =>
                \A T \in SUBSET Segments :
                    [jobs EXCEPT ![w] = [pc |-> "reclaiming", id |-> jobs[w].id,
                                         entries |-> jobs[w].entries, todo |-> T]]
                        \in [Workers -> JobType]
           /\ jobs[w].pc = "reclaiming" =>
                \A g : [jobs EXCEPT ![w].todo = @ \ {g}] \in [Workers -> JobType]
<1>1. jobs \in [Workers -> JobType]
  BY DEF TypeOK
<1>2. [jobs EXCEPT ![w] = NoJob] \in [Workers -> JobType]
  BY <1>1 DEF JobType
<1>3. ASSUME NEW i \in Ids, NEW E \in SUBSET Slices
      PROVE  [jobs EXCEPT ![w] = Job("planned", i, E)] \in [Workers -> JobType]
  <2>1. Job("planned", i, E) \in JobType
    BY DEF Job, JobType
  <2>. QED BY <1>1, <2>1
<1>4. ASSUME jobs[w].pc \in {"planned", "building", "sent"},
             NEW pc \in {"building", "sent", "acking"}
      PROVE  [jobs EXCEPT ![w].pc = pc] \in [Workers -> JobType]
  <2>1. jobs[w] \in [pc : {"planned", "building", "sent", "acking"},
                     id : Ids, entries : SUBSET Slices]
    BY <1>4, JobFacts
  <2>2. [jobs[w] EXCEPT !.pc = pc] \in JobType
    BY <2>1 DEF JobType
  <2>. QED BY <1>1, <2>2
<1>5. ASSUME jobs[w].pc = "acking", NEW T \in SUBSET Segments
      PROVE  [jobs EXCEPT ![w] = [pc |-> "reclaiming", id |-> jobs[w].id,
                                  entries |-> jobs[w].entries, todo |-> T]]
                \in [Workers -> JobType]
  <2>1. jobs[w].id \in Ids /\ jobs[w].entries \in SUBSET Slices
    BY <1>5, JobFacts
  <2>2. [pc |-> "reclaiming", id |-> jobs[w].id,
         entries |-> jobs[w].entries, todo |-> T] \in JobType
    BY <2>1 DEF JobType
  <2>. QED BY <1>1, <2>2
<1>6. ASSUME jobs[w].pc = "reclaiming", NEW g
      PROVE  [jobs EXCEPT ![w].todo = @ \ {g}] \in [Workers -> JobType]
  <2>1. jobs[w] \in [pc : {"reclaiming"}, id : Ids,
                     entries : SUBSET Slices, todo : SUBSET Segments]
    BY <1>6, JobFacts
  <2>2. [jobs[w] EXCEPT !.todo = @ \ {g}] \in JobType
    BY <2>1 DEF JobType
  <2>. QED BY <1>1, <2>2
<1>. QED BY <1>2, <1>3, <1>4, <1>5, <1>6

\* Setting done bits keeps the types of what it writes.
LEMMA SetDoneType ==
    ASSUME TypeOK, NEW S \in SUBSET Slices, SetDone(S)
    PROVE  /\ done' \in SUBSET Slices
           /\ row' \in [Segments -> {"none", "live", "reclaimed"}]
           /\ cache' \in SUBSET Segments
           /\ index' \in [Slices -> SliceStates]
<1>1. index \in [Slices -> SliceStates]
  BY DEF TypeOK, SliceStates
<1>2. index' \in [Slices -> SliceStates]
  BY <1>1, IndexOps DEF SetDone
<1>. QED BY <1>2 DEF TypeOK, SetDone

\* Every step of the compactor keeps the types.
LEMMA TypeStep == TypeOK /\ [Next]_vars => TypeOK'
<1>. SUFFICES ASSUME TypeOK, [Next]_vars PROVE TypeOK'
  OBVIOUS
<1>. USE CompactionBoundsAssumption
<1>. USE DEF durableVars, plannerVars, sinkVars, bounds
<1>a. index \in [Slices -> SliceStates]
  BY DEF TypeOK, SliceStates
<1>b. \A S \in SUBSET Slices : SegmentsOf(S) \in SUBSET Segments
  BY ShapeAssumption DEF SegmentsOf
<1>c. \A i \in Ids : Remaining(i) \in SUBSET Slices
  BY IdsFacts DEF Remaining
<1>1. ASSUME NEW g \in Segments, CommitSegment(g) PROVE TypeOK'
  BY <1>1 DEF CommitSegment, TypeOK
<1>2. ASSUME NEW g \in Segments, SegmentCacheRegister(g) PROVE TypeOK'
  <2>1. index' \in [Slices -> SliceStates]
    BY <1>2, <1>a, IndexOps DEF SegmentCacheRegister
  <2>. QED BY <1>2, <2>1 DEF SegmentCacheRegister, TypeOK, SliceStates
<1>3. ASSUME NEW w \in Workers, NEW i \in Ids, PlanManifest(w, i) PROVE TypeOK'
  <2>1. index' \in [Slices -> SliceStates]
    BY <1>3, <1>a, IndexOps DEF PlanManifest
  <2>2. jobs' \in [Workers -> JobType]
    BY <1>3, <1>c, JobsType DEF PlanManifest
  <2>. QED BY <1>3, <2>1, <2>2 DEF PlanManifest, TypeOK, SliceStates
<1>4. ASSUME NEW i \in Ids, SkipManifest(i) PROVE TypeOK'
  <2>1. index' \in [Slices -> SliceStates]
    BY <1>4, <1>a, IndexOps DEF SkipManifest
  <2>. QED BY <1>4, <2>1 DEF SkipManifest, TypeOK, SliceStates
<1>5. ASSUME NEW w \in Workers, NEW i \in Ids, PlanGroup(w, i) PROVE TypeOK'
  <2>1. index' \in [Slices -> SliceStates]
    BY <1>5, <1>a DEF PlanGroup, SliceStates
  <2>2. jobs' \in [Workers -> JobType]
    BY <1>5, IdsFacts, JobsType DEF PlanGroup
  <2>. QED BY <1>5, <2>1, <2>2 DEF PlanGroup, TypeOK, SliceStates
<1>6. ASSUME NEW w \in Workers, JobStart(w) PROVE TypeOK'
  <2>1. jobs[w].id \in Ids /\ jobs[w].entries \in SUBSET Slices
    BY <1>6, JobFacts DEF JobStart
  <2>2. index' \in [Slices -> SliceStates]
    BY <1>6, <1>a, IndexOps DEF JobStart, StartsCopy, PersistsPending, UpsertManifest
  <2>3. jobs' \in [Workers -> JobType]
    BY <1>6, JobsType DEF JobStart
  <2>4. /\ comp' \in [Ids -> {"none", "pending", "sent", "acked"}]
        /\ manifests' \in [Ids -> {"none", "pending", "sent"}]
        /\ reserved' \subseteq Ids
    BY <1>6, <2>1 DEF JobStart, StartsCopy, PersistsPending, UpsertManifest, TypeOK
  <2>. QED BY <1>6, <2>1, <2>2, <2>3, <2>4 DEF JobStart, TypeOK, SliceStates
<1>7. ASSUME NEW w \in Workers, JobRefused(w) PROVE TypeOK'
  <2>1. index' \in [Slices -> SliceStates]
    BY <1>7, <1>a, IndexOps DEF JobRefused
  <2>2. jobs' \in [Workers -> JobType]
    BY <1>7, JobsType DEF JobRefused
  <2>. QED BY <1>7, <2>1, <2>2 DEF JobRefused, TypeOK, SliceStates
<1>8. ASSUME NEW w \in Workers, JobSend(w) PROVE TypeOK'
  <2>1. jobs[w].id \in Ids /\ jobs[w].entries \in SUBSET Slices
    BY <1>8, JobFacts DEF JobSend
  <2>2. index' \in [Slices -> SliceStates]
    BY <1>8, <1>a, IndexOps DEF JobSend, UpsertManifest
  <2>3. jobs' \in [Workers -> JobType]
    BY <1>8, JobsType DEF JobSend
  <2>4. requests' \subseteq [id : Ids, entries : SUBSET Slices]
    BY <1>8, <2>1 DEF JobSend, TypeOK
  <2>. QED BY <1>8, <2>1, <2>2, <2>3, <2>4
           DEF JobSend, UpsertManifest, TypeOK, SliceStates
<1>9. ASSUME NEW q \in requests, SinkLands(q) PROVE TypeOK'
  <2>1. delivered' \in [Slices -> 0..2]
    BY <1>9 DEF SinkLands, Bump, TypeOK
  <2>2. q.id \in Ids
    BY DEF TypeOK
  <2>. QED BY <1>9, <2>1, <2>2 DEF SinkLands, TypeOK
<1>10. ASSUME NEW w \in Workers, SinkOk(w) PROVE TypeOK'
  <2>1. jobs' \in [Workers -> JobType]
    BY <1>10, JobsType DEF SinkOk
  <2>. QED BY <1>10, <2>1 DEF SinkOk, TypeOK
<1>11. ASSUME NEW w \in Workers, JobAck(w) PROVE TypeOK'
  <2>1. jobs[w].id \in Ids /\ jobs[w].entries \in SUBSET Slices
    BY <1>11, JobFacts DEF JobAck
  <2>2. index' \in [Slices -> SliceStates]
    BY <1>11, <1>a, IndexOps DEF JobAck
  <2>3. jobs' \in [Workers -> JobType]
    BY <1>11, <2>1, <1>b, JobsType DEF JobAck
  <2>. QED BY <1>11, <2>1, <2>2, <2>3 DEF JobAck, TypeOK, SliceStates
<1>12. ASSUME NEW w \in Workers, NEW g \in Segments,
              CompleteSlicesAndReclaim(w, g)
       PROVE  TypeOK'
  <2>1. jobs[w].entries \cap SlicesOf(g) \in SUBSET Slices
    BY DEF SlicesOf
  <2>2. /\ done' \in SUBSET Slices
        /\ row' \in [Segments -> {"none", "live", "reclaimed"}]
        /\ cache' \in SUBSET Segments
        /\ index' \in [Slices -> SliceStates]
    <3>1. CASE row[g] = "live"
      BY <1>12, <2>1, <3>1, SetDoneType DEF CompleteSlicesAndReclaim
    <3>2. CASE row[g] # "live"
      BY <1>12, <1>a, <3>2, IndexOps DEF CompleteSlicesAndReclaim, TypeOK
    <3>. QED BY <3>1, <3>2
  <2>3. jobs' \in [Workers -> JobType]
    BY <1>12, JobsType DEF CompleteSlicesAndReclaim
  <2>. QED BY <1>12, <2>2, <2>3 DEF CompleteSlicesAndReclaim, TypeOK, SliceStates
<1>13. ASSUME NEW w \in Workers, JobDone(w) PROVE TypeOK'
  <2>1. jobs[w].id \in Ids
    BY <1>13, JobFacts DEF JobDone
  <2>2. index' \in [Slices -> SliceStates]
    <3>1. Unfence(index, jobs[w].id) \in [Slices -> SliceStates]
      BY <1>a, IndexOps
    <3>. QED BY <1>13, <3>1, IndexOps DEF JobDone
  <2>3. jobs' \in [Workers -> JobType]
    BY <1>13, JobsType DEF JobDone
  <2>. QED BY <1>13, <2>1, <2>2, <2>3 DEF JobDone, TypeOK, SliceStates
<1>14. ASSUME NEW w \in Workers, JobFails(w) PROVE TypeOK'
  <2>1. index' \in [Slices -> SliceStates]
    BY <1>14, <1>a, IndexOps DEF JobFails, ReleaseWork
  <2>2. jobs' \in [Workers -> JobType]
    BY <1>14, JobsType DEF JobFails, ReleaseWork
  <2>. QED BY <1>14, <2>1, <2>2 DEF JobFails, ReleaseWork, TypeOK, SliceStates
<1>15. ASSUME NewCycle \/ BackgroundRedo PROVE TypeOK'
  <2>1. UNION AckedIds \in SUBSET Slices
        /\ UNION {i \in redo : comp[i] # "none"} \in SUBSET Slices
    BY IdsFacts DEF AckedIds, TypeOK
  <2>2. /\ done' \in SUBSET Slices
        /\ row' \in [Segments -> {"none", "live", "reclaimed"}]
        /\ cache' \in SUBSET Segments
        /\ index' \in [Slices -> SliceStates]
        /\ comp' \in [Ids -> {"none", "pending", "sent", "acked"}]
    <3>1. CASE Flush(AckedIds)
      BY <2>1, <3>1, SetDoneType DEF Flush, TypeOK
    <3>2. CASE Flush({i \in redo : comp[i] # "none"})
      BY <2>1, <3>2, SetDoneType DEF Flush, TypeOK
    <3>3. CASE UNCHANGED <<row, done, comp, cache, index>>
      BY <1>a, <3>3 DEF TypeOK
    <3>. QED BY <1>15, <3>1, <3>2, <3>3 DEF NewCycle, BackgroundRedo
  <2>3. redo' \subseteq Ids /\ redoFailures' \in 0..MaxRedoFailures
    BY <1>15 DEF NewCycle, BackgroundRedo, TypeOK
  <2>4. CASE NewCycle
    BY <2>2, <2>3, <2>4 DEF NewCycle, TypeOK, SliceStates
  <2>5. CASE BackgroundRedo
    BY <2>2, <2>3, <2>5 DEF BackgroundRedo, TypeOK, SliceStates
  <2>. QED BY <1>15, <2>4, <2>5
<1>16. ASSUME Crash PROVE TypeOK'
  <2>1. jobs' \in [Workers -> JobType]
    BY <1>16 DEF Crash, JobType
  <2>2. torn' \in BOOLEAN
    BY <1>16 DEF Crash
  <2>3. hydrate' \in HydrateType
    BY <1>16 DEF Crash, HydrateType
  <2>4. UNCHANGED <<durableVars, sinkVars, failures, redoFailures, hydrates>>
    BY <1>16 DEF Crash
  <2>5. /\ up' = FALSE /\ blocked' = TRUE
        /\ unregistered' = {} /\ cache' = {} /\ reserved' = {}
        /\ inFlight' = {} /\ redo' = {}
        /\ index' = [s \in Slices |-> "absent"]
        /\ manifests' = [i \in Ids |-> "none"]
        /\ crashes < MaxCrashes /\ crashes' = crashes + 1
    BY <1>16 DEF Crash
  <2>6. /\ crashes' \in 0..MaxCrashes
        /\ index' \in [Slices -> SliceStates]
        /\ manifests' \in [Ids -> {"none", "pending", "sent"}]
    BY <2>5 DEF TypeOK, SliceStates
  <2>7. up' \in BOOLEAN /\ blocked' \in BOOLEAN
    BY <2>5
  <2>. QED BY <2>1, <2>2, <2>3, <2>4, <2>5, <2>6, <2>7, Zenon
           DEF TypeOK, SliceStates
<1>17. ASSUME Startup PROVE TypeOK'
  <2>1. index' \in [Slices -> SliceStates]
    BY <1>17 DEF Startup, SliceStates
  <2>2. /\ manifests' \in [Ids -> {"none", "pending", "sent"}]
        /\ redo' \subseteq Ids
        /\ cache' \subseteq Segments
    BY <1>17 DEF Startup, Records, AckedIds, LiveSegments
  <2>. QED BY <1>17, <2>1, <2>2 DEF Startup, TypeOK, SliceStates
<1>18. ASSUME HydrateBegin PROVE TypeOK'
  <2>1. hydrate' \in HydrateType
    BY <1>18 DEF HydrateBegin, HydrateType, LiveSegments
  <2>. QED BY <1>18, <2>1 DEF HydrateBegin, TypeOK
<1>19. ASSUME NEW g \in Segments, HydrateCheck(g) PROVE TypeOK'
  <2>1. hydrate \in [pc : {"check"}, live : SUBSET Segments, todo : SUBSET Segments]
    BY <1>19 DEF HydrateCheck, TypeOK, HydrateType, NoHydrate
  <2>2. hydrate' \in HydrateType
    <3>1. CASE row[g] # "live"
      BY <1>19, <2>1, <3>1 DEF HydrateCheck, HydrateType
    <3>2. CASE row[g] = "live"
      BY <1>19, <2>1, <3>2 DEF HydrateCheck, HydrateType, SlicesOf
    <3>. QED BY <3>1, <3>2
  <2>. QED BY <1>19, <2>2 DEF HydrateCheck, TypeOK
<1>20. ASSUME HydrateRegister PROVE TypeOK'
  <2>1. hydrate \in [pc : {"register"}, live : SUBSET Segments,
                     todo : SUBSET Segments, seg : Segments, fresh : SUBSET Slices]
    BY <1>20 DEF HydrateRegister, TypeOK, HydrateType, NoHydrate
  <2>2. hydrate' \in HydrateType
    BY <1>20, <2>1 DEF HydrateRegister, HydrateType
  <2>3. index' \in [Slices -> SliceStates]
    BY <1>20, <1>a, IndexOps DEF HydrateRegister
  <2>. QED BY <1>20, <2>1, <2>2, <2>3 DEF HydrateRegister, TypeOK, SliceStates
<1>21. ASSUME HydrateRows PROVE TypeOK'
  <2>1. hydrate \in [pc : {"check"}, live : SUBSET Segments, todo : SUBSET Segments]
    BY <1>21 DEF HydrateRows, TypeOK, HydrateType, NoHydrate
  <2>2. hydrate' \in HydrateType
    BY <1>21, <2>1 DEF HydrateRows, HydratedRows, HydrateType
  <2>. QED BY <1>21, <2>2 DEF HydrateRows, TypeOK
<1>22. ASSUME HydrateInstall PROVE TypeOK'
  <2>1. index' \in [Slices -> SliceStates]
    BY <1>22, <1>a DEF HydrateInstall, SliceStates
  <2>2. manifests' \in [Ids -> {"none", "pending", "sent"}]
    BY <1>22 DEF HydrateInstall, Records
  <2>. QED BY <1>22, <2>1, <2>2 DEF HydrateInstall, TypeOK, HydrateType, SliceStates
<1>23. CASE UNCHANGED vars
  BY <1>23 DEF vars, TypeOK
<1>. QED
  BY <1>1, <1>2, <1>3, <1>4, <1>5, <1>6, <1>7, <1>8, <1>9, <1>10, <1>11, <1>12,
     <1>13, <1>14, <1>15, <1>16, <1>17, <1>18, <1>19, <1>20, <1>21, <1>22, <1>23
  DEF Next, PlanStep, JobStep, HydrateStep

-----------------------------------------------------------------------------
(* Safety.                                                                 *)

\* A step takes back neither a commit nor what the sink has applied.
Grows ==
    /\ \A g \in Segments : row[g] # "none" => row'[g] # "none"
    /\ \A s \in Slices : Applied(s) => Applied(s)'

\* A committed slice that slice_is_done calls done has been applied.
LEMMA DoneIsApplied ==
    ASSUME IInv, NEW s \in Slices, Committed(s), SliceIsDone(s)
    PROVE  Applied(s)
<1>1. row[SegmentOf[s]] \in {"live", "reclaimed"}
  BY ShapeAssumption DEF IInv, TypeOK, Committed
<1>. QED BY <1>1 DEF IInv, DoneIsDelivered, SliceIsDone, Applied

\* What a step leaves alone stays as it was.
LEMMA Frame ==
    ASSUME IInv, Grows
    PROVE  /\ UNCHANGED jobs => JobInv'
           /\ UNCHANGED <<requests, ledger>> => SinkInv'
           /\ UNCHANGED redo => RedoInv'
           /\ UNCHANGED <<jobs, inFlight>> => FlightInv' /\ InFlightExclusive'
           /\ UNCHANGED <<row, done>> => DoneIsDelivered'
           /\ UNCHANGED comp => AckedIsDelivered'
           /\ UNCHANGED <<cache, unregistered, hydrate, comp>> => CommittedInv'
<1>1. \A i \in Ids : \A s \in i : s \in Slices /\ SegmentOf[s] \in Segments
  BY IdsFacts, ShapeAssumption
<1>2. \A i \in Ids : \A s \in i : /\ Committed(s) => Committed(s)'
                                  /\ Applied(s) => Applied(s)'
  BY <1>1 DEF Grows, Committed
<1>3. ASSUME UNCHANGED jobs PROVE JobInv'
  <2>1. \A w \in Workers : jobs[w].pc # "idle" => jobs[w].id \in Ids
    BY JobFacts DEF IInv
  <2>. QED BY <1>2, <1>3, <2>1 DEF IInv, JobInv
<1>4. ASSUME UNCHANGED <<requests, ledger>> PROVE SinkInv'
  <2>1. (\A q \in requests : q.id \in Ids) /\ ledger \subseteq Ids
    BY DEF IInv, TypeOK
  <2>. QED BY <1>2, <1>4, <2>1 DEF IInv, SinkInv
<1>5. ASSUME UNCHANGED redo PROVE RedoInv'
  BY <1>2, <1>5 DEF IInv, TypeOK, RedoInv
<1>6. ASSUME UNCHANGED <<jobs, inFlight>> PROVE FlightInv' /\ InFlightExclusive'
  BY <1>6 DEF IInv, FlightInv, InFlightExclusive
<1>7. ASSUME UNCHANGED <<row, done>> PROVE DoneIsDelivered'
  BY <1>7 DEF IInv, Grows, Applied, DoneIsDelivered
<1>8. ASSUME UNCHANGED comp PROVE AckedIsDelivered'
  BY <1>2, <1>8 DEF IInv, Applied, AckedIsDelivered
<1>9. ASSUME UNCHANGED <<cache, unregistered, hydrate, comp>> PROVE CommittedInv'
  <2>1. \A g \in cache \cup unregistered : row'[g] # "none"
    BY DEF IInv, TypeOK, CommittedInv, Grows
  <2>2. hydrate.pc = "register" => row'[hydrate.seg] # "none"
    <3>1. hydrate.pc = "register" => hydrate.seg \in Segments
      BY DEF IInv, TypeOK, HydrateType, NoHydrate
    <3>. QED BY <3>1 DEF IInv, CommittedInv, Grows
  <2>. QED BY <1>2, <1>9, <2>1, <2>2 DEF IInv, CommittedInv
<1>. QED BY <1>3, <1>4, <1>5, <1>6, <1>7, <1>8, <1>9

\* A step that touches neither segment rows nor deliveries takes nothing back.
LEMMA Same == UNCHANGED <<row, delivered>> => Grows
BY DEF Grows, Applied

\* The bits of applied slices may be set, and full segments dropped.
LEMMA SetDoneSafe ==
    ASSUME IInv, NEW S \in SUBSET Slices, \A s \in S : Applied(s), SetDone(S),
           UNCHANGED delivered
    PROVE  Grows /\ DoneIsDelivered' /\ cache' \subseteq cache
<1>1. Grows
  BY DEF IInv, TypeOK, SetDone, Grows, Applied
<1>2. \A s \in done' : Applied(s)
  BY DEF IInv, TypeOK, DoneIsDelivered, Applied, SetDone
<1>3. ASSUME NEW s \in Slices, row'[SegmentOf[s]] = "reclaimed"
      PROVE  Applied(s)
  <2>1. SegmentOf[s] \in Segments
    BY ShapeAssumption
  <2>2. CASE row[SegmentOf[s]] = "reclaimed"
    BY <2>2 DEF IInv, DoneIsDelivered, Applied
  <2>3. CASE row[SegmentOf[s]] # "reclaimed"
    <3>1. SlicesOf(SegmentOf[s]) \subseteq done'
      BY <1>3, <2>1, <2>3 DEF SetDone
    <3>. QED BY <1>2, <3>1 DEF SlicesOf
  <2>. QED BY <2>2, <2>3
<1>. QED BY <1>1, <1>2, <1>3 DEF DoneIsDelivered, Applied, SetDone

\* Acked rows, and rows whose slices are all done, are applied.
LEMMA AckedIdsApplied ==
    ASSUME IInv
    PROVE  \A i \in AckedIds : i \in Ids /\ \A s \in i : s \in Slices /\ Applied(s)
<1>. SUFFICES ASSUME NEW i \in AckedIds, NEW s \in i
              PROVE  i \in Ids /\ s \in Slices /\ Applied(s)
  BY DEF AckedIds
<1>1. i \in Ids /\ s \in Slices
  BY IdsFacts DEF AckedIds
<1>2. CASE comp[i] = "acked"
  BY <1>1, <1>2 DEF IInv, AckedIsDelivered, Applied
<1>3. CASE comp[i] # "none" /\ SliceIsDone(s)
  BY <1>1, <1>3, DoneIsApplied DEF IInv, CommittedInv
<1>. QED BY <1>1, <1>2, <1>3 DEF AckedIds

\* A step that replaces the job of one worker keeps the other jobs' promises.
LEMMA OneJob ==
    ASSUME IInv, Grows, NEW w \in Workers,
           \A v \in Workers \ {w} : jobs'[v] = jobs[v],
           jobs'[w].pc # "idle" =>
                /\ jobs'[w].entries \subseteq jobs'[w].id
                /\ \A s \in jobs'[w].id : Committed(s)' /\
                        (s \in jobs'[w].entries \/ Applied(s)')
                /\ jobs'[w].pc \in MidPoll => \A s \in jobs'[w].id : Applied(s)'
    PROVE  JobInv'
<1>1. \A i \in Ids : \A s \in i : /\ Committed(s) => Committed(s)'
                                  /\ Applied(s) => Applied(s)'
  BY IdsFacts, ShapeAssumption DEF Grows, Committed
<1>2. \A v \in Workers : jobs[v].pc # "idle" => jobs[v].id \in Ids
  BY JobFacts DEF IInv
<1>. QED BY <1>1, <1>2 DEF IInv, JobInv

\* Rows that are dropped, and a cache that shrinks, refer to nothing new.
LEMMA CommittedShrinks ==
    ASSUME IInv, Grows, cache' \subseteq cache, UNCHANGED <<unregistered, hydrate>>,
           \A i \in Ids : comp'[i] \in {comp[i], "none"}
    PROVE  CommittedInv'
<1>1. \A i \in Ids : \A s \in i : Committed(s) => Committed(s)'
  BY IdsFacts, ShapeAssumption DEF Grows, Committed
<1>2. hydrate.pc = "register" => hydrate.seg \in Segments
  BY DEF IInv, TypeOK, HydrateType, NoHydrate
<1>3. \A g \in cache \cup unregistered : row'[g] # "none"
  BY DEF IInv, TypeOK, CommittedInv, Grows
<1>4. hydrate.pc = "register" => row'[hydrate.seg] # "none"
  BY <1>2 DEF IInv, CommittedInv, Grows
<1>. QED BY <1>1, <1>3, <1>4 DEF IInv, CommittedInv

\* A redo batch of applied ids is safe.
LEMMA FlushSafe ==
    ASSUME IInv, NEW I, \A i \in I : i \in Ids /\ \A s \in i : s \in Slices /\ Applied(s),
           Flush(I), UNCHANGED <<delivered, unregistered, hydrate>>
    PROVE  Grows /\ DoneIsDelivered' /\ CommittedInv' /\ AckedIsDelivered'
<1>1. UNION I \in SUBSET Slices /\ \A s \in UNION I : Applied(s)
  OBVIOUS
<1>2. Grows /\ DoneIsDelivered' /\ cache' \subseteq cache
  BY <1>1, SetDoneSafe DEF Flush
<1>3. \A i \in Ids : comp'[i] \in {comp[i], "none"}
  BY DEF Flush
<1>4. CommittedInv'
  BY <1>2, <1>3, CommittedShrinks
<1>5. AckedIsDelivered'
  BY <1>3 DEF IInv, AckedIsDelivered
<1>. QED BY <1>2, <1>4, <1>5

\* A running job that ends takes only its own slices out of flight.
LEMMA JobLeaves ==
    ASSUME IInv, NEW w \in Workers, jobs[w].pc \in Running,
           jobs'[w].pc = "idle", \A v \in Workers \ {w} : jobs'[v] = jobs[v],
           inFlight' = inFlight \ jobs[w].entries
    PROVE  FlightInv' /\ InFlightExclusive'
BY DEF IInv, FlightInv, InFlightExclusive, Running, AtSink

\* Every step of writer, planner, jobs, sink, redo, restart and pressure
\* thread keeps the invariant.
LEMMA SafetyStep == IInv /\ [Next]_vars => IInv'
<1>. SUFFICES ASSUME IInv, [Next]_vars PROVE IInv'
  OBVIOUS
<1>. USE DEF durableVars, plannerVars, sinkVars, bounds
<1>t. TypeOK /\ TypeOK'
  BY TypeStep DEF IInv
<1>f. Grows =>
        /\ UNCHANGED jobs => JobInv'
        /\ UNCHANGED <<requests, ledger>> => SinkInv'
        /\ UNCHANGED redo => RedoInv'
        /\ UNCHANGED <<jobs, inFlight>> => FlightInv' /\ InFlightExclusive'
        /\ UNCHANGED <<row, done>> => DoneIsDelivered'
        /\ UNCHANGED comp => AckedIsDelivered'
        /\ UNCHANGED <<cache, unregistered, hydrate, comp>> => CommittedInv'
  BY Frame
<1>1. ASSUME NEW g \in Segments, CommitSegment(g) PROVE IInv'
  <2>1. Grows
    BY <1>1, <1>t DEF CommitSegment, Grows, Applied, TypeOK
  <2>2. CommittedInv'
    <3>1. \A i \in Ids : \A s \in i : Committed(s) => Committed(s)'
      BY <2>1, IdsFacts, ShapeAssumption DEF Grows, Committed
    <3>2. hydrate.pc = "register" => hydrate.seg \in Segments
      BY <1>t DEF TypeOK, HydrateType, NoHydrate
    <3>. QED BY <1>1, <1>t, <2>1, <3>1, <3>2
             DEF CommitSegment, IInv, CommittedInv, Grows, TypeOK
  <2>3. DoneIsDelivered'
    BY <1>1, <1>t, ShapeAssumption
    DEF CommitSegment, IInv, DoneIsDelivered, TypeOK
  <2>. QED BY <1>1, <1>t, <1>f, <2>1, <2>2, <2>3 DEF CommitSegment, IInv
<1>2. ASSUME NEW g \in Segments, SegmentCacheRegister(g) PROVE IInv'
  <2>1. Grows
    BY <1>2, Same DEF SegmentCacheRegister
  <2>2. CommittedInv'
    BY <1>2 DEF SegmentCacheRegister, IInv, CommittedInv, Committed
  <2>. QED BY <1>2, <1>t, <1>f, <2>1, <2>2 DEF SegmentCacheRegister, IInv
<1>3. ASSUME NEW w \in Workers, NEW i \in Ids, PlanManifest(w, i) PROVE IInv'
  <2>1. Grows
    BY <1>3, Same DEF PlanManifest
  <2>2. jobs'[w] = Job("planned", i, Remaining(i))
        /\ \A v \in Workers \ {w} : jobs'[v] = jobs[v]
    BY <1>3, <1>t DEF PlanManifest, TypeOK
  <2>3. \A s \in i : Committed(s) /\ (s \in Remaining(i) \/ Applied(s))
    <3>1. \A s \in i : s \in Slices /\ Committed(s)
      BY <1>3, IdsFacts
      DEF PlanManifest, Resumable, SegmentsOf, Committed, IInv, CommittedInv
    <3>. QED BY <3>1, DoneIsApplied DEF Remaining
  <2>4. JobInv'
    <3>1. \A s \in i : Committed(s)' /\ (s \in Remaining(i) \/ Applied(s)')
      BY <1>3, <2>3 DEF PlanManifest, Committed, Applied
    <3>. QED BY <2>1, <2>2, <3>1, OneJob DEF Job, MidPoll, Remaining
  <2>5. FlightInv' /\ InFlightExclusive'
    BY <1>3, <2>2
    DEF PlanManifest, IInv, FlightInv, InFlightExclusive, Job, Running, AtSink
  <2>. QED BY <1>3, <1>t, <1>f, <2>1, <2>4, <2>5 DEF PlanManifest, IInv
<1>4. ASSUME NEW i \in Ids, SkipManifest(i) PROVE IInv'
  BY <1>4, <1>t, <1>f, Same DEF SkipManifest, IInv
<1>5. ASSUME NEW w \in Workers, NEW i \in Ids, PlanGroup(w, i) PROVE IInv'
  <2>1. Grows
    BY <1>5, Same DEF PlanGroup
  <2>2. jobs'[w] = Job("planned", i, i)
        /\ \A v \in Workers \ {w} : jobs'[v] = jobs[v]
    BY <1>5, <1>t DEF PlanGroup, TypeOK
  <2>3. JobInv'
    <3>1. \A s \in i : Committed(s)'
      BY <1>5 DEF PlanGroup, SegmentsOf, Committed, IInv, CommittedInv
    <3>. QED BY <2>1, <2>2, <3>1, OneJob DEF Job, MidPoll
  <2>4. FlightInv' /\ InFlightExclusive'
    BY <1>5, <2>2
    DEF PlanGroup, IInv, FlightInv, InFlightExclusive, Job, Running, AtSink
  <2>. QED BY <1>5, <1>t, <1>f, <2>1, <2>3, <2>4 DEF PlanGroup, IInv
<1>6. ASSUME NEW w \in Workers, JobStart(w) PROVE IInv'
  <2>1. Grows
    BY <1>6, Same DEF JobStart
  <2>2. /\ jobs[w].pc = "planned" /\ jobs[w].id \in Ids
        /\ jobs'[w].pc = "building" /\ jobs'[w].id = jobs[w].id
        /\ jobs'[w].entries = jobs[w].entries
        /\ \A v \in Workers \ {w} : jobs'[v] = jobs[v]
    BY <1>6, <1>t, JobFacts DEF JobStart, TypeOK
  <2>3. /\ jobs[w].entries \subseteq jobs[w].id
        /\ \A s \in jobs[w].id :
            /\ Committed(s) /\ Committed(s)'
            /\ s \in jobs[w].entries \/ Applied(s)'
    BY <1>6, <2>2 DEF JobStart, IInv, JobInv, Committed, Applied
  <2>4. JobInv'
    BY <2>1, <2>2, <2>3, OneJob DEF MidPoll
  <2>5. FlightInv' /\ InFlightExclusive'
    <3>1. jobs[w].entries \cap inFlight = {}
      BY <1>6 DEF JobStart, MayStart
    <3>2. inFlight' = inFlight \cup jobs[w].entries
      BY <1>6 DEF JobStart
    <3>. QED BY <2>2, <3>1, <3>2 DEF IInv, FlightInv, InFlightExclusive
  <2>6. CommittedInv' /\ AckedIsDelivered'
    <3>1. CASE CopyPipeline
      BY <1>6, <1>f, <2>1, <3>1 DEF JobStart, StartsCopy
    <3>2. CASE ~CopyPipeline
      <4>1. comp' = [comp EXCEPT ![jobs[w].id] = "pending"]
        BY <1>6, <3>2 DEF JobStart, PersistsPending
      <4>. QED BY <1>6, <1>t, <2>2, <2>3, <4>1
               DEF JobStart, IInv, CommittedInv, AckedIsDelivered, Committed, TypeOK
    <3>. QED BY <3>1, <3>2
  <2>. QED BY <1>6, <1>t, <1>f, <2>1, <2>4, <2>5, <2>6 DEF JobStart, IInv
<1>7. ASSUME NEW w \in Workers, JobRefused(w) PROVE IInv'
  <2>1. Grows
    BY <1>7, Same DEF JobRefused
  <2>2. jobs'[w].pc = "idle" /\ \A v \in Workers \ {w} : jobs'[v] = jobs[v]
    BY <1>7, <1>t DEF JobRefused, NoJob, TypeOK
  <2>3. JobInv'
    BY <2>1, <2>2, OneJob
  <2>4. FlightInv' /\ InFlightExclusive'
    BY <1>7, <2>2
    DEF JobRefused, IInv, FlightInv, InFlightExclusive, Running, AtSink
  <2>. QED BY <1>7, <1>t, <1>f, <2>1, <2>3, <2>4 DEF JobRefused, IInv
<1>8. ASSUME NEW w \in Workers, JobSend(w) PROVE IInv'
  <2>1. Grows
    BY <1>8, Same DEF JobSend
  <2>2. /\ jobs[w].pc = "building" /\ jobs[w].id \in Ids
        /\ jobs'[w].pc = "sent" /\ jobs'[w].id = jobs[w].id
        /\ jobs'[w].entries = jobs[w].entries
        /\ \A v \in Workers \ {w} : jobs'[v] = jobs[v]
    BY <1>8, <1>t, JobFacts DEF JobSend, TypeOK
  <2>3. /\ jobs[w].entries \subseteq jobs[w].id
        /\ \A s \in jobs[w].id :
            /\ Committed(s) /\ Committed(s)'
            /\ s \in jobs[w].entries \/ Applied(s)'
    BY <1>8, <2>2 DEF JobSend, IInv, JobInv, Committed, Applied
  <2>4. JobInv'
    BY <2>1, <2>2, <2>3, OneJob DEF MidPoll
  <2>5. FlightInv' /\ InFlightExclusive'
    BY <1>8, <2>2
    DEF JobSend, IInv, FlightInv, InFlightExclusive, Running, AtSink
  <2>6. CommittedInv' /\ AckedIsDelivered'
    BY <1>8, <1>t, <2>2, <2>3
    DEF JobSend, IInv, CommittedInv, AckedIsDelivered, Committed, TypeOK
  <2>7. SinkInv'
    BY <1>8, <2>3 DEF JobSend, IInv, SinkInv, Applied
  <2>. QED BY <1>8, <1>t, <1>f, <2>1, <2>4, <2>5, <2>6, <2>7 DEF JobSend, IInv
<1>9. ASSUME NEW q \in requests, SinkLands(q) PROVE IInv'
  <2>1. Grows
    BY <1>9, <1>t DEF SinkLands, Grows, Applied, Bump, TypeOK
  <2>2. SinkInv'
    <3>1. q.id \in Ids /\ q.entries \subseteq Slices
      BY <1>t DEF TypeOK
    <3>2. \A s \in q.id : Applied(s)'
      <4>. SUFFICES ASSUME NEW s \in q.id PROVE Applied(s)'
        OBVIOUS
      <4>1. s \in Slices /\ delivered[s] \in 0..2
        BY <1>t, <3>1, IdsFacts DEF TypeOK
      <4>2. CASE q.id \in ledger
        BY <2>1, <4>1, <4>2 DEF IInv, SinkInv, Grows
      <4>3. CASE q.id \notin ledger /\ s \in q.entries
        BY <1>9, <4>1, <4>3 DEF SinkLands, Bump, Applied
      <4>4. CASE s \notin q.entries
        BY <2>1, <4>1, <4>4 DEF IInv, SinkInv, Grows
      <4>. QED BY <4>2, <4>3, <4>4
    <3>3. \A p \in requests : \A s \in p.id : s \in p.entries \/ Applied(s)'
      BY <1>t, <2>1, IdsFacts DEF IInv, SinkInv, Grows, TypeOK
    <3>4. \A i \in ledger : \A s \in i : Applied(s)'
      BY <1>t, <2>1, IdsFacts DEF IInv, SinkInv, Grows, TypeOK
    <3>. QED BY <1>9, <3>2, <3>3, <3>4 DEF SinkLands, SinkInv
  <2>. QED BY <1>9, <1>t, <1>f, <2>1, <2>2 DEF SinkLands, IInv
<1>10. ASSUME NEW w \in Workers, SinkOk(w) PROVE IInv'
  <2>1. Grows
    BY <1>10, Same DEF SinkOk
  <2>2. /\ jobs[w].pc = "sent" /\ jobs'[w].pc = "acking"
        /\ jobs'[w].id = jobs[w].id /\ jobs'[w].entries = jobs[w].entries
        /\ \A v \in Workers \ {w} : jobs'[v] = jobs[v]
    BY <1>10, <1>t, JobFacts DEF SinkOk, TypeOK
  <2>3. /\ jobs[w].entries \subseteq jobs[w].id
        /\ \A s \in jobs[w].id : Committed(s)' /\ Applied(s)'
    BY <1>10, <2>2 DEF SinkOk, IInv, JobInv, SinkInv, Committed, Applied
  <2>4. JobInv'
    BY <2>1, <2>2, <2>3, OneJob
  <2>5. FlightInv' /\ InFlightExclusive'
    BY <1>10, <2>2
    DEF SinkOk, IInv, FlightInv, InFlightExclusive, Running, AtSink
  <2>6. SinkInv'
    BY <1>10 DEF SinkOk, IInv, SinkInv, Applied
  <2>. QED BY <1>10, <1>t, <1>f, <2>1, <2>4, <2>5, <2>6 DEF SinkOk, IInv
<1>11. ASSUME NEW w \in Workers, JobAck(w) PROVE IInv'
  <2>1. Grows
    BY <1>11, Same DEF JobAck
  <2>2. /\ jobs[w].pc = "acking" /\ jobs'[w].pc = "reclaiming"
        /\ jobs'[w].id = jobs[w].id /\ jobs'[w].entries = jobs[w].entries
        /\ jobs[w].id \in Ids
        /\ \A v \in Workers \ {w} : jobs'[v] = jobs[v]
    BY <1>11, <1>t, JobFacts DEF JobAck, TypeOK
  <2>3. /\ jobs[w].entries \subseteq jobs[w].id
        /\ \A s \in jobs[w].id : /\ Committed(s) /\ Committed(s)'
                                 /\ Applied(s) /\ Applied(s)'
    BY <1>11, <2>2 DEF JobAck, IInv, JobInv, MidPoll, Committed, Applied
  <2>4. JobInv'
    BY <2>1, <2>2, <2>3, OneJob
  <2>5. FlightInv' /\ InFlightExclusive'
    BY <1>11, <2>2
    DEF JobAck, IInv, FlightInv, InFlightExclusive, Running, AtSink
  <2>6. CommittedInv' /\ AckedIsDelivered'
    BY <1>11, <1>t, <2>2, <2>3
    DEF JobAck, IInv, CommittedInv, AckedIsDelivered, Committed, Applied, TypeOK
  <2>. QED BY <1>11, <1>t, <1>f, <2>1, <2>4, <2>5, <2>6 DEF JobAck, IInv
<1>12. ASSUME NEW w \in Workers, NEW g \in Segments,
              CompleteSlicesAndReclaim(w, g)
       PROVE  IInv'
  <2>1. /\ jobs[w].pc = "reclaiming" /\ jobs'[w].pc = "reclaiming"
        /\ jobs'[w].id = jobs[w].id /\ jobs'[w].entries = jobs[w].entries
        /\ jobs[w].id \in Ids
        /\ \A v \in Workers \ {w} : jobs'[v] = jobs[v]
    BY <1>12, <1>t, JobFacts DEF CompleteSlicesAndReclaim, TypeOK
  <2>2. /\ jobs[w].entries \subseteq jobs[w].id
        /\ \A s \in jobs[w].id : Committed(s) /\ Applied(s)
    BY <2>1 DEF IInv, JobInv, MidPoll
  <2>3. Grows /\ DoneIsDelivered' /\ cache' \subseteq cache
    <3>1. CASE row[g] = "live"
      <4>1. \A s \in jobs[w].entries \cap SlicesOf(g) : Applied(s)
        BY <2>2
      <4>2. jobs[w].entries \cap SlicesOf(g) \in SUBSET Slices
        BY DEF SlicesOf
      <4>. QED BY <1>12, <3>1, <4>1, <4>2, SetDoneSafe DEF CompleteSlicesAndReclaim
    <3>2. CASE row[g] # "live"
      BY <1>12, <1>f, <3>2, Same DEF CompleteSlicesAndReclaim
    <3>. QED BY <3>1, <3>2
  <2>4. JobInv'
    <3>1. \A s \in jobs[w].id : Committed(s)' /\ Applied(s)'
      BY <2>1, <2>2, <2>3, IdsFacts, ShapeAssumption DEF Grows, Committed
    <3>. QED BY <2>1, <2>2, <2>3, <3>1, OneJob
  <2>5. FlightInv' /\ InFlightExclusive'
    BY <1>12, <2>1
    DEF CompleteSlicesAndReclaim, IInv, FlightInv, InFlightExclusive
  <2>6. CommittedInv'
    BY <1>12, <2>3, CommittedShrinks DEF CompleteSlicesAndReclaim
  <2>. QED BY <1>12, <1>t, <1>f, <2>3, <2>4, <2>5, <2>6
           DEF CompleteSlicesAndReclaim, IInv
<1>13. ASSUME NEW w \in Workers, JobDone(w) PROVE IInv'
  <2>1. Grows
    BY <1>13, Same DEF JobDone
  <2>2. /\ jobs[w].pc = "reclaiming" /\ jobs[w].id \in Ids
        /\ jobs'[w].pc = "idle" /\ \A v \in Workers \ {w} : jobs'[v] = jobs[v]
    BY <1>13, <1>t, JobFacts DEF JobDone, NoJob, TypeOK
  <2>3. JobInv'
    BY <2>1, <2>2, OneJob
  <2>4. FlightInv' /\ InFlightExclusive'
    BY <1>13, <2>2, JobLeaves DEF JobDone, Running, AtSink
  <2>5. CommittedInv' /\ AckedIsDelivered'
    BY <1>13, <1>t, <2>2
    DEF JobDone, IInv, CommittedInv, AckedIsDelivered, Committed, TypeOK
  <2>. QED BY <1>13, <1>t, <1>f, <2>1, <2>3, <2>4, <2>5 DEF JobDone, IInv
<1>14. ASSUME NEW w \in Workers, JobFails(w) PROVE IInv'
  <2>1. Grows
    BY <1>14, Same DEF JobFails
  <2>2. jobs'[w].pc = "idle" /\ \A v \in Workers \ {w} : jobs'[v] = jobs[v]
    BY <1>14, <1>t DEF JobFails, ReleaseWork, NoJob, TypeOK
  <2>3. JobInv'
    BY <2>1, <2>2, OneJob
  <2>4. FlightInv' /\ InFlightExclusive'
    BY <1>14, <2>2, JobLeaves DEF JobFails, ReleaseWork
  <2>. QED BY <1>14, <1>t, <1>f, <2>1, <2>3, <2>4 DEF JobFails, IInv
<1>15. ASSUME NewCycle PROVE IInv'
  <2>1. CASE Flush(AckedIds)
    <3>1. Grows /\ DoneIsDelivered' /\ CommittedInv' /\ AckedIsDelivered'
      BY <1>15, <2>1, AckedIdsApplied, FlushSafe DEF NewCycle
    <3>. QED BY <1>15, <1>t, <1>f, <3>1 DEF NewCycle, IInv
  <2>2. CASE UNCHANGED <<row, done, comp, cache, index>>
    BY <1>15, <1>t, <1>f, <2>2, Same DEF NewCycle, IInv
  <2>. QED BY <1>15, <2>1, <2>2 DEF NewCycle
<1>16. ASSUME BackgroundRedo PROVE IInv'
  <2>1. RedoInv'
    BY <1>16 DEF BackgroundRedo, RedoInv
  <2>2. CASE Flush({i \in redo : comp[i] # "none"})
    <3>1. \A i \in {i \in redo : comp[i] # "none"} :
            i \in Ids /\ \A s \in i : s \in Slices /\ Applied(s)
      BY <1>t, IdsFacts DEF TypeOK, IInv, RedoInv
    <3>2. Grows /\ DoneIsDelivered' /\ CommittedInv' /\ AckedIsDelivered'
      BY <1>16, <2>2, <3>1, FlushSafe DEF BackgroundRedo
    <3>. QED BY <1>16, <1>t, <1>f, <2>1, <3>2 DEF BackgroundRedo, IInv
  <2>3. CASE UNCHANGED <<row, done, comp, cache, index>>
    BY <1>16, <1>t, <1>f, <2>1, <2>3, Same DEF BackgroundRedo, IInv
  <2>. QED BY <1>16, <2>2, <2>3 DEF BackgroundRedo
<1>17. ASSUME Crash PROVE IInv'
  <2>1. Grows
    BY <1>17, Same DEF Crash
  <2>2. JobInv' /\ FlightInv' /\ InFlightExclusive'
    BY <1>17 DEF Crash, NoJob, JobInv, FlightInv, InFlightExclusive, Running, AtSink
  <2>3. CommittedInv'
    BY <1>17 DEF Crash, NoHydrate, IInv, CommittedInv, Committed
  <2>4. RedoInv'
    BY <1>17 DEF Crash, RedoInv
  <2>. QED BY <1>17, <1>t, <1>f, <2>1, <2>2, <2>3, <2>4 DEF Crash, IInv
<1>18. ASSUME Startup PROVE IInv'
  <2>1. Grows
    BY <1>18, Same DEF Startup
  <2>2. RedoInv'
    BY <1>18, AckedIdsApplied DEF Startup, RedoInv, Applied
  <2>3. CommittedInv'
    BY <1>18 DEF Startup, LiveSegments, IInv, CommittedInv, Committed
  <2>. QED BY <1>18, <1>t, <1>f, <2>1, <2>2, <2>3 DEF Startup, IInv
<1>19. ASSUME HydrateBegin PROVE IInv'
  <2>1. Grows
    BY <1>19, Same DEF HydrateBegin
  <2>2. CommittedInv'
    BY <1>19 DEF HydrateBegin, IInv, CommittedInv, Committed
  <2>. QED BY <1>19, <1>t, <1>f, <2>1, <2>2 DEF HydrateBegin, IInv
<1>20. ASSUME NEW g \in Segments, HydrateCheck(g) PROVE IInv'
  <2>1. Grows
    BY <1>20, Same DEF HydrateCheck
  <2>2. hydrate'.pc = "register" => row[hydrate'.seg] # "none"
    <3>1. hydrate \in [pc : {"check"}, live : SUBSET Segments, todo : SUBSET Segments]
      BY <1>20, <1>t DEF HydrateCheck, TypeOK, HydrateType, NoHydrate
    <3>. QED BY <1>20, <3>1 DEF HydrateCheck
  <2>3. CommittedInv'
    BY <1>20, <2>2 DEF HydrateCheck, IInv, CommittedInv, Committed
  <2>. QED BY <1>20, <1>t, <1>f, <2>1, <2>3 DEF HydrateCheck, IInv
<1>21. ASSUME HydrateRegister PROVE IInv'
  <2>1. Grows
    BY <1>21, Same DEF HydrateRegister
  <2>2. CommittedInv'
    BY <1>21 DEF HydrateRegister, IInv, CommittedInv, Committed
  <2>. QED BY <1>21, <1>t, <1>f, <2>1, <2>2 DEF HydrateRegister, IInv
<1>22. ASSUME HydrateRows \/ HydrateInstall PROVE IInv'
  <2>1. Grows /\ UNCHANGED <<durableVars, unregistered, cache, jobs, inFlight,
                             redo, sinkVars>>
    BY <1>22, Same DEF HydrateRows, HydrateInstall
  <2>2. CommittedInv'
    BY <1>22 DEF HydrateRows, HydrateInstall, NoHydrate, IInv, CommittedInv, Committed
  <2>. QED BY <1>t, <1>f, <2>1, <2>2 DEF IInv
<1>23. CASE UNCHANGED vars
  BY <1>23, <1>t, <1>f, Same DEF vars, IInv
<1>. QED
  BY <1>1, <1>2, <1>3, <1>4, <1>5, <1>6, <1>7, <1>8, <1>9, <1>10, <1>11, <1>12,
     <1>13, <1>14, <1>15, <1>16, <1>17, <1>18, <1>19, <1>20, <1>21, <1>22, <1>23
  DEF Next, PlanStep, JobStep, HydrateStep

\* Before the first segment is committed there is nothing to promise.
LEMMA InitEstablishes == Init => IInv
<1>. SUFFICES ASSUME Init PROVE IInv
  OBVIOUS
<1>1. TypeOK
  <2>1. jobs \in [Workers -> JobType] /\ hydrate \in HydrateType
    BY DEF Init, JobType, HydrateType
  <2>2. up \in BOOLEAN /\ blocked \in BOOLEAN /\ torn \in BOOLEAN
    BY DEF Init
  <2>3. /\ delivered \in [Slices -> 0..2]
        /\ failures \in 0..MaxFailures /\ redoFailures \in 0..MaxRedoFailures
        /\ crashes \in 0..MaxCrashes /\ hydrates \in 0..MaxHydrates
    BY CompactionBoundsAssumption DEF Init
  <2>4. /\ row \in [Segments -> {"none", "live", "reclaimed"}]
        /\ comp \in [Ids -> {"none", "pending", "sent", "acked"}]
        /\ manifests \in [Ids -> {"none", "pending", "sent"}]
        /\ index \in [Slices -> {"absent", "available", "reserved", "fenced"}]
    BY DEF Init
  <2>. QED BY <2>1, <2>2, <2>3, <2>4, Zenon DEF Init, TypeOK
<1>2. CommittedInv /\ SinkInv /\ RedoInv
  BY DEF Init, NoHydrate, CommittedInv, SinkInv, RedoInv
<1>3. JobInv /\ FlightInv /\ InFlightExclusive
  BY DEF Init, NoJob, JobInv, FlightInv, InFlightExclusive, Running, AtSink
<1>4. DoneIsDelivered /\ AckedIsDelivered
  BY ShapeAssumption DEF Init, DoneIsDelivered, AckedIsDelivered
<1>. QED BY <1>1, <1>2, <1>3, <1>4 DEF IInv

\* Whatever fails, crashes or races - also with the pressure thread's hydrate,
\* a torn acknowledgement and a late sink call - a slice is marked done, a
\* segment dropped and a compaction acknowledged only after the sink has
\* applied the slices, and no slice is in two running jobs.
THEOREM CompactionSafety ==
    Spec => [](TypeOK /\ DoneIsDelivered /\ AckedIsDelivered /\ InFlightExclusive)
<1>1. IInv => TypeOK /\ DoneIsDelivered /\ AckedIsDelivered /\ InFlightExclusive
  BY DEF IInv
<1>. QED BY <1>1, InitEstablishes, SafetyStep, PTL DEF Spec
=============================================================================
