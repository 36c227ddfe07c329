---------------------- MODULE WalCompactionPlannerProof ----------------------
(***************************************************************************)
(* The planner forgets no slice, and while nothing disturbs it no slice is *)
(* applied twice and no job reads a dropped segment: for any number of     *)
(* segments, slices, workers, failures and crashes, and for every pipeline *)
(* type and write policy.  Behaviours with a hydrate of the pressure       *)
(* thread are excepted, and for the last two a torn acknowledgement.       *)
(***************************************************************************)
EXTENDS WalCompactionProof

Busy(w) == jobs[w].pc # "idle"

\* Row, record or job of an id that is not acknowledged.
Claimed(i) ==
    \/ comp[i] \in {"pending", "sent"}
    \/ manifests[i] # "none"
    \/ \E w \in Workers : Busy(w) /\ jobs[w].id = i

\* The sink has been, or will be, called under the id.
Called(i) == i \in ledger \/ \E q \in requests : q.id = i

\* The ids that must not overlap.  A torn acknowledgement makes slices of
\* acknowledged ids available again; those of claimed ids stay behind their
\* fences even then.
Known(i) == Claimed(i) \/ (~torn /\ (comp[i] = "acked" \/ Called(i)))

\* The planner has been told of the slice's segment.
Registered(s) == Committed(s) /\ SegmentOf[s] \notin unregistered

\* The slice is committed and needs no more work.
Over(s) == Committed(s) /\ SliceIsDone(s)

AllOver(i) == \A s \in i : Over(s)

Undone(i) == \A s \in i : ~SliceIsDone(s)

\* While the process is down its memory is empty.
DownInv ==
    ~up => /\ jobs = [w \in Workers |-> NoJob]
           /\ index = [s \in Slices |-> "absent"]
           /\ manifests = [i \in Ids |-> "none"]
           /\ redo = {}
           /\ unregistered = {}

\* Ids overlap only when they are equal, and no slice of one is available.
KnownInv ==
    /\ \A i, j \in Ids : Known(i) /\ Known(j) /\ i \cap j # {} => i = j
    /\ \A i \in Ids : Known(i) =>
            \A s \in i : index[s] # "available" /\ Registered(s)
    /\ \A s \in Slices : ~Registered(s) => index[s] = "absent"

\* A record cannot be resumed while a job has its id; a job without a record
\* has reserved its slices; the slices a job leaves out are done.  (After a
\* torn acknowledgement the background redo can finish a job's slices.)
JobOK(w) ==
    /\ \A v \in Workers : Busy(v) /\ jobs[v].id = jobs[w].id => v = w
    /\ manifests[jobs[w].id] # "none" =>
            jobs[w].id \in reserved \/ AllOver(jobs[w].id)
    /\ jobs[w].pc \in {"planned", "building"} /\ manifests[jobs[w].id] = "none"
            => \A s \in jobs[w].id : index[s] = "reserved" \/ Over(s)
    /\ jobs[w].pc \in {"sent", "acking"} => manifests[jobs[w].id] # "none"
    /\ jobs[w].pc = "reclaiming" => manifests[jobs[w].id] = "none"
    /\ \A s \in jobs[w].id : s \in jobs[w].entries \/ Over(s)
    /\ jobs[w].pc = "reclaiming" =>
            \A s \in jobs[w].id : SegmentOf[s] \in jobs[w].todo \/ Over(s)

JobsInv == \A w \in Workers : Busy(w) => JobOK(w)

\* A running process has a record of every row that is not acknowledged.
RowsInv ==
    \A i \in Ids : /\ up /\ comp[i] \in {"pending", "sent"} => manifests[i] # "none"
                   /\ manifests[i] # "none" => comp[i] # "acked"

\* A reserved slice belongs to a job that has not acknowledged it.
ReservedInv ==
    \A s \in Slices : index[s] = "reserved" =>
        \E w \in Workers : jobs[w].pc \notin {"idle", "reclaiming"} /\ s \in jobs[w].id

\* The planner, a job or the redo will find the slice.
Found(s) ==
    \/ SliceIsDone(s)
    \/ SegmentOf[s] \in unregistered
    \/ index[s] \in {"available", "reserved"}
    \/ index[s] = "fenced" /\ IsFenced(manifests, s)
    \/ \E i \in Ids : s \in i /\ comp[i] = "acked"

FoundInv == up => \A s \in Slices : Found(s)

PlannerInv ==
    /\ hydrate = NoHydrate
    /\ DownInv
    /\ KnownInv
    /\ JobsInv
    /\ RowsInv
    /\ ReservedInv
    /\ FoundInv

\* Without a torn acknowledgement done bits are set under acknowledged ids
\* only, so that every job and every call of the sink is of a whole id.
WholeRow(i) ==
    /\ comp[i] \in {"pending", "sent"} => Undone(i)
    /\ manifests[i] # "none" => comp[i] \in {"pending", "sent"}
    /\ Called(i) /\ comp[i] = "none" => AllOver(i)
    /\ ~up /\ comp[i] = "acked" => AllOver(i)
    /\ i \in redo => AllOver(i)

WholeRows == \A i \in Ids : WholeRow(i)

WholeJob(w) ==
    /\ jobs[w].entries = jobs[w].id
    /\ jobs[w].id \notin redo
    /\ jobs[w].pc # "reclaiming" => Undone(jobs[w].id)
    /\ jobs[w].pc = "reclaiming" => comp[jobs[w].id] = "acked"
    /\ jobs[w].pc \in {"planned", "building"} /\ manifests[jobs[w].id] = "none"
            => comp[jobs[w].id] = "none" /\ ~Called(jobs[w].id)

WholeJobs == \A w \in Workers : Busy(w) => WholeJob(w)

\* A slice is applied at most once, under an id of the ledger.
LedgerInv ==
    /\ \A q \in requests : q.entries = q.id
    /\ \A s \in Slices : /\ delivered[s] < 2
                         /\ Applied(s) => \E i \in ledger : s \in i

WholeInv == WholeRows /\ WholeJobs /\ LedgerInv

QuietInv == PlannerInv /\ (~torn => WholeInv)

-----------------------------------------------------------------------------
(* Helpers.                                                                *)

\* The slices of a known id have been registered and are not available.
LEMMA KnownFacts ==
    ASSUME IInv, PlannerInv, NEW i \in Ids, Known(i)
    PROVE  /\ i # {}
           /\ \A s \in i : /\ s \in Slices /\ Registered(s) /\ Committed(s)
                           /\ index[s] # "available"
BY IdsFacts DEF PlannerInv, KnownInv, Registered, Ids

\* The id of a job is known and overlaps with no other job's.
LEMMA BusyFacts ==
    ASSUME IInv, PlannerInv, NEW w \in Workers, Busy(w)
    PROVE  /\ jobs[w].id \in Ids /\ Known(jobs[w].id) /\ JobOK(w)
           /\ jobs[w].pc \in {"planned", "building", "sent", "acking", "reclaiming"}
           /\ \A v \in Workers : Busy(v) /\ v # w =>
                jobs[v].id # jobs[w].id /\ jobs[v].id \cap jobs[w].id = {}
<1>1. \A v \in Workers : Busy(v) => jobs[v].id \in Ids
  BY JobFacts DEF IInv, Busy
<1>2. \A v \in Workers : Busy(v) => Known(jobs[v].id) /\ JobOK(v)
  BY <1>1 DEF Known, Claimed, PlannerInv, JobsInv
<1>3. jobs[w].pc \in {"planned", "building", "sent", "acking", "reclaiming"}
  BY JobFacts DEF IInv, Busy
<1>4. \A v \in Workers : Busy(v) /\ v # w => jobs[v].id # jobs[w].id
  BY <1>2 DEF JobOK
<1>5. \A v \in Workers : Busy(v) /\ v # w => jobs[v].id \cap jobs[w].id = {}
  BY <1>1, <1>2, <1>4 DEF PlannerInv, KnownInv
<1>. QED BY <1>1, <1>2, <1>3, <1>4, <1>5

\* What needs no more work stays so.
Settles == \A s \in Slices : Over(s) => Over(s)'

\* Nothing is marked done.
Steady == \A s \in Slices : ~SliceIsDone(s) => ~SliceIsDone(s)'

\* A step that leaves the segment rows and bits alone.
LEMMA Untouched == UNCHANGED <<row, done>> => Settles /\ Steady
BY DEF Settles, Steady, Over, Committed, SliceIsDone

\* What setting bits does: exactly the slices of S are finished, and a slice
\* that leaves the planner is.
LEMMA SetDoneExact ==
    ASSUME IInv, NEW S \in SUBSET Slices, SetDone(S)
    PROVE  \A s \in Slices :
                /\ SliceIsDone(s)' <=> SliceIsDone(s) \/ s \in S
                /\ Committed(s)' <=> Committed(s)
                /\ index'[s] = index[s] \/ (index'[s] = "absent" /\ SliceIsDone(s)')
<1>. SUFFICES ASSUME NEW s \in Slices
              PROVE  /\ SliceIsDone(s)' <=> SliceIsDone(s) \/ s \in S
                     /\ Committed(s)' <=> Committed(s)
                     /\ index'[s] = index[s] \/ (index'[s] = "absent" /\ SliceIsDone(s)')
  OBVIOUS
<1>. DEFINE bits == done \cup {t \in S : row[SegmentOf[t]] = "live"}
            full == {g \in SegmentsOf(S) : row[g] = "live" /\ SlicesOf(g) \subseteq bits}
<1>1. /\ done' = bits
      /\ row' = [g \in Segments |-> IF g \in full THEN "reclaimed" ELSE row[g]]
      /\ index' = RemoveSlices(index, {t \in Slices : SegmentOf[t] \in full})
  BY DEF SetDone
<1>2. SegmentOf[s] \in Segments /\ s \in SlicesOf(SegmentOf[s])
  BY ShapeAssumption DEF SlicesOf
<1>3. row'[SegmentOf[s]] = IF SegmentOf[s] \in full THEN "reclaimed" ELSE row[SegmentOf[s]]
  BY <1>1, <1>2
<1>4. SegmentOf[s] \in full => row[SegmentOf[s]] = "live" /\ s \in bits
  BY <1>2
<1>5. s \in bits <=> s \in done \/ (s \in S /\ row[SegmentOf[s]] = "live")
  OBVIOUS
<1>6. index'[s] = IF SegmentOf[s] \in full THEN "absent" ELSE index[s]
  BY <1>1 DEF RemoveSlices
<1>. HIDE DEF full, bits
<1>. QED BY <1>1, <1>3, <1>4, <1>5, <1>6 DEF SliceIsDone, Committed

-----------------------------------------------------------------------------
(* Frames: what a step must respect for an invariant to survive it.        *)

\* No id becomes known, no slice of a known id available.
LEMMA KnownFrame ==
    ASSUME PlannerInv,
           \A i \in Ids : Known(i)' => Known(i),
           \A s \in Slices : Registered(s) => Registered(s)',
           \A s \in Slices : index'[s] = "available" =>
                index[s] = "available" \/ \A i \in Ids : s \in i => ~Known(i)',
           \A s \in Slices : ~Registered(s)' => index'[s] = "absent"
    PROVE  KnownInv'
BY IdsFacts DEF PlannerInv, KnownInv

\* The record and the reservations of an id are left alone.
Kept(i) ==
    /\ manifests'[i] = "none" <=> manifests[i] = "none"
    /\ i \in reserved => i \in reserved'
    /\ \A s \in i : index[s] = "reserved" => index'[s] = "reserved" \/ Over(s)'

\* Jobs that are left alone keep their promises.
LEMMA JobsFrame ==
    ASSUME IInv, PlannerInv, Settles,
           \A v \in Workers :
                \/ jobs'[v] = jobs[v] /\ (Busy(v) => Kept(jobs[v].id))
                \/ Busy(v)' => JobOK(v)'
    PROVE  JobsInv'
<1>. SUFFICES ASSUME NEW w \in Workers, Busy(w)',
                     jobs'[w] = jobs[w], Busy(w) => Kept(jobs[w].id)
              PROVE  JobOK(w)'
  BY DEF JobsInv
<1>1. Busy(w) /\ JobOK(w) /\ Kept(jobs[w].id) /\ jobs[w].id \in Ids
  BY BusyFacts DEF Busy
<1>2. \A s \in jobs[w].id : Over(s) => Over(s)'
  BY <1>1, IdsFacts DEF Settles
<1>3. \A v \in Workers : Busy(v)' /\ jobs'[v].id = jobs'[w].id => v = w
  <2>. SUFFICES ASSUME NEW v \in Workers, Busy(v)', jobs'[v].id = jobs'[w].id
                PROVE  v = w
    OBVIOUS
  <2>1. CASE jobs'[v] = jobs[v]
    BY <1>1, <2>1 DEF JobOK, Busy
  <2>2. CASE Busy(v)' => JobOK(v)'
    BY <2>2 DEF JobOK, Busy
  <2>. QED BY <2>1, <2>2
<1>. QED BY <1>1, <1>2, <1>3 DEF JobOK, Kept, AllOver

\* What the promises about rows, jobs and the ledger do not mention may
\* change.
LEMMA WholeFrame ==
    ASSUME IInv, QuietInv, Settles, Steady, ~torn,
           UNCHANGED <<comp, up, jobs, redo, requests, ledger, delivered>>,
           \A i \in Ids : manifests'[i] = "none" <=> manifests[i] = "none"
    PROVE  WholeInv'
<1>1. WholeInv
  BY DEF QuietInv
<1>2. \A i \in Ids : /\ AllOver(i) => AllOver(i)'
                     /\ Undone(i) => Undone(i)'
  BY IdsFacts DEF Settles, Steady, AllOver, Undone
<1>3. WholeRows'
  BY <1>1, <1>2 DEF WholeInv, WholeRows, WholeRow, Called
<1>4. WholeJobs'
  <2>1. \A w \in Workers : Busy(w) => jobs[w].id \in Ids
    BY BusyFacts DEF QuietInv
  <2>. QED BY <1>1, <2>1, IdsFacts
           DEF WholeInv, WholeJobs, WholeJob, Called, Busy, Undone, Steady
<1>. QED BY <1>1, <1>3, <1>4 DEF WholeInv, LedgerInv, Applied

-----------------------------------------------------------------------------
(* The writer.                                                             *)

\* A committed segment is unknown to the planner until it is registered.
LEMMA QuietCommit ==
    ASSUME IInv, IInv', QuietInv, NEW g \in Segments, CommitSegment(g)
    PROVE  QuietInv'
<1>. USE DEF durableVars, plannerVars, sinkVars, bounds
<1>1. /\ row[g] = "none" /\ row' = [row EXCEPT ![g] = "live"]
      /\ unregistered' = unregistered \cup {g} /\ up /\ up'
      /\ UNCHANGED <<done, comp, cache, index, manifests, reserved, inFlight, jobs,
                     redo, hydrate, requests, ledger, delivered, torn>>
  BY DEF CommitSegment
<1>2. \A s \in Slices :
        /\ SegmentOf[s] \in Segments
        /\ SegmentOf[s] # g => (Committed(s)' <=> Committed(s))
                               /\ (SliceIsDone(s)' <=> SliceIsDone(s))
        /\ SegmentOf[s] = g => ~Committed(s) /\ SliceIsDone(s) /\ ~Registered(s)
  BY <1>1, ShapeAssumption
  DEF IInv, TypeOK, Committed, SliceIsDone, Registered
<1>3. Settles /\ Steady
  BY <1>2 DEF Settles, Steady, Over
<1>4. \A i \in Ids : Known(i)' <=> Known(i)
  BY <1>1 DEF Known, Claimed, Called, Busy
<1>5. KnownInv'
  <2>1. \A s \in Slices : Registered(s) <=> Registered(s)'
    BY <1>1, <1>2 DEF Registered
  <2>. QED BY <1>1, <1>4, <2>1, KnownFrame DEF QuietInv, PlannerInv, KnownInv
<1>6. JobsInv'
  BY <1>1, <1>3, JobsFrame DEF QuietInv, Kept
<1>7. FoundInv'
  BY <1>1, <1>2 DEF QuietInv, PlannerInv, FoundInv, Found, IsFenced
<1>8. PlannerInv'
  BY <1>1, <1>5, <1>6, <1>7
  DEF QuietInv, PlannerInv, DownInv, RowsInv, ReservedInv
<1>. QED BY <1>1, <1>3, <1>8, WholeFrame DEF QuietInv

\* Registering tells the planner of slices nobody has claimed.
LEMMA QuietRegister ==
    ASSUME IInv, IInv', QuietInv, NEW g \in Segments, SegmentCacheRegister(g)
    PROVE  QuietInv'
<1>. USE DEF durableVars, plannerVars, sinkVars, bounds
<1>1. /\ g \in unregistered /\ unregistered' = unregistered \ {g} /\ up /\ up'
      /\ UNCHANGED <<row, done, comp, manifests, reserved, inFlight, jobs,
                     redo, hydrate, requests, ledger, delivered, torn>>
  BY DEF SegmentCacheRegister
<1>2. \A s \in Slices :
        index'[s] = IF SegmentOf[s] # g THEN index[s]
                    ELSE IF SliceIsDone(s) THEN "absent"
                    ELSE IF IsFenced(manifests, s) THEN "fenced" ELSE "available"
  BY DEF SegmentCacheRegister, RegisterSegment, SlicesOf
<1>3. Settles /\ Steady
  BY <1>1, Untouched
<1>4. \A i \in Ids : Known(i)' <=> Known(i)
  BY <1>1 DEF Known, Claimed, Called, Busy
<1>5. \A s \in Slices : SegmentOf[s] = g => ~Registered(s) /\ Committed(s)
  BY <1>1 DEF Registered, Committed, IInv, CommittedInv
<1>6. KnownInv'
  <2>1. \A s \in Slices : Registered(s)' <=> Registered(s) \/ SegmentOf[s] = g
    BY <1>1, <1>5 DEF Registered, Committed
  <2>2. \A s \in Slices : SegmentOf[s] = g => \A i \in Ids : s \in i => ~Known(i)
    BY <1>5 DEF QuietInv, PlannerInv, KnownInv
  <2>3. \A s \in Slices : ~Registered(s)' => index'[s] = "absent"
    BY <1>2, <2>1 DEF QuietInv, PlannerInv, KnownInv
  <2>. QED BY <1>2, <1>4, <2>1, <2>2, <2>3, KnownFrame DEF QuietInv
<1>7. JobsInv'
  <2>1. \A w \in Workers : Busy(w) =>
            \A s \in jobs[w].id : s \in Slices /\ SegmentOf[s] # g
    BY <1>5, BusyFacts, KnownFacts DEF QuietInv
  <2>. QED BY <1>1, <1>2, <1>3, <2>1, JobsFrame DEF QuietInv, Kept
<1>8. FoundInv'
  BY <1>1, <1>2 DEF QuietInv, PlannerInv, FoundInv, Found, IsFenced, SliceIsDone
<1>9. ReservedInv'
  BY <1>1, <1>2 DEF QuietInv, PlannerInv, ReservedInv
<1>10. PlannerInv'
  BY <1>1, <1>6, <1>7, <1>8, <1>9
  DEF QuietInv, PlannerInv, DownInv, RowsInv
<1>. QED BY <1>1, <1>3, <1>10, WholeFrame DEF QuietInv

-----------------------------------------------------------------------------
(* The planner.                                                            *)

\* An id is resumed only when no job has it, and whole as long as no
\* acknowledgement was torn.
LEMMA QuietPlanManifest ==
    ASSUME IInv, IInv', QuietInv, NEW w \in Workers, NEW i \in Ids,
           PlanManifest(w, i)
    PROVE  QuietInv'
<1>. USE DEF durableVars, plannerVars, sinkVars, bounds
<1>. DEFINE R == Remaining(i)
<1>1. /\ ~Busy(w) /\ manifests[i] # "none" /\ i \notin reserved /\ R # {} /\ up /\ up'
      /\ manifests' = [manifests EXCEPT ![i] = "pending"]
      /\ reserved' = reserved \cup {i}
      /\ jobs' = [jobs EXCEPT ![w] = Job("planned", i, R)]
      /\ UNCHANGED <<row, done, comp, unregistered, inFlight,
                     redo, hydrate, requests, ledger, delivered, torn>>
  BY DEF PlanManifest, CanPlan, Ready, Resumable, Busy, NoJob
<1>2. Known(i)
  BY <1>1 DEF Known, Claimed
<1>3. \A s \in i : s \in Slices /\ Registered(s) /\ Committed(s)
  BY <1>2, KnownFacts DEF QuietInv
<1>4. /\ R \subseteq i
      /\ \A s \in i : s \notin R => Over(s)
      /\ \A s \in R : ~SliceIsDone(s)
  BY <1>3 DEF Remaining, Over
<1>5. /\ manifests'[i] = "pending"
      /\ \A j \in Ids : manifests'[j] = "none" <=> manifests[j] = "none"
  BY <1>1 DEF IInv, TypeOK
<1>6. \A s \in Slices : index'[s] = IF s \in i \ R THEN "absent" ELSE index[s]
  BY DEF PlanManifest, RemoveSlices
<1>7. /\ jobs'[w].pc = "planned" /\ jobs'[w].id = i /\ jobs'[w].entries = R
      /\ \A v \in Workers : v # w => jobs'[v] = jobs[v]
  BY <1>1 DEF IInv, TypeOK, Job
<1>. HIDE DEF R
<1>8. Settles /\ Steady
  BY <1>1, Untouched
<1>9. \A s \in Slices : Over(s)' <=> Over(s)
  BY <1>1 DEF Over, Committed, SliceIsDone
<1>10. \A j \in Ids : Known(j)' => Known(j)
  BY <1>1, <1>2, <1>5, <1>7 DEF Known, Claimed, Called, Busy
<1>11. KnownInv'
  <2>1. \A s \in Slices : Registered(s)' <=> Registered(s)
    BY <1>1 DEF Registered, Committed
  <2>2. \A s \in Slices : ~Registered(s)' => index'[s] = "absent"
    BY <1>6, <2>1 DEF QuietInv, PlannerInv, KnownInv
  <2>. QED BY <1>6, <1>10, <2>1, <2>2, KnownFrame DEF QuietInv
<1>12. \A v \in Workers : Busy(v) => jobs[v].id # i
  <2>1. ~AllOver(i)
    BY <1>1, <1>4 DEF AllOver, Over
  <2>. QED BY <1>1, <2>1, BusyFacts DEF QuietInv, JobOK
<1>13. JobsInv'
  <2>1. JobOK(w)'
    BY <1>1, <1>3, <1>4, <1>5, <1>7, <1>9, <1>12 DEF JobOK, Busy
  <2>2. ASSUME NEW v \in Workers, v # w, Busy(v) PROVE Kept(jobs[v].id)
    <3>1. jobs[v].id \in Ids /\ \A s \in jobs[v].id : s \in Slices
      BY <2>2, BusyFacts, IdsFacts DEF QuietInv
    <3>. QED BY <1>1, <1>4, <1>5, <1>6, <1>9, <3>1 DEF Kept
  <2>. QED BY <1>7, <1>8, <2>1, <2>2, JobsFrame DEF QuietInv
<1>14. RowsInv'
  BY <1>1, <1>5 DEF QuietInv, PlannerInv, RowsInv
<1>15. ReservedInv'
  BY <1>1, <1>6, <1>7 DEF QuietInv, PlannerInv, ReservedInv, Busy
<1>16. FoundInv'
  <2>1. \A s \in Slices : IsFenced(manifests, s) => IsFenced(manifests', s)
    BY <1>5 DEF IsFenced
  <2>. QED BY <1>1, <1>4, <1>6, <2>1
           DEF QuietInv, PlannerInv, FoundInv, Found, SliceIsDone, Over
<1>17. PlannerInv'
  BY <1>1, <1>11, <1>13, <1>14, <1>15, <1>16 DEF QuietInv, PlannerInv, DownInv
<1>18. ASSUME ~torn PROVE WholeInv'
  <2>1. WholeInv
    BY <1>18 DEF QuietInv
  <2>2. \A j \in Ids : (AllOver(j)' <=> AllOver(j)) /\ (Undone(j)' <=> Undone(j))
    BY <1>1 DEF AllOver, Undone, Over, Committed, SliceIsDone
  <2>3. WholeRows'
    BY <1>1, <1>5, <2>1, <2>2 DEF WholeInv, WholeRows, WholeRow, Called
  <2>4. Undone(i) /\ i \notin redo
    BY <1>1, <1>4, <2>1 DEF WholeInv, WholeRows, WholeRow, Undone, AllOver, Over
  <2>5. R = i
    BY <1>4, <2>4 DEF Undone, Over
  <2>6. WholeJob(w)'
    BY <1>1, <1>5, <1>7, <2>2, <2>4, <2>5 DEF WholeJob
  <2>7. ASSUME NEW v \in Workers, v # w, Busy(v) PROVE WholeJob(v)'
    <3>1. jobs[v].id \in Ids /\ WholeJob(v)
      BY <2>1, <2>7, BusyFacts DEF QuietInv, WholeInv, WholeJobs
    <3>. QED BY <1>1, <1>5, <1>7, <2>2, <2>7, <3>1 DEF WholeJob, Called
  <2>8. WholeJobs'
    BY <1>7, <2>6, <2>7 DEF WholeJobs, Busy
  <2>. QED BY <1>1, <2>1, <2>3, <2>8 DEF WholeInv, LedgerInv, Applied
<1>. QED BY <1>1, <1>17, <1>18 DEF QuietInv

\* A record that yields no work is left where it is.
LEMMA QuietSkipManifest ==
    ASSUME IInv, IInv', QuietInv, NEW i \in Ids, SkipManifest(i)
    PROVE  QuietInv'
<1>. USE DEF durableVars, plannerVars, sinkVars, bounds
<1>1. /\ manifests[i] # "none" /\ up /\ up'
      /\ manifests' = [manifests EXCEPT ![i] = "pending"]
      /\ UNCHANGED <<row, done, comp, unregistered, reserved, inFlight, jobs,
                     redo, hydrate, requests, ledger, delivered, torn>>
  BY DEF SkipManifest, CanPlan, Ready
<1>2. Known(i)
  BY <1>1 DEF Known, Claimed
<1>3. \A s \in i : s \in Slices /\ Registered(s) /\ Committed(s)
  BY <1>2, KnownFacts DEF QuietInv
<1>4. \A j \in Ids : manifests'[j] = "none" <=> manifests[j] = "none"
  BY <1>1 DEF IInv, TypeOK
<1>5. \A s \in Slices :
        index'[s] = index[s] \/ (index'[s] = "absent" /\ Over(s))
  <2>1. CASE index' = index
    BY <2>1
  <2>2. CASE index' # index
    <3>1. index' = RemoveSlices(index, i) /\ Remaining(i) = {}
      BY <2>2 DEF SkipManifest, Resumable
    <3>. QED BY <1>3, <3>1 DEF RemoveSlices, Remaining, Over
  <2>. QED BY <2>1, <2>2
<1>6. Settles /\ Steady
  BY <1>1, Untouched
<1>7. \A j \in Ids : Known(j)' <=> Known(j)
  BY <1>1, <1>4 DEF Known, Claimed, Called, Busy
<1>8. \A s \in Slices : Over(s)' <=> Over(s)
  BY <1>1 DEF Over, Committed, SliceIsDone
<1>9. KnownInv'
  <2>1. \A s \in Slices : Registered(s)' <=> Registered(s)
    BY <1>1 DEF Registered, Committed
  <2>2. \A s \in Slices : ~Registered(s)' => index'[s] = "absent"
    BY <1>5, <2>1 DEF QuietInv, PlannerInv, KnownInv
  <2>. QED BY <1>5, <1>7, <2>1, <2>2, KnownFrame DEF QuietInv
<1>10. JobsInv'
  <2>1. \A v \in Workers : Busy(v) =>
            jobs[v].id \in Ids /\ \A s \in jobs[v].id : s \in Slices
    BY BusyFacts, IdsFacts DEF QuietInv
  <2>. QED BY <1>1, <1>4, <1>5, <1>6, <1>8, <2>1, JobsFrame DEF QuietInv, Kept
<1>11. RowsInv'
  BY <1>1, <1>4 DEF QuietInv, PlannerInv, RowsInv
<1>12. ReservedInv'
  BY <1>1, <1>5 DEF QuietInv, PlannerInv, ReservedInv
<1>13. FoundInv'
  <2>1. \A s \in Slices : IsFenced(manifests, s) => IsFenced(manifests', s)
    BY <1>4 DEF IsFenced
  <2>. QED BY <1>1, <1>5, <2>1
           DEF QuietInv, PlannerInv, FoundInv, Found, SliceIsDone, Over
<1>14. PlannerInv'
  BY <1>1, <1>9, <1>10, <1>11, <1>12, <1>13 DEF QuietInv, PlannerInv, DownInv
<1>. QED BY <1>1, <1>4, <1>6, <1>14, WholeFrame DEF QuietInv

\* Available slices belong to no known id; without a torn acknowledgement
\* they still have to be applied.
LEMMA AvailableFacts ==
    ASSUME IInv, QuietInv, NEW s \in Slices, index[s] = "available"
    PROVE  /\ Registered(s) /\ Committed(s)
           /\ \A i \in Ids : s \in i => ~Known(i)
           /\ ~torn => ~SliceIsDone(s)
<1>1. Registered(s) /\ Committed(s) /\ \A i \in Ids : s \in i => ~Known(i)
  BY DEF QuietInv, PlannerInv, KnownInv, Registered
<1>2. ASSUME ~torn, SliceIsDone(s) PROVE FALSE
  <2>1. Applied(s)
    BY <1>1, <1>2, DoneIsApplied
  <2>2. PICK j \in ledger : s \in j
    BY <1>2, <2>1 DEF QuietInv, WholeInv, LedgerInv
  <2>3. j \in Ids /\ Known(j)
    BY <1>2 DEF IInv, TypeOK, Known, Called
  <2>. QED BY <1>1, <2>2, <2>3
<1>. QED BY <1>1, <1>2

\* A new id is made of slices no other id has.
LEMMA QuietPlanGroup ==
    ASSUME IInv, IInv', QuietInv, NEW w \in Workers, NEW i \in Ids,
           PlanGroup(w, i)
    PROVE  QuietInv'
<1>. USE DEF durableVars, plannerVars, sinkVars, bounds
<1>1. /\ ~Busy(w) /\ up /\ up'
      /\ \A s \in i : index[s] = "available"
      /\ index' = [s \in Slices |-> IF s \in i THEN "reserved" ELSE index[s]]
      /\ jobs' = [jobs EXCEPT ![w] = Job("planned", i, i)]
      /\ UNCHANGED <<row, done, comp, unregistered, manifests, reserved, inFlight,
                     redo, hydrate, requests, ledger, delivered, torn>>
  BY DEF PlanGroup, CanPlan, Busy, NoJob
<1>2. /\ jobs'[w].pc = "planned" /\ jobs'[w].id = i /\ jobs'[w].entries = i
      /\ \A v \in Workers : v # w => jobs'[v] = jobs[v]
  BY <1>1 DEF IInv, TypeOK, Job
<1>3. i # {} /\ i \subseteq Slices
  BY DEF Ids
<1>4. \A s \in i : /\ Registered(s) /\ Committed(s)
                   /\ \A j \in Ids : s \in j => ~Known(j)
                   /\ ~torn => ~SliceIsDone(s)
  BY <1>1, <1>3, AvailableFacts
<1>5. ~Known(i)
  BY <1>3, <1>4
<1>6. \A j \in Ids : Known(j)' => Known(j) \/ j = i
  BY <1>1, <1>2 DEF Known, Claimed, Called, Busy
<1>7. Settles /\ Steady
  BY <1>1, Untouched
<1>8. \A s \in Slices : /\ Registered(s)' <=> Registered(s)
                        /\ Over(s)' <=> Over(s)
                        /\ SliceIsDone(s)' <=> SliceIsDone(s)
  BY <1>1 DEF Registered, Committed, Over, SliceIsDone
<1>9. KnownInv'
  <2>1. \A j \in Ids : Known(j) => j \cap i = {}
    BY <1>4
  <2>2. \A j, k \in Ids : Known(j)' /\ Known(k)' /\ j \cap k # {} => j = k
    BY <1>6, <2>1 DEF QuietInv, PlannerInv, KnownInv
  <2>3. \A j \in Ids : Known(j)' =>
            \A s \in j : index'[s] # "available" /\ Registered(s)'
    BY <1>1, <1>3, <1>4, <1>6, <1>8, IdsFacts DEF QuietInv, PlannerInv, KnownInv
  <2>4. \A s \in Slices : ~Registered(s)' => index'[s] = "absent"
    BY <1>1, <1>4, <1>8 DEF QuietInv, PlannerInv, KnownInv
  <2>. QED BY <2>2, <2>3, <2>4 DEF KnownInv
<1>10. manifests[i] = "none" /\ \A v \in Workers : Busy(v) => jobs[v].id # i
  BY <1>5 DEF Known, Claimed
<1>11. JobsInv'
  <2>1. JobOK(w)'
    BY <1>1, <1>2, <1>3, <1>10 DEF JobOK, Busy
  <2>2. ASSUME NEW v \in Workers, v # w, Busy(v) PROVE Kept(jobs[v].id)
    <3>1. \A s \in jobs[v].id : s \in Slices
      BY <2>2, BusyFacts, IdsFacts DEF QuietInv
    <3>. QED BY <1>1, <3>1 DEF Kept
  <2>. QED BY <1>2, <1>7, <2>1, <2>2, JobsFrame DEF QuietInv
<1>12. RowsInv'
  BY <1>1 DEF QuietInv, PlannerInv, RowsInv
<1>13. ReservedInv'
  BY <1>1, <1>2 DEF QuietInv, PlannerInv, ReservedInv, Busy
<1>14. FoundInv'
  BY <1>1, <1>8 DEF QuietInv, PlannerInv, FoundInv, Found, IsFenced
<1>15. PlannerInv'
  BY <1>1, <1>9, <1>11, <1>12, <1>13, <1>14 DEF QuietInv, PlannerInv, DownInv
<1>16. ASSUME ~torn PROVE WholeInv'
  <2>1. WholeInv
    BY <1>16 DEF QuietInv
  <2>2. \A j \in Ids : (AllOver(j)' <=> AllOver(j)) /\ (Undone(j)' <=> Undone(j))
    BY <1>1 DEF AllOver, Undone, Over, Committed, SliceIsDone
  <2>3. WholeRows'
    BY <1>1, <2>1, <2>2 DEF WholeInv, WholeRows, WholeRow, Called
  <2>4. Undone(i) /\ i \notin redo
    BY <1>3, <1>4, <1>16, <2>1
    DEF WholeInv, WholeRows, WholeRow, Undone, AllOver, Over
  <2>5. comp[i] = "none" /\ ~Called(i)
    BY <1>5, <1>16 DEF Known, Claimed, IInv, TypeOK
  <2>6. WholeJob(w)'
    BY <1>1, <1>2, <2>2, <2>4, <2>5 DEF WholeJob, Called
  <2>7. ASSUME NEW v \in Workers, v # w, Busy(v) PROVE WholeJob(v)'
    <3>1. jobs[v].id \in Ids /\ WholeJob(v)
      BY <2>1, <2>7, BusyFacts DEF QuietInv, WholeInv, WholeJobs
    <3>. QED BY <1>1, <1>2, <2>2, <2>7, <3>1 DEF WholeJob, Called
  <2>8. WholeJobs'
    BY <1>2, <2>6, <2>7 DEF WholeJobs, Busy
  <2>. QED BY <1>1, <2>1, <2>3, <2>8 DEF WholeInv, LedgerInv, Applied
<1>. QED BY <1>1, <1>15, <1>16 DEF QuietInv

-----------------------------------------------------------------------------
(* Jobs and the sink.                                                      *)

\* The job of worker w takes another program counter and keeps the rest.
Moves(w, pc) ==
    /\ jobs'[w].pc = pc
    /\ jobs'[w].id = jobs[w].id
    /\ jobs'[w].entries = jobs[w].entries
    /\ \A v \in Workers : v # w => jobs'[v] = jobs[v]

\* The row and the record of a job that has not acknowledged are written: when
\* it starts, and when it calls the sink.
LEMMA QuietUpsert ==
    ASSUME IInv, QuietInv, NEW w \in Workers, NEW state \in {"pending", "sent"},
           NEW pc \in {"building", "sent"}, NEW i, i = jobs[w].id,
           jobs[w].pc \in {"planned", "building"}, up, Moves(w, pc),
           comp' = [comp EXCEPT ![i] = state], UpsertManifest(i, state),
           requests' \subseteq requests \cup {[id |-> i, entries |-> jobs[w].entries]},
           UNCHANGED <<row, done, up, unregistered, redo, hydrate, ledger,
                       delivered, torn>>
    PROVE  QuietInv'
<1>1. /\ Busy(w) /\ i \in Ids /\ Known(i) /\ JobOK(w)
      /\ \A v \in Workers : Busy(v) /\ v # w => jobs[v].id # i /\ jobs[v].id \cap i = {}
  BY BusyFacts DEF QuietInv, Busy
<1>2. \A s \in i : s \in Slices /\ Registered(s) /\ Committed(s) /\ index[s] # "available"
  BY <1>1, KnownFacts DEF QuietInv
<1>3. /\ manifests'[i] = state /\ \A j \in Ids : j # i => manifests'[j] = manifests[j]
      /\ comp'[i] = state /\ \A j \in Ids : j # i => comp'[j] = comp[j]
      /\ state # "none" /\ state # "acked"
  BY <1>1 DEF UpsertManifest, IInv, TypeOK
<1>4. reserved \subseteq reserved'
      /\ (manifests[i] = "none" /\ (\E s \in i : index[s] = "reserved") => i \in reserved')
  BY DEF UpsertManifest
<1>5. \A s \in Slices :
        index'[s] = IF s \notin i \/ index[s] \in {"absent", "reserved"}
                    THEN index[s] ELSE "fenced"
  <2>1. \A s \in i : IsFenced(manifests', s)
    BY <1>1, <1>3 DEF IsFenced
  <2>2. index' = Refence(index, manifests', i)
    BY DEF UpsertManifest
  <2>. QED BY <2>1, <2>2 DEF Refence, IsFenced
<1>6. Settles /\ Steady
  BY Untouched
<1>7. \A s \in Slices : /\ Registered(s)' <=> Registered(s)
                        /\ Over(s)' <=> Over(s)
                        /\ SliceIsDone(s)' <=> SliceIsDone(s)
  BY DEF Registered, Committed, Over, SliceIsDone
<1>8. \A j \in Ids : Known(j)' => Known(j)
  <2>1. \A j \in Ids : j # i => (Claimed(j)' => Claimed(j)) /\ (Called(j)' => Called(j))
    BY <1>3 DEF Claimed, Called, Busy, Moves
  <2>. QED BY <1>1, <1>3, <2>1 DEF Known
<1>9. KnownInv'
  <2>1. \A s \in Slices : ~Registered(s)' => index'[s] = "absent"
    BY <1>5, <1>7 DEF QuietInv, PlannerInv, KnownInv
  <2>. QED BY <1>5, <1>7, <1>8, <2>1, KnownFrame DEF QuietInv
<1>10. JobsInv'
  <2>1. JobOK(w)'
    <3>1. \A v \in Workers : Busy(v)' /\ jobs'[v].id = jobs'[w].id => v = w
      BY <1>1 DEF Moves, Busy
    <3>2. \A s \in i : s \in jobs'[w].entries \/ Over(s)'
      BY <1>1, <1>2, <1>7 DEF JobOK, Moves
    <3>3. i \in reserved' \/ \A s \in i : Over(s)'
      BY <1>1, <1>2, <1>4, <1>7 DEF JobOK, AllOver
    <3>. QED BY <1>3, <3>1, <3>2, <3>3 DEF JobOK, Moves, AllOver
  <2>2. ASSUME NEW v \in Workers, v # w, Busy(v) PROVE Kept(jobs[v].id)
    <3>1. jobs[v].id \in Ids /\ jobs[v].id # i /\ jobs[v].id \cap i = {}
          /\ \A s \in jobs[v].id : s \in Slices
      BY <1>1, <2>2, BusyFacts, IdsFacts DEF QuietInv
    <3>. QED BY <1>3, <1>4, <1>5, <3>1 DEF Kept
  <2>. QED BY <1>6, <2>1, <2>2, JobsFrame DEF QuietInv, Moves
<1>11. RowsInv'
  BY <1>3 DEF QuietInv, PlannerInv, RowsInv
<1>12. ReservedInv'
  BY <1>5 DEF QuietInv, PlannerInv, ReservedInv, Moves
<1>13. FoundInv'
  <2>. SUFFICES ASSUME NEW s \in Slices PROVE Found(s)'
    BY DEF FoundInv
  <2>1. Found(s)
    BY DEF QuietInv, PlannerInv, FoundInv
  <2>2. IsFenced(manifests, s) => IsFenced(manifests', s)
    BY <1>3 DEF IsFenced
  <2>3. s \in i => IsFenced(manifests', s)
    BY <1>1, <1>3 DEF IsFenced
  <2>4. CASE s \in i /\ comp[i] = "acked"
    <3>1. index[s] = "reserved" \/ SliceIsDone(s)
      BY <1>1, <2>4 DEF QuietInv, PlannerInv, RowsInv, JobOK, Over
    <3>. QED BY <1>5, <1>7, <3>1 DEF Found
  <2>5. CASE ~(s \in i /\ comp[i] = "acked")
    BY <1>3, <1>5, <1>7, <2>1, <2>2, <2>3, <2>5 DEF Found
  <2>. QED BY <2>4, <2>5
<1>14. PlannerInv'
  BY <1>9, <1>10, <1>11, <1>12, <1>13 DEF QuietInv, PlannerInv, DownInv
<1>15. ASSUME ~torn PROVE WholeInv'
  <2>1. WholeInv /\ WholeJob(w)
    BY <1>1, <1>15 DEF QuietInv, WholeInv, WholeJobs
  <2>2. \A j \in Ids : (AllOver(j)' <=> AllOver(j)) /\ (Undone(j)' <=> Undone(j))
    BY DEF AllOver, Undone, Over, Committed, SliceIsDone
  <2>3. \A j \in Ids : j # i => (Called(j)' => Called(j))
    BY DEF Called
  <2>4. Undone(i)
    BY <2>1 DEF WholeJob
  <2>5. WholeRows'
    BY <1>1, <1>3, <2>1, <2>2, <2>3, <2>4 DEF WholeInv, WholeRows, WholeRow
  <2>6. WholeJob(w)'
    BY <1>1, <1>3, <2>1, <2>2, <2>4 DEF WholeJob, Moves
  <2>7. ASSUME NEW v \in Workers, v # w, Busy(v) PROVE WholeJob(v)'
    <3>1. jobs[v].id \in Ids /\ jobs[v].id # i /\ WholeJob(v)
      BY <1>1, <2>1, <2>7, BusyFacts DEF QuietInv, WholeInv, WholeJobs
    <3>2. jobs'[v] = jobs[v]
      BY <2>7 DEF Moves
    <3>. QED BY <1>3, <2>2, <2>3, <3>1, <3>2 DEF WholeJob
  <2>8. WholeJobs'
    BY <2>6, <2>7 DEF WholeJobs, Busy, Moves
  <2>9. LedgerInv'
    BY <2>1 DEF WholeInv, WholeJob, LedgerInv, Applied
  <2>. QED BY <2>5, <2>8, <2>9 DEF WholeInv
<1>. QED BY <1>14, <1>15 DEF QuietInv

\* A job that only takes another program counter.
LEMMA QuietMoves ==
    ASSUME IInv, QuietInv, NEW w \in Workers, NEW pc, Moves(w, pc), up,
           \/ jobs[w].pc = "planned" /\ pc = "building"
           \/ jobs[w].pc = "sent" /\ pc = "acking",
           requests' \subseteq requests,
           UNCHANGED <<row, done, comp, up, unregistered, index, manifests, reserved,
                       redo, hydrate, ledger, delivered, torn>>
    PROVE  QuietInv'
<1>1. Busy(w) /\ Busy(w)' /\ JobOK(w) /\ jobs[w].id \in Ids
  BY BusyFacts DEF QuietInv, Busy, Moves
<1>2. Settles /\ Steady
  BY Untouched
<1>3. \A s \in Slices : /\ Registered(s)' <=> Registered(s)
                        /\ Over(s)' <=> Over(s)
                        /\ SliceIsDone(s)' <=> SliceIsDone(s)
  BY DEF Registered, Committed, Over, SliceIsDone
<1>4. \A j \in Ids : Called(j)' => Called(j)
  BY DEF Called
<1>5. KnownInv'
  <2>1. \A j \in Ids : Known(j)' => Known(j)
    BY <1>1, <1>4 DEF Known, Claimed, Moves, Busy
  <2>. QED BY <1>3, <2>1, KnownFrame DEF QuietInv, PlannerInv, KnownInv
<1>6. JobsInv'
  <2>1. JobOK(w)'
    <3>1. \A s \in jobs[w].id : Over(s) => Over(s)'
      BY <1>1, <1>3, IdsFacts
    <3>2. \A v \in Workers : Busy(v)' /\ jobs'[v].id = jobs'[w].id => v = w
      BY <1>1 DEF Moves, Busy, JobOK
    <3>. QED BY <1>1, <3>1, <3>2 DEF JobOK, AllOver, Moves
  <2>. QED BY <1>2, <2>1, JobsFrame DEF QuietInv, Kept, Moves
<1>7. PlannerInv'
  <2>1. RowsInv'
    BY DEF QuietInv, PlannerInv, RowsInv
  <2>2. ReservedInv'
    BY DEF QuietInv, PlannerInv, ReservedInv, Moves
  <2>3. FoundInv'
    BY <1>3 DEF QuietInv, PlannerInv, FoundInv, Found
  <2>. QED BY <1>5, <1>6, <2>1, <2>2, <2>3 DEF QuietInv, PlannerInv, DownInv
<1>8. ASSUME ~torn PROVE WholeInv'
  <2>1. WholeInv
    BY <1>8 DEF QuietInv
  <2>2. \A j \in Ids : (AllOver(j)' <=> AllOver(j)) /\ (Undone(j)' <=> Undone(j))
    BY DEF AllOver, Undone, Over, Committed, SliceIsDone
  <2>3. WholeRows'
    BY <1>4, <2>1, <2>2 DEF WholeInv, WholeRows, WholeRow
  <2>4. ASSUME NEW v \in Workers, Busy(v) PROVE WholeJob(v)'
    <3>1. jobs[v].id \in Ids /\ WholeJob(v) /\ jobs'[v].id = jobs[v].id
          /\ jobs'[v].entries = jobs[v].entries
          /\ (jobs'[v].pc = "reclaiming" <=> jobs[v].pc = "reclaiming")
          /\ (jobs'[v].pc \in {"planned", "building"} => jobs[v].pc \in {"planned", "building"})
      BY <2>1, <2>4, BusyFacts DEF QuietInv, WholeInv, WholeJobs, Moves
    <3>. QED BY <1>4, <2>2, <3>1 DEF WholeJob
  <2>5. WholeJobs'
    BY <1>1, <2>4 DEF WholeJobs, Busy, Moves
  <2>6. LedgerInv'
    BY <2>1 DEF WholeInv, LedgerInv, Applied
  <2>. QED BY <2>3, <2>5, <2>6 DEF WholeInv
<1>. QED BY <1>7, <1>8 DEF QuietInv

\* A job starts: a copy job keeps its reservation only, any other one writes
\* its Pending row.
LEMMA QuietStart ==
    ASSUME IInv, QuietInv, NEW w \in Workers, JobStart(w)
    PROVE  QuietInv'
<1>. USE DEF sinkVars
<1>1. jobs[w].pc = "planned" /\ Moves(w, "building") /\ up
  <2>1. jobs[w].pc = "planned" /\ jobs' = [jobs EXCEPT ![w].pc = "building"] /\ up
    BY DEF JobStart
  <2>2. jobs[w] \in [pc : {"planned", "building", "sent", "acking"},
                     id : Ids, entries : SUBSET Slices]
    BY <2>1, JobFacts DEF IInv
  <2>. QED BY <2>1, <2>2 DEF Moves, IInv, TypeOK
<1>2. CASE CopyPipeline
  BY <1>1, <1>2, QuietMoves DEF JobStart, StartsCopy
<1>3. CASE ~CopyPipeline
  <2>1. PersistsPending(jobs[w].id)
    BY <1>3 DEF JobStart
  <2>. QED BY <1>1, <2>1, QuietUpsert DEF JobStart, PersistsPending
<1>. QED BY <1>2, <1>3

\* A job calls the sink.
LEMMA QuietSend ==
    ASSUME IInv, QuietInv, NEW w \in Workers, JobSend(w)
    PROVE  QuietInv'
<1>1. jobs[w].pc = "building" /\ Moves(w, "sent") /\ up
  <2>1. jobs[w].pc = "building" /\ jobs' = [jobs EXCEPT ![w].pc = "sent"] /\ up
    BY DEF JobSend
  <2>2. jobs[w] \in [pc : {"planned", "building", "sent", "acking"},
                     id : Ids, entries : SUBSET Slices]
    BY <2>1, JobFacts DEF IInv
  <2>. QED BY <2>1, <2>2 DEF Moves, IInv, TypeOK
<1>. QED BY <1>1, QuietUpsert DEF JobSend

\* The sink answers.
LEMMA QuietOk ==
    ASSUME IInv, QuietInv, NEW w \in Workers, SinkOk(w)
    PROVE  QuietInv'
<1>1. jobs[w].pc = "sent" /\ Moves(w, "acking") /\ up
  <2>1. jobs[w].pc = "sent" /\ jobs' = [jobs EXCEPT ![w].pc = "acking"] /\ up
    BY DEF SinkOk
  <2>2. jobs[w] \in [pc : {"planned", "building", "sent", "acking"},
                     id : Ids, entries : SUBSET Slices]
    BY <2>1, JobFacts DEF IInv
  <2>. QED BY <2>1, <2>2 DEF Moves, IInv, TypeOK
<1>. QED BY <1>1, QuietMoves DEF SinkOk, durableVars, plannerVars, sinkVars

\* A job that ends without an acknowledgement puts its slices back behind
\* their fence, or makes them available when nobody else knows their id.
LEMMA QuietRelease ==
    ASSUME IInv, QuietInv, NEW w \in Workers, Busy(w), up, NEW i, i = jobs[w].id,
           jobs' = [jobs EXCEPT ![w] = NoJob],
           index' = ReleaseRefs(index, manifests, i),
           reserved' = reserved \ {i},
           UNCHANGED <<row, done, comp, up, unregistered, manifests, redo, hydrate,
                       requests, ledger, delivered, torn>>
    PROVE  QuietInv'
<1>1. /\ i \in Ids /\ Known(i) /\ JobOK(w)
      /\ jobs[w].pc \in {"planned", "building", "sent", "acking", "reclaiming"}
      /\ \A v \in Workers : Busy(v) /\ v # w => jobs[v].id # i /\ jobs[v].id \cap i = {}
  BY BusyFacts DEF QuietInv
<1>2. \A s \in i : s \in Slices /\ index[s] # "available"
  BY <1>1, KnownFacts DEF QuietInv
<1>3. ~Busy(w)' /\ \A v \in Workers : v # w => jobs'[v] = jobs[v]
  BY DEF IInv, TypeOK, Busy, NoJob
<1>4. \A s \in Slices :
        index'[s] = IF s \notin i \/ index[s] # "reserved" THEN index[s]
                    ELSE IF IsFenced(manifests, s) THEN "fenced" ELSE "available"
  BY DEF ReleaseRefs
<1>5. Settles /\ Steady
  BY Untouched
<1>6. \A s \in Slices : /\ Registered(s)' <=> Registered(s)
                        /\ Over(s)' <=> Over(s)
                        /\ SliceIsDone(s)' <=> SliceIsDone(s)
  BY DEF Registered, Committed, Over, SliceIsDone
<1>7. \A j \in Ids : Known(j)' => Known(j)
  BY <1>3 DEF Known, Claimed, Called, Busy
<1>8. ASSUME NEW s \in i, index[s] = "reserved", ~IsFenced(manifests, s),
             NEW j \in Ids, s \in j, Known(j)'
      PROVE  FALSE
  <2>1. j = i
    BY <1>1, <1>7, <1>8 DEF QuietInv, PlannerInv, KnownInv
  <2>2. manifests[i] = "none"
    BY <1>1, <1>8 DEF IsFenced
  <2>3. jobs[w].pc \in {"planned", "building"}
    <3>1. PICK v \in Workers : jobs[v].pc \notin {"idle", "reclaiming"} /\ s \in jobs[v].id
      BY <1>2, <1>8 DEF QuietInv, PlannerInv, ReservedInv
    <3>2. v = w
      BY <1>1, <1>8, <3>1 DEF Busy
    <3>. QED BY <1>1, <2>2, <3>1, <3>2 DEF JobOK
  <2>4. ~torn => comp[i] = "none" /\ ~Called(i)
    BY <2>2, <2>3 DEF QuietInv, WholeInv, WholeJobs, WholeJob
  <2>5. comp[i] \notin {"pending", "sent"}
    BY <1>1, <2>2 DEF QuietInv, PlannerInv, RowsInv
  <2>6. ~Claimed(i)'
    BY <1>1, <1>3, <2>2, <2>5 DEF Claimed, Busy
  <2>. QED BY <1>8, <2>1, <2>4, <2>6 DEF Known, Called
<1>9. KnownInv'
  <2>1. \A s \in Slices : ~Registered(s)' => index'[s] = "absent"
    BY <1>4, <1>6 DEF QuietInv, PlannerInv, KnownInv
  <2>. QED BY <1>4, <1>6, <1>7, <1>8, <2>1, KnownFrame DEF QuietInv
<1>10. JobsInv'
  <2>1. ASSUME NEW v \in Workers, v # w, Busy(v) PROVE Kept(jobs[v].id)
    <3>1. jobs[v].id # i /\ jobs[v].id \cap i = {} /\ \A s \in jobs[v].id : s \in Slices
      BY <1>1, <2>1, BusyFacts, IdsFacts DEF QuietInv
    <3>. QED BY <1>4, <3>1 DEF Kept
  <2>. QED BY <1>3, <1>5, <2>1, JobsFrame DEF QuietInv
<1>11. RowsInv'
  BY DEF QuietInv, PlannerInv, RowsInv
<1>12. ReservedInv'
  <2>. SUFFICES ASSUME NEW s \in Slices, index'[s] = "reserved"
                PROVE  \E v \in Workers : jobs'[v].pc \notin {"idle", "reclaiming"}
                                          /\ s \in jobs'[v].id
    BY DEF ReservedInv
  <2>1. s \notin i /\ index[s] = "reserved"
    BY <1>4
  <2>2. PICK v \in Workers : jobs[v].pc \notin {"idle", "reclaiming"} /\ s \in jobs[v].id
    BY <2>1 DEF QuietInv, PlannerInv, ReservedInv
  <2>. QED BY <1>3, <2>1, <2>2
<1>13. FoundInv'
  BY <1>4, <1>6 DEF QuietInv, PlannerInv, FoundInv, Found
<1>14. PlannerInv'
  BY <1>9, <1>10, <1>11, <1>12, <1>13 DEF QuietInv, PlannerInv, DownInv
<1>15. ASSUME ~torn PROVE WholeInv'
  <2>1. WholeInv
    BY <1>15 DEF QuietInv
  <2>2. \A j \in Ids : (AllOver(j)' <=> AllOver(j)) /\ (Undone(j)' <=> Undone(j))
    BY DEF AllOver, Undone, Over, Committed, SliceIsDone
  <2>3. WholeRows'
    BY <2>1, <2>2 DEF WholeInv, WholeRows, WholeRow, Called
  <2>4. ASSUME NEW v \in Workers, v # w, Busy(v) PROVE WholeJob(v)'
    <3>1. jobs[v].id \in Ids /\ WholeJob(v)
      BY <2>1, <2>4, BusyFacts DEF QuietInv, WholeInv, WholeJobs
    <3>. QED BY <1>3, <2>2, <2>4, <3>1 DEF WholeJob, Called
  <2>5. WholeJobs'
    BY <1>3, <2>4 DEF WholeJobs, Busy
  <2>. QED BY <2>1, <2>3, <2>5 DEF WholeInv, LedgerInv, Applied
<1>. QED BY <1>14, <1>15 DEF QuietInv

\* A job that may not start, and one that fails.
LEMMA QuietFails ==
    ASSUME IInv, QuietInv, NEW w \in Workers, JobRefused(w) \/ JobFails(w)
    PROVE  QuietInv'
<1>. USE DEF durableVars, plannerVars, sinkVars
<1>1. CASE JobRefused(w)
  BY <1>1, QuietRelease DEF JobRefused, Busy
<1>2. CASE JobFails(w)
  <2>1. Busy(w)
    BY <1>2 DEF JobFails, Busy, Running, AtSink
  <2>. QED BY <1>2, <2>1, QuietRelease DEF JobFails, ReleaseWork
<1>. QED BY <1>1, <1>2

\* The sink applies a call: without a torn acknowledgement a slice of it is
\* in no other id of the ledger.
LEMMA QuietLands ==
    ASSUME IInv, QuietInv, NEW q \in requests, SinkLands(q)
    PROVE  QuietInv'
<1>. USE DEF durableVars, plannerVars, sinkVars
<1>1. /\ requests' = requests \ {q} /\ ledger' = ledger \cup {q.id}
      /\ UNCHANGED <<row, done, comp, up, unregistered, index, manifests, reserved,
                     jobs, redo, hydrate, torn>>
  BY DEF SinkLands
<1>2. q.id \in Ids
  BY DEF IInv, TypeOK
<1>3. \A j \in Ids : Called(j)' => Called(j)
  BY <1>1 DEF Called
<1>4. \A s \in Slices : /\ Registered(s)' <=> Registered(s)
                        /\ Over(s)' <=> Over(s)
                        /\ SliceIsDone(s)' <=> SliceIsDone(s)
  BY <1>1 DEF Registered, Committed, Over, SliceIsDone
<1>5. KnownInv'
  <2>1. \A j \in Ids : Known(j)' => Known(j)
    BY <1>1, <1>3 DEF Known, Claimed, Busy
  <2>. QED BY <1>1, <1>4, <2>1, KnownFrame DEF QuietInv, PlannerInv, KnownInv
<1>6. JobsInv'
  BY <1>1, Untouched, JobsFrame DEF QuietInv, Kept
<1>7. FoundInv' /\ RowsInv' /\ ReservedInv' /\ DownInv'
  BY <1>1, <1>4 DEF QuietInv, PlannerInv, FoundInv, Found, RowsInv, ReservedInv, DownInv
<1>8. PlannerInv'
  BY <1>1, <1>5, <1>6, <1>7 DEF QuietInv, PlannerInv
<1>9. ASSUME ~torn PROVE WholeInv'
  <2>1. WholeInv
    BY <1>9 DEF QuietInv
  <2>2. \A j \in Ids : (AllOver(j)' <=> AllOver(j)) /\ (Undone(j)' <=> Undone(j))
    BY <1>1 DEF AllOver, Undone, Over, Committed, SliceIsDone
  <2>3. WholeRows'
    BY <1>1, <1>3, <2>1, <2>2 DEF WholeInv, WholeRows, WholeRow
  <2>4. WholeJobs'
    <3>1. \A v \in Workers : Busy(v) => jobs[v].id \in Ids
      BY BusyFacts DEF QuietInv
    <3>. QED BY <1>1, <1>3, <2>1, <2>2, <3>1 DEF WholeInv, WholeJobs, WholeJob, Busy
  <2>5. q.entries = q.id
    BY <2>1 DEF WholeInv, LedgerInv
  <2>6. ASSUME NEW s \in Slices
        PROVE  delivered'[s] < 2 /\ (delivered'[s] > 0 => \E i \in ledger' : s \in i)
    <3>1. delivered[s] \in 0..2 /\ delivered[s] < 2
          /\ (delivered[s] > 0 => \E i \in ledger : s \in i)
      BY <2>1 DEF WholeInv, LedgerInv, Applied, IInv, TypeOK
    <3>2. CASE s \in q.id /\ q.id \notin ledger
      <4>1. delivered[s] = 0
        <5>. SUFFICES ASSUME NEW i \in ledger, s \in i PROVE FALSE
          BY <3>1
        <5>1. i \in Ids /\ Known(i) /\ Known(q.id)
          BY <1>9 DEF IInv, TypeOK, Known, Called
        <5>. QED BY <1>2, <3>2, <5>1 DEF QuietInv, PlannerInv, KnownInv
      <4>2. delivered'[s] = 1
        BY <2>5, <3>2, <4>1 DEF SinkLands, Bump
      <4>. QED BY <1>1, <3>2, <4>2
    <3>3. CASE ~(s \in q.id /\ q.id \notin ledger)
      <4>1. delivered'[s] = delivered[s]
        BY <2>5, <3>3 DEF SinkLands
      <4>. QED BY <1>1, <3>1, <4>1
    <3>. QED BY <3>2, <3>3
  <2>7. LedgerInv'
    BY <1>1, <2>1, <2>6 DEF WholeInv, LedgerInv, Applied
  <2>. QED BY <2>3, <2>4, <2>7 DEF WholeInv
<1>. QED BY <1>1, <1>8, <1>9 DEF QuietInv

\* A job acknowledges: its slices leave the planner, the Acked row stands for
\* them from now on.
LEMMA QuietAck ==
    ASSUME IInv, QuietInv, NEW w \in Workers, JobAck(w)
    PROVE  QuietInv'
<1>. USE DEF durableVars, plannerVars, sinkVars
<1>. DEFINE i == jobs[w].id
<1>1. /\ jobs[w].pc = "acking" /\ up
      /\ comp' = [comp EXCEPT ![i] = "acked"]
      /\ manifests' = [manifests EXCEPT ![i] = "none"]
      /\ reserved' = reserved \ {i}
      /\ UNCHANGED <<row, done, up, unregistered, redo, hydrate, requests, ledger,
                     delivered, torn>>
  BY DEF JobAck
<1>2. /\ Busy(w) /\ i \in Ids /\ Known(i) /\ JobOK(w)
      /\ \A v \in Workers : Busy(v) /\ v # w => jobs[v].id # i /\ jobs[v].id \cap i = {}
  BY <1>1, BusyFacts DEF QuietInv, Busy
<1>3. \A s \in i : s \in Slices /\ Registered(s)
  BY <1>2, KnownFacts DEF QuietInv
<1>4. /\ jobs'[w].pc = "reclaiming" /\ jobs'[w].id = i
      /\ jobs'[w].entries = jobs[w].entries
      /\ jobs'[w].todo = SegmentsOf(jobs[w].entries)
      /\ \A v \in Workers : v # w => jobs'[v] = jobs[v]
  BY DEF JobAck, IInv, TypeOK
<1>5. /\ manifests'[i] = "none" /\ \A j \in Ids : j # i => manifests'[j] = manifests[j]
      /\ comp'[i] = "acked" /\ \A j \in Ids : j # i => comp'[j] = comp[j]
  BY <1>1, <1>2 DEF IInv, TypeOK
<1>6. \A s \in Slices : index'[s] = IF s \in i THEN "absent" ELSE index[s]
  BY DEF JobAck, RemoveSlices
<1>. HIDE DEF i
<1>7. Settles /\ Steady
  BY <1>1, Untouched
<1>8. \A s \in Slices : /\ Registered(s)' <=> Registered(s)
                        /\ Over(s)' <=> Over(s)
                        /\ SliceIsDone(s)' <=> SliceIsDone(s)
  BY <1>1 DEF Registered, Committed, Over, SliceIsDone
<1>9. KnownInv'
  <2>1. \A j \in Ids : j # i => (Claimed(j)' => Claimed(j)) /\ (Called(j)' => Called(j))
    BY <1>1, <1>4, <1>5 DEF Claimed, Called, Busy
  <2>2. \A j \in Ids : Known(j)' => Known(j)
    BY <1>1, <1>2, <1>5, <2>1 DEF Known
  <2>3. \A s \in Slices : ~Registered(s)' => index'[s] = "absent"
    BY <1>6, <1>8 DEF QuietInv, PlannerInv, KnownInv
  <2>. QED BY <1>6, <1>8, <2>2, <2>3, KnownFrame DEF QuietInv
<1>10. JobsInv'
  <2>1. JobOK(w)'
    <3>1. \A s \in i : s \in jobs[w].entries \/ Over(s)'
      BY <1>2, <1>3, <1>8 DEF JobOK, i
    <3>2. \A s \in jobs[w].entries : SegmentOf[s] \in SegmentsOf(jobs[w].entries)
      BY DEF SegmentsOf
    <3>3. \A v \in Workers : Busy(v)' /\ jobs'[v].id = i => v = w
      BY <1>2, <1>4 DEF Busy
    <3>. QED BY <1>4, <1>5, <3>1, <3>2, <3>3 DEF JobOK
  <2>2. ASSUME NEW v \in Workers, v # w, Busy(v) PROVE Kept(jobs[v].id)
    <3>1. /\ jobs[v].id \in Ids /\ jobs[v].id # i /\ jobs[v].id \cap i = {}
          /\ \A s \in jobs[v].id : s \in Slices
      BY <1>2, <2>2, BusyFacts, IdsFacts DEF QuietInv
    <3>. QED BY <1>1, <1>5, <1>6, <3>1 DEF Kept
  <2>. QED BY <1>4, <1>7, <2>1, <2>2, JobsFrame DEF QuietInv
<1>11. RowsInv'
  BY <1>1, <1>5 DEF QuietInv, PlannerInv, RowsInv
<1>12. ReservedInv'
  <2>. SUFFICES ASSUME NEW s \in Slices, index'[s] = "reserved"
                PROVE  \E v \in Workers : jobs'[v].pc \notin {"idle", "reclaiming"}
                                          /\ s \in jobs'[v].id
    BY DEF ReservedInv
  <2>1. s \notin i /\ index[s] = "reserved"
    BY <1>6
  <2>2. PICK v \in Workers : jobs[v].pc \notin {"idle", "reclaiming"} /\ s \in jobs[v].id
    BY <2>1 DEF QuietInv, PlannerInv, ReservedInv
  <2>. QED BY <1>4, <2>1, <2>2 DEF i
<1>13. FoundInv'
  <2>. SUFFICES ASSUME NEW s \in Slices PROVE Found(s)'
    BY DEF FoundInv
  <2>1. Found(s)
    BY <1>1 DEF QuietInv, PlannerInv, FoundInv
  <2>2. CASE s \in i
    BY <1>2, <1>5, <2>2 DEF Found
  <2>3. CASE s \notin i
    <3>1. IsFenced(manifests, s) => IsFenced(manifests', s)
      BY <1>5, <2>3 DEF IsFenced
    <3>. QED BY <1>1, <1>5, <1>6, <1>8, <2>1, <2>3, <3>1 DEF Found
  <2>. QED BY <2>2, <2>3
<1>14. PlannerInv'
  BY <1>1, <1>9, <1>10, <1>11, <1>12, <1>13 DEF QuietInv, PlannerInv, DownInv
<1>15. ASSUME ~torn PROVE WholeInv'
  <2>1. WholeInv /\ WholeJob(w)
    BY <1>2, <1>15 DEF QuietInv, WholeInv, WholeJobs
  <2>2. \A j \in Ids : (AllOver(j)' <=> AllOver(j)) /\ (Undone(j)' <=> Undone(j))
    BY <1>1 DEF AllOver, Undone, Over, Committed, SliceIsDone
  <2>3. WholeRows'
    BY <1>1, <1>5, <2>1, <2>2 DEF WholeInv, WholeRows, WholeRow, Called
  <2>4. WholeJob(w)'
    BY <1>1, <1>4, <1>5, <2>1 DEF WholeJob, i
  <2>5. ASSUME NEW v \in Workers, v # w, Busy(v) PROVE WholeJob(v)'
    <3>1. jobs[v].id \in Ids /\ jobs[v].id # i /\ WholeJob(v)
      BY <1>2, <2>1, <2>5, BusyFacts DEF QuietInv, WholeInv, WholeJobs
    <3>. QED BY <1>1, <1>4, <1>5, <2>2, <2>5, <3>1 DEF WholeJob, Called
  <2>6. WholeJobs'
    BY <1>4, <2>4, <2>5 DEF WholeJobs, Busy
  <2>. QED BY <1>1, <2>1, <2>3, <2>6 DEF WholeInv, LedgerInv, Applied
<1>. QED BY <1>1, <1>14, <1>15 DEF QuietInv

-----------------------------------------------------------------------------
(* Done bits, redo, crash and restart.                                     *)

\* Slices of S are finished; slices leave the planner only when they are.
Finishes(S) ==
    \A s \in Slices :
        /\ SliceIsDone(s)' <=> SliceIsDone(s) \/ s \in S
        /\ Committed(s)' <=> Committed(s)
        /\ index'[s] = index[s] \/ (index'[s] = "absent" /\ SliceIsDone(s)')

\* Setting bits disturbs neither fences nor other jobs.
LEMMA FinishesFacts ==
    ASSUME IInv, QuietInv, NEW S, Finishes(S), up,
           \A i \in Ids : Known(i)' => Known(i),
           UNCHANGED <<unregistered, manifests, reserved>>
    PROVE  /\ Settles
           /\ KnownInv'
           /\ \A w \in Workers : Busy(w) => Kept(jobs[w].id)
<1>1. Settles
  BY DEF Finishes, Settles, Over
<1>2. \A s \in Slices : Registered(s)' <=> Registered(s)
  BY DEF Finishes, Registered
<1>3. KnownInv'
  <2>1. \A s \in Slices : ~Registered(s)' => index'[s] = "absent"
    BY <1>2 DEF QuietInv, PlannerInv, KnownInv, Finishes
  <2>2. \A s \in Slices : index'[s] = "available" => index[s] = "available"
    BY DEF Finishes
  <2>. QED BY <1>2, <2>1, <2>2, KnownFrame DEF QuietInv
<1>4. ASSUME NEW w \in Workers, Busy(w) PROVE Kept(jobs[w].id)
  <2>1. \A s \in jobs[w].id : s \in Slices /\ Committed(s)
    BY <1>4, BusyFacts, KnownFacts DEF QuietInv
  <2>. QED BY <2>1 DEF Kept, Finishes, Over
<1>. QED BY <1>1, <1>3, <1>4

\* A job sets the bits of one segment.
LEMMA QuietComplete ==
    ASSUME IInv, QuietInv, NEW w \in Workers, NEW g \in Segments,
           CompleteSlicesAndReclaim(w, g)
    PROVE  QuietInv'
<1>. USE DEF sinkVars
<1>. DEFINE i == jobs[w].id
            S == jobs[w].entries \cap SlicesOf(g)
<1>1. /\ jobs[w].pc = "reclaiming" /\ up
      /\ UNCHANGED <<comp, up, unregistered, manifests, reserved, redo, hydrate,
                     requests, ledger, delivered, torn>>
  BY DEF CompleteSlicesAndReclaim
<1>2. /\ Busy(w) /\ i \in Ids /\ Known(i) /\ JobOK(w)
      /\ \A v \in Workers : Busy(v) /\ v # w => jobs[v].id # i /\ jobs[v].id \cap i = {}
  BY <1>1, BusyFacts DEF QuietInv, Busy
<1>3. \A s \in i : s \in Slices /\ Committed(s)
  BY <1>2, KnownFacts DEF QuietInv
<1>4. /\ jobs'[w].pc = "reclaiming" /\ jobs'[w].id = i
      /\ jobs'[w].entries = jobs[w].entries
      /\ jobs'[w].todo = jobs[w].todo \ {g}
      /\ \A v \in Workers : v # w => jobs'[v] = jobs[v]
  <2>1. jobs[w] \in [pc : {"reclaiming"}, id : Ids,
                     entries : SUBSET Slices, todo : SUBSET Segments]
    BY <1>1, JobFacts DEF IInv
  <2>2. jobs' = [jobs EXCEPT ![w].todo = @ \ {g}]
    BY DEF CompleteSlicesAndReclaim
  <2>. QED BY <2>1, <2>2 DEF IInv, TypeOK
<1>5. Finishes(S)
  <2>1. CASE row[g] = "live"
    <3>1. SetDone(S) /\ S \in SUBSET Slices
      BY <2>1 DEF CompleteSlicesAndReclaim, SlicesOf
    <3>. HIDE DEF S
    <3>. QED BY <3>1, SetDoneExact DEF Finishes
  <2>2. CASE row[g] # "live"
    <3>1. /\ index' = RemoveSlices(index, SlicesOf(g))
          /\ UNCHANGED <<row, done>>
      BY <2>2 DEF CompleteSlicesAndReclaim
    <3>2. \A s \in Slices : s \in SlicesOf(g) => SliceIsDone(s)
      BY <2>2 DEF SlicesOf, SliceIsDone
    <3>. QED BY <3>1, <3>2 DEF Finishes, RemoveSlices, SliceIsDone, Committed
  <2>. QED BY <2>1, <2>2
<1>6. S \subseteq i /\ \A s \in i : s \in jobs[w].entries /\ SegmentOf[s] = g => s \in S
  BY <1>2, <1>3 DEF IInv, JobInv, Busy, SlicesOf
<1>. HIDE DEF i, S
<1>7. \A j \in Ids : Known(j)' => Known(j)
  BY <1>1, <1>2, <1>4 DEF Known, Claimed, Called, Busy
<1>8. /\ Settles /\ KnownInv'
      /\ \A v \in Workers : Busy(v) => Kept(jobs[v].id)
  BY <1>1, <1>5, <1>7, FinishesFacts
<1>9. JobsInv'
  <2>1. JobOK(w)'
    <3>1. \A v \in Workers : Busy(v)' /\ jobs'[v].id = i => v = w
      BY <1>2, <1>4 DEF Busy
    <3>2. \A s \in i : Over(s) => Over(s)'
      BY <1>3, <1>8 DEF Settles
    <3>3. \A s \in i : s \in S => Over(s)'
      BY <1>3, <1>5 DEF Finishes, Over
    <3>4. /\ manifests'[i] = "none"
          /\ \A s \in i : s \in jobs[w].entries \/ Over(s)
          /\ \A s \in i : SegmentOf[s] \in jobs[w].todo \/ Over(s)
      BY <1>1, <1>2 DEF JobOK, i
    <3>. QED BY <1>4, <1>6, <3>1, <3>2, <3>3, <3>4 DEF JobOK
  <2>. QED BY <1>4, <1>8, <2>1, JobsFrame DEF QuietInv
<1>10. RowsInv'
  BY <1>1 DEF QuietInv, PlannerInv, RowsInv
<1>11. ReservedInv'
  <2>1. \A s \in Slices : index'[s] = "reserved" => index[s] = "reserved"
    BY <1>5 DEF Finishes
  <2>. QED BY <1>1, <1>4, <2>1 DEF QuietInv, PlannerInv, ReservedInv
<1>12. FoundInv'
  BY <1>1, <1>5 DEF QuietInv, PlannerInv, FoundInv, Found, Finishes
<1>13. PlannerInv'
  BY <1>1, <1>8, <1>9, <1>10, <1>11, <1>12 DEF QuietInv, PlannerInv, DownInv
<1>14. ASSUME ~torn PROVE WholeInv'
  <2>1. WholeInv /\ WholeJob(w)
    BY <1>2, <1>14 DEF QuietInv, WholeInv, WholeJobs
  <2>2. comp[i] = "acked"
    BY <1>1, <2>1 DEF WholeJob, i
  <2>3. \A j \in Ids : AllOver(j) => AllOver(j)'
    BY <1>8, IdsFacts DEF AllOver, Settles
  <2>4. ASSUME NEW j \in Ids, j # i, Known(j), Undone(j) PROVE Undone(j)'
    <3>1. j \cap i = {} /\ j \subseteq Slices
      BY <1>2, <2>4, IdsFacts DEF QuietInv, PlannerInv, KnownInv
    <3>. QED BY <1>5, <1>6, <2>4, <3>1 DEF Undone, Finishes
  <2>5. WholeRows'
    <3>1. \A j \in Ids : comp[j] \in {"pending", "sent"} => j # i /\ Known(j)
      BY <2>2 DEF Known, Claimed
    <3>. QED BY <1>1, <2>1, <2>3, <2>4, <3>1 DEF WholeInv, WholeRows, WholeRow, Called
  <2>6. WholeJob(w)'
    BY <1>1, <1>4, <2>1, <2>2 DEF WholeJob, i
  <2>7. ASSUME NEW v \in Workers, v # w, Busy(v) PROVE WholeJob(v)'
    <3>1. jobs[v].id \in Ids /\ Known(jobs[v].id) /\ jobs[v].id # i /\ WholeJob(v)
      BY <1>2, <2>1, <2>7, BusyFacts DEF QuietInv, WholeInv, WholeJobs
    <3>. QED BY <1>1, <1>4, <2>4, <2>7, <3>1 DEF WholeJob, Called
  <2>8. WholeJobs'
    BY <1>4, <2>6, <2>7 DEF WholeJobs, Busy
  <2>. QED BY <1>1, <2>1, <2>5, <2>8 DEF WholeInv, LedgerInv, Applied
<1>. QED BY <1>1, <1>13, <1>14 DEF QuietInv

\* A job whose segments are finished deletes its row.
LEMMA QuietDone ==
    ASSUME IInv, QuietInv, NEW w \in Workers, JobDone(w)
    PROVE  QuietInv'
<1>. USE DEF sinkVars
<1>. DEFINE i == jobs[w].id
<1>1. /\ jobs[w].pc = "reclaiming" /\ jobs[w].todo = {} /\ up
      /\ comp' = [comp EXCEPT ![i] = "none"]
      /\ manifests' = [manifests EXCEPT ![i] = "none"]
      /\ reserved' = reserved \ {i}
      /\ jobs' = [jobs EXCEPT ![w] = NoJob]
      /\ index' = ReleaseRefs(Unfence(index, i), manifests', i)
      /\ UNCHANGED <<row, done, up, unregistered, redo, hydrate, requests, ledger,
                     delivered, torn>>
  BY DEF JobDone
<1>2. /\ Busy(w) /\ i \in Ids /\ Known(i) /\ JobOK(w)
      /\ \A v \in Workers : Busy(v) /\ v # w => jobs[v].id # i /\ jobs[v].id \cap i = {}
  BY <1>1, BusyFacts DEF QuietInv, Busy
<1>3. \A s \in i : Over(s)
  BY <1>1, <1>2 DEF JobOK
<1>4. manifests[i] = "none"
  BY <1>1, <1>2 DEF JobOK
<1>5. manifests' = manifests /\ comp'[i] = "none" /\ \A j \in Ids : j # i => comp'[j] = comp[j]
  BY <1>1, <1>2, <1>4 DEF IInv, TypeOK
<1>6. ~Busy(w)' /\ \A v \in Workers : v # w => jobs'[v] = jobs[v]
  BY <1>1 DEF IInv, TypeOK, Busy, NoJob
<1>7. \A s \in Slices : index'[s] = index[s]
  <2>1. ASSUME NEW s \in Slices, s \in i PROVE index[s] # "reserved"
    <3>. SUFFICES ASSUME index[s] = "reserved" PROVE FALSE
      OBVIOUS
    <3>1. PICK v \in Workers : jobs[v].pc \notin {"idle", "reclaiming"} /\ s \in jobs[v].id
      BY DEF QuietInv, PlannerInv, ReservedInv
    <3>. QED BY <1>1, <1>2, <2>1, <3>1 DEF Busy
  <2>2. \A s \in Slices : Unfence(index, i)[s] = index[s]
    BY <1>4 DEF Unfence
  <2>. QED BY <1>1, <2>1, <2>2 DEF ReleaseRefs
<1>. HIDE DEF i
<1>8. Settles /\ Steady
  BY <1>1, Untouched
<1>9. \A s \in Slices : /\ Registered(s)' <=> Registered(s)
                        /\ Over(s)' <=> Over(s)
                        /\ SliceIsDone(s)' <=> SliceIsDone(s)
  BY <1>1 DEF Registered, Committed, Over, SliceIsDone
<1>10. KnownInv'
  <2>1. \A j \in Ids : j # i => (Known(j)' => Known(j))
    BY <1>1, <1>5, <1>6 DEF Known, Claimed, Called, Busy
  <2>2. \A j \in Ids : Known(j)' => Known(j)
    BY <1>2, <2>1
  <2>3. \A s \in Slices : ~Registered(s)' => index'[s] = "absent"
    BY <1>7, <1>9 DEF QuietInv, PlannerInv, KnownInv
  <2>. QED BY <1>7, <1>9, <2>2, <2>3, KnownFrame DEF QuietInv
<1>11. JobsInv'
  <2>1. ASSUME NEW v \in Workers, v # w, Busy(v) PROVE Kept(jobs[v].id)
    <3>1. jobs[v].id # i /\ \A s \in jobs[v].id : s \in Slices
      BY <1>2, <2>1, BusyFacts, IdsFacts DEF QuietInv
    <3>. QED BY <1>1, <1>5, <1>7, <3>1 DEF Kept
  <2>. QED BY <1>6, <1>8, <2>1, JobsFrame DEF QuietInv
<1>12. RowsInv'
  BY <1>1, <1>5 DEF QuietInv, PlannerInv, RowsInv
<1>13. ReservedInv'
  BY <1>1, <1>6, <1>7 DEF QuietInv, PlannerInv, ReservedInv
<1>14. FoundInv'
  <2>. SUFFICES ASSUME NEW s \in Slices PROVE Found(s)'
    BY DEF FoundInv
  <2>1. Found(s)
    BY <1>1 DEF QuietInv, PlannerInv, FoundInv
  <2>. QED BY <1>1, <1>3, <1>5, <1>7, <1>9, <2>1 DEF Found, Over
<1>15. PlannerInv'
  BY <1>1, <1>10, <1>11, <1>12, <1>13, <1>14 DEF QuietInv, PlannerInv, DownInv
<1>16. ASSUME ~torn PROVE WholeInv'
  <2>1. WholeInv
    BY <1>16 DEF QuietInv
  <2>2. \A j \in Ids : (AllOver(j)' <=> AllOver(j)) /\ (Undone(j)' <=> Undone(j))
    BY <1>1 DEF AllOver, Undone, Over, Committed, SliceIsDone
  <2>3. AllOver(i)
    BY <1>3 DEF AllOver
  <2>4. WholeRows'
    BY <1>1, <1>4, <1>5, <2>1, <2>2, <2>3 DEF WholeInv, WholeRows, WholeRow, Called
  <2>5. ASSUME NEW v \in Workers, v # w, Busy(v) PROVE WholeJob(v)'
    <3>1. jobs[v].id \in Ids /\ jobs[v].id # i /\ WholeJob(v)
      BY <1>2, <2>1, <2>5, BusyFacts DEF QuietInv, WholeInv, WholeJobs
    <3>. QED BY <1>1, <1>5, <1>6, <2>2, <2>5, <3>1 DEF WholeJob, Called
  <2>6. WholeJobs'
    BY <1>6, <2>5 DEF WholeJobs, Busy
  <2>. QED BY <1>1, <2>1, <2>4, <2>6 DEF WholeInv, LedgerInv, Applied
<1>. QED BY <1>1, <1>15, <1>16 DEF QuietInv

\* A redo batch: without a torn acknowledgement it takes acknowledged rows
\* only, and none of a running job.
LEMMA QuietFlush ==
    ASSUME IInv, QuietInv, up, NEW I \in SUBSET Ids, Flush(I),
           redo' \in {redo, {}},
           ~torn => /\ \A i \in I : comp[i] = "acked"
                    /\ \A w \in Workers : Busy(w) => jobs[w].id \notin I,
           UNCHANGED <<up, unregistered, manifests, reserved, jobs, hydrate, requests,
                       ledger, delivered, torn>>
    PROVE  QuietInv'
<1>1. UNION I \in SUBSET Slices
  BY IdsFacts
<1>2. Finishes(UNION I)
  BY <1>1, SetDoneExact DEF Flush, Finishes
<1>3. \A i \in Ids : comp'[i] = IF i \in I THEN "none" ELSE comp[i]
  BY DEF Flush
<1>4. \A i \in Ids : Known(i)' => Known(i)
  BY <1>3 DEF Known, Claimed, Called, Busy
<1>5. /\ Settles /\ KnownInv'
      /\ \A w \in Workers : Busy(w) => Kept(jobs[w].id)
  BY <1>2, <1>4, FinishesFacts
<1>6. JobsInv'
  BY <1>5, JobsFrame DEF QuietInv
<1>7. RowsInv'
  BY <1>3 DEF QuietInv, PlannerInv, RowsInv
<1>8. ReservedInv'
  <2>1. \A s \in Slices : index'[s] = "reserved" => index[s] = "reserved"
    BY <1>2 DEF Finishes
  <2>. QED BY <2>1 DEF QuietInv, PlannerInv, ReservedInv
<1>9. FoundInv'
  <2>. SUFFICES ASSUME NEW s \in Slices PROVE Found(s)'
    BY DEF FoundInv
  <2>1. Found(s)
    BY DEF QuietInv, PlannerInv, FoundInv
  <2>2. CASE s \in UNION I
    BY <1>2, <2>2 DEF Finishes, Found
  <2>3. CASE s \notin UNION I
    BY <1>2, <1>3, <2>1, <2>3 DEF Finishes, Found
  <2>. QED BY <2>2, <2>3
<1>10. PlannerInv'
  BY <1>5, <1>6, <1>7, <1>8, <1>9 DEF QuietInv, PlannerInv, DownInv
<1>11. ASSUME ~torn PROVE WholeInv'
  <2>1. WholeInv
    BY <1>11 DEF QuietInv
  <2>2. \A j \in Ids : AllOver(j) => AllOver(j)'
    BY <1>5, IdsFacts DEF AllOver, Settles
  <2>3. \A i \in I : Known(i)
    BY <1>11 DEF Known
  <2>4. \A i \in I : AllOver(i)'
    <3>1. \A i \in I : \A s \in i : s \in Slices /\ Committed(s)
      BY <2>3, KnownFacts DEF QuietInv
    <3>. QED BY <1>2, <3>1 DEF AllOver, Over, Finishes
  <2>5. ASSUME NEW j \in Ids, j \notin I, Known(j), Undone(j) PROVE Undone(j)'
    <3>1. \A i \in I : j \cap i = {}
      BY <2>3, <2>5 DEF QuietInv, PlannerInv, KnownInv
    <3>. QED BY <1>2, <2>5, <3>1, IdsFacts DEF Undone, Finishes
  <2>6. WholeRows'
    <3>. SUFFICES ASSUME NEW j \in Ids PROVE WholeRow(j)'
      BY DEF WholeRows
    <3>1. WholeRow(j) /\ (Called(j)' <=> Called(j))
      BY <2>1 DEF WholeInv, WholeRows, Called
    <3>2. comp[j] \in {"pending", "sent"} => j \notin I /\ Known(j)
      BY <1>11 DEF Known, Claimed
    <3>3. j \in redo' => j \in redo
      OBVIOUS
    <3>. QED BY <1>3, <2>2, <2>4, <2>5, <3>1, <3>2, <3>3 DEF WholeRow
  <2>7. WholeJobs'
    <3>. SUFFICES ASSUME NEW v \in Workers, Busy(v) PROVE WholeJob(v)'
      BY DEF WholeJobs, Busy
    <3>1. /\ jobs[v].id \in Ids /\ Known(jobs[v].id) /\ jobs[v].id \notin I
          /\ WholeJob(v)
      BY <1>11, <2>1, BusyFacts DEF QuietInv, WholeInv, WholeJobs
    <3>. QED BY <1>3, <2>5, <3>1 DEF WholeJob, Called
  <2>. QED BY <2>1, <2>6, <2>7 DEF WholeInv, LedgerInv, Applied
<1>. QED BY <1>10, <1>11 DEF QuietInv

\* A step that changes nothing of planner, jobs, rows and sink.
LEMMA QuietIdle ==
    ASSUME IInv, QuietInv, redo' \in {redo, {}},
           UNCHANGED <<row, done, comp, up, unregistered, index, manifests, reserved,
                       jobs, hydrate, requests, ledger, delivered, torn>>
    PROVE  QuietInv'
<1>1. \A s \in Slices : /\ Registered(s)' <=> Registered(s)
                        /\ Over(s)' <=> Over(s)
                        /\ SliceIsDone(s)' <=> SliceIsDone(s)
  BY DEF Registered, Committed, Over, SliceIsDone
<1>2. \A i \in Ids : (Known(i)' <=> Known(i)) /\ (Called(i)' <=> Called(i))
  BY DEF Known, Claimed, Called, Busy
<1>3. KnownInv'
  BY <1>1, <1>2, KnownFrame DEF QuietInv, PlannerInv, KnownInv
<1>4. JobsInv'
  BY Untouched, JobsFrame DEF QuietInv, Kept
<1>5. FoundInv' /\ RowsInv' /\ ReservedInv' /\ DownInv'
  BY <1>1 DEF QuietInv, PlannerInv, FoundInv, Found, RowsInv, ReservedInv, DownInv
<1>6. ASSUME ~torn PROVE WholeInv'
  <2>1. WholeInv
    BY <1>6 DEF QuietInv
  <2>2. \A j \in Ids : (AllOver(j)' <=> AllOver(j)) /\ (Undone(j)' <=> Undone(j))
    BY DEF AllOver, Undone, Over, Committed, SliceIsDone
  <2>3. WholeRows'
    BY <1>2, <2>1, <2>2 DEF WholeInv, WholeRows, WholeRow
  <2>4. WholeJobs'
    <3>1. \A v \in Workers : Busy(v) => jobs[v].id \in Ids
      BY BusyFacts DEF QuietInv
    <3>. QED BY <1>2, <2>1, <2>2, <3>1 DEF WholeInv, WholeJobs, WholeJob, Busy
  <2>. QED BY <2>1, <2>3, <2>4 DEF WholeInv, LedgerInv, Applied
<1>. QED BY <1>3, <1>4, <1>5, <1>6 DEF QuietInv, PlannerInv

\* Without a torn acknowledgement the redo finds acknowledged rows only.
LEMMA RedoneAreAcked ==
    ASSUME IInv, QuietInv, ~torn, NEW i \in Ids, comp[i] # "none",
           \A s \in i : SliceIsDone(s)
    PROVE  comp[i] = "acked"
<1>1. i # {}
  BY DEF Ids
<1>2. comp[i] \notin {"pending", "sent"}
  BY <1>1 DEF QuietInv, WholeInv, WholeRows, WholeRow, Undone
<1>. QED BY <1>2 DEF IInv, TypeOK

\* The redo at the start of a cycle, and the one in the background.
LEMMA QuietRedo ==
    ASSUME IInv, QuietInv, NewCycle \/ BackgroundRedo
    PROVE  QuietInv'
<1>. USE DEF durableVars, plannerVars, sinkVars
<1>1. CASE NewCycle
  <2>1. CASE Flush(AckedIds)
    <3>1. AckedIds \in SUBSET Ids
      BY DEF AckedIds
    <3>2. ~torn => \A i \in AckedIds : comp[i] = "acked"
      BY RedoneAreAcked DEF AckedIds
    <3>3. \A w \in Workers : ~Busy(w)
      BY <1>1 DEF NewCycle, Busy, NoJob
    <3>. QED BY <1>1, <2>1, <3>1, <3>2, <3>3, QuietFlush DEF NewCycle
  <2>2. CASE UNCHANGED <<row, done, comp, cache, index>>
    BY <1>1, <2>2, QuietIdle DEF NewCycle
  <2>. QED BY <1>1, <2>1, <2>2 DEF NewCycle
<1>2. CASE BackgroundRedo
  <2>. DEFINE I == {i \in redo : comp[i] # "none"}
  <2>1. CASE Flush(I)
    <3>1. I \in SUBSET Ids
      BY DEF IInv, TypeOK
    <3>2. ASSUME ~torn, NEW i \in I PROVE comp[i] = "acked"
      <4>1. \A s \in i : SliceIsDone(s)
        BY <3>1, <3>2 DEF QuietInv, WholeInv, WholeRows, WholeRow, AllOver, Over
      <4>. QED BY <3>1, <3>2, <4>1, RedoneAreAcked
    <3>3. ~torn => \A w \in Workers : Busy(w) => jobs[w].id \notin I
      BY DEF QuietInv, WholeInv, WholeJobs, WholeJob
    <3>. HIDE DEF I
    <3>. QED BY <1>2, <2>1, <3>1, <3>2, <3>3, QuietFlush DEF BackgroundRedo
  <2>2. CASE UNCHANGED <<row, done, comp, cache, index>>
    BY <1>2, <2>2, QuietIdle DEF BackgroundRedo
  <2>. QED BY <1>2, <2>1, <2>2 DEF BackgroundRedo
<1>. QED BY <1>1, <1>2

\* A crash forgets everything but rows, bits and sink; it is torn when an
\* Acked row has slices left.
LEMMA QuietCrash ==
    ASSUME IInv, QuietInv, Crash
    PROVE  QuietInv'
<1>. USE DEF durableVars, plannerVars, sinkVars
<1>1. /\ up' = FALSE /\ unregistered' = {} /\ redo' = {} /\ hydrate' = NoHydrate
      /\ index' = [s \in Slices |-> "absent"]
      /\ manifests' = [i \in Ids |-> "none"]
      /\ jobs' = [w \in Workers |-> NoJob]
      /\ UNCHANGED <<row, done, comp, requests, ledger, delivered>>
  BY DEF Crash
<1>2. ~torn' => ~torn /\ \A i \in Ids : comp[i] = "acked" => Remaining(i) = {}
  BY DEF Crash
<1>3. \A w \in Workers : ~Busy(w)'
  BY <1>1 DEF Busy, NoJob
<1>4. \A i \in Ids : (Known(i)' => Known(i)) /\ (Called(i)' <=> Called(i))
  BY <1>1, <1>2, <1>3 DEF Known, Claimed, Called
<1>5. KnownInv'
  <2>1. \A s \in Slices : Registered(s) => Registered(s)'
    BY <1>1 DEF Registered, Committed
  <2>. QED BY <1>1, <1>4, <2>1, KnownFrame DEF QuietInv
<1>6. DownInv' /\ JobsInv' /\ RowsInv' /\ ReservedInv' /\ FoundInv'
  BY <1>1, <1>3 DEF DownInv, JobsInv, RowsInv, ReservedInv, FoundInv
<1>7. ASSUME ~torn' PROVE WholeInv'
  <2>1. ~torn /\ WholeInv
    BY <1>2, <1>7 DEF QuietInv
  <2>2. \A j \in Ids : (AllOver(j)' <=> AllOver(j)) /\ (Undone(j)' <=> Undone(j))
    BY <1>1 DEF AllOver, Undone, Over, Committed, SliceIsDone
  <2>3. \A j \in Ids : comp[j] = "acked" => AllOver(j)
    BY <1>2, <1>7 DEF Remaining, AllOver, Over, IInv, CommittedInv
  <2>4. WholeRows'
    BY <1>1, <1>4, <2>1, <2>2, <2>3 DEF WholeInv, WholeRows, WholeRow
  <2>5. WholeJobs'
    BY <1>3 DEF WholeJobs
  <2>. QED BY <1>1, <2>1, <2>4, <2>5 DEF WholeInv, LedgerInv, Applied
<1>. QED BY <1>1, <1>5, <1>6, <1>7 DEF QuietInv, PlannerInv

\* A restart builds the planner from rows and bits: what is neither done nor
\* behind a row is available, and without a torn acknowledgement was never
\* sent.
LEMMA QuietStartup ==
    ASSUME IInv, QuietInv, Startup
    PROVE  QuietInv'
<1>. USE DEF durableVars, plannerVars, sinkVars
<1>1. /\ ~up /\ up' /\ manifests' = Records(HydratedRows) /\ redo' = AckedIds
      /\ UNCHANGED <<row, done, comp, unregistered, reserved, jobs, hydrate, requests,
                     ledger, delivered, torn>>
  BY DEF Startup
<1>2. unregistered = {} /\ \A w \in Workers : ~Busy(w) /\ ~Busy(w)'
  BY <1>1 DEF QuietInv, PlannerInv, DownInv, Busy, NoJob
<1>3. \A i \in Ids : manifests'[i] =
            IF comp[i] \in {"pending", "sent"} THEN "pending" ELSE "none"
  BY <1>1 DEF Records, HydratedRows
<1>4. \A s \in Slices :
        index'[s] = IF SliceIsDone(s) THEN "absent"
                    ELSE IF IsFenced(manifests', s) THEN "fenced" ELSE "available"
  BY DEF Startup
<1>5. \A i \in Ids : (Known(i)' => Known(i)) /\ (Called(i)' <=> Called(i))
  BY <1>1, <1>2, <1>3 DEF Known, Claimed, Called
<1>6. \A s \in Slices : /\ Registered(s)' <=> Registered(s)
                        /\ Over(s)' <=> Over(s)
                        /\ SliceIsDone(s)' <=> SliceIsDone(s)
                        /\ Registered(s) <=> Committed(s)
                        /\ ~Committed(s) => SliceIsDone(s)
  BY <1>1, <1>2 DEF Registered, Committed, Over, SliceIsDone
<1>7. KnownInv'
  <2>1. ASSUME NEW s \in Slices, index'[s] = "available", NEW i \in Ids, s \in i,
               Known(i)'
        PROVE  FALSE
    <3>1. ~SliceIsDone(s) /\ ~IsFenced(manifests', s)
      BY <1>4, <2>1
    <3>2. comp[i] \notin {"pending", "sent"}
      BY <1>3, <2>1, <3>1 DEF IsFenced
    <3>3. ~torn /\ (comp[i] = "acked" \/ Called(i))
      BY <1>1, <1>2, <1>3, <1>5, <2>1, <3>2 DEF Known, Claimed
    <3>4. AllOver(i)
      BY <1>1, <3>2, <3>3 DEF QuietInv, WholeInv, WholeRows, WholeRow, IInv, TypeOK
    <3>. QED BY <2>1, <3>1, <3>4 DEF AllOver, Over
  <2>2. \A s \in Slices : ~Registered(s)' => index'[s] = "absent"
    BY <1>4, <1>6
  <2>. QED BY <1>5, <1>6, <2>1, <2>2, KnownFrame DEF QuietInv
<1>8. JobsInv' /\ DownInv'
  BY <1>1, <1>2 DEF JobsInv, DownInv
<1>9. RowsInv'
  BY <1>1, <1>3 DEF RowsInv
<1>10. ReservedInv'
  BY <1>4 DEF ReservedInv
<1>11. FoundInv'
  BY <1>4, <1>6 DEF FoundInv, Found
<1>12. PlannerInv'
  BY <1>1, <1>7, <1>8, <1>9, <1>10, <1>11 DEF QuietInv, PlannerInv
<1>13. ASSUME ~torn PROVE WholeInv'
  <2>1. WholeInv
    BY <1>13 DEF QuietInv
  <2>2. \A j \in Ids : (AllOver(j)' <=> AllOver(j)) /\ (Undone(j)' <=> Undone(j))
    BY <1>1 DEF AllOver, Undone, Over, Committed, SliceIsDone
  <2>3. \A j \in AckedIds : AllOver(j)
    <3>1. \A j \in AckedIds : j \in Ids /\ comp[j] = "acked"
      BY <1>13, RedoneAreAcked DEF AckedIds
    <3>. QED BY <1>1, <2>1, <3>1 DEF WholeInv, WholeRows, WholeRow
  <2>4. WholeRows'
    BY <1>1, <1>3, <1>5, <2>1, <2>2, <2>3 DEF WholeInv, WholeRows, WholeRow
  <2>5. WholeJobs'
    BY <1>2 DEF WholeJobs
  <2>. QED BY <1>1, <2>1, <2>4, <2>5 DEF WholeInv, LedgerInv, Applied
<1>. QED BY <1>1, <1>12, <1>13 DEF QuietInv

-----------------------------------------------------------------------------
(* The theorem.                                                            *)

\* As long as there was no hydrate, every step keeps the invariant.
LEMMA QuietStep ==
    IInv /\ (hydrates = 0 => QuietInv) /\ [Next]_vars => (hydrates = 0 => QuietInv)'
<1>. SUFFICES ASSUME IInv, hydrates = 0 => QuietInv, [Next]_vars, hydrates' = 0
              PROVE  QuietInv'
  OBVIOUS
<1>. USE DEF durableVars, plannerVars, sinkVars, bounds
<1>1. IInv'
  BY SafetyStep
<1>2. CASE HydrateBegin
  BY <1>2 DEF HydrateBegin, IInv, TypeOK
<1>3. CASE ~HydrateBegin
  <2>1. hydrates = 0
    <3>1. CASE UNCHANGED vars
      BY <3>1 DEF vars
    <3>2. CASE Next
      BY <1>3, <3>2
      DEF Next, PlanStep, JobStep, HydrateStep, CommitSegment, SegmentCacheRegister,
          PlanManifest, SkipManifest, PlanGroup, JobStart, JobRefused, JobSend, SinkOk,
          JobAck, CompleteSlicesAndReclaim, JobDone, JobFails, SinkLands, NewCycle,
          BackgroundRedo, Crash, Startup, HydrateCheck, HydrateRegister, HydrateRows,
          HydrateInstall
    <3>. QED BY <3>1, <3>2
  <2>2. QuietInv
    BY <2>1
  <2>3. ~HydrateStep
    BY <2>2 DEF QuietInv, PlannerInv, NoHydrate, HydrateStep, HydrateCheck,
                HydrateRegister, HydrateRows, HydrateInstall
  <2>4. CASE UNCHANGED vars
    BY <2>2, <2>4, QuietIdle DEF vars
  <2>5. ASSUME NEW g \in Segments, CommitSegment(g) \/ SegmentCacheRegister(g)
        PROVE  QuietInv'
    BY <1>1, <2>2, <2>5, QuietCommit, QuietRegister
  <2>6. ASSUME NEW w \in Workers, PlanStep(w) PROVE QuietInv'
    BY <1>1, <2>2, <2>6, QuietPlanManifest, QuietPlanGroup DEF PlanStep
  <2>7. ASSUME NEW i \in Ids, SkipManifest(i) PROVE QuietInv'
    BY <1>1, <2>2, <2>7, QuietSkipManifest
  <2>8. ASSUME NEW w \in Workers, JobStep(w) PROVE QuietInv'
    BY <2>2, <2>8, QuietStart, QuietFails, QuietSend, QuietOk, QuietAck,
       QuietComplete, QuietDone DEF JobStep
  <2>9. ASSUME NEW q \in requests, SinkLands(q) PROVE QuietInv'
    BY <2>2, <2>9, QuietLands
  <2>10. CASE NewCycle \/ BackgroundRedo
    BY <2>2, <2>10, QuietRedo
  <2>11. CASE Crash \/ Startup
    BY <2>2, <2>11, QuietCrash, QuietStartup
  <2>. QED BY <1>3, <2>3, <2>4, <2>5, <2>6, <2>7, <2>8, <2>9, <2>10, <2>11 DEF Next
<1>. QED BY <1>2, <1>3

\* Before the first commit there is nothing to find and nothing to apply.
LEMMA QuietInit == Init => QuietInv
<1>. SUFFICES ASSUME Init PROVE QuietInv
  OBVIOUS
<1>1. \A w \in Workers : ~Busy(w)
  BY DEF Init, Busy, NoJob
<1>2. \A i \in Ids : ~Known(i) /\ ~Called(i)
  BY <1>1 DEF Init, Known, Claimed, Called
<1>3. KnownInv
  BY <1>2 DEF KnownInv, Init
<1>4. DownInv /\ JobsInv /\ RowsInv /\ ReservedInv
  BY <1>1 DEF Init, DownInv, JobsInv, RowsInv, ReservedInv
<1>5. FoundInv
  BY ShapeAssumption DEF Init, FoundInv, Found, SliceIsDone
<1>6. WholeRows
  BY <1>2 DEF Init, WholeRows, WholeRow
<1>7. WholeJobs /\ LedgerInv
  BY <1>1 DEF Init, WholeJobs, LedgerInv, Applied
<1>. QED BY <1>3, <1>4, <1>5, <1>6, <1>7 DEF Init, QuietInv, PlannerInv, WholeInv

\* The invariant as it is used: with the one of CompactionSafety.
LEMMA QuietAlways == Spec => [](IInv /\ (hydrates = 0 => QuietInv))
<1>1. Init => IInv /\ (hydrates = 0 => QuietInv)
  BY InitEstablishes, QuietInit
<1>2. IInv /\ (hydrates = 0 => QuietInv) /\ [Next]_vars
        => (IInv /\ (hydrates = 0 => QuietInv))'
  BY SafetyStep, QuietStep
<1>. QED BY <1>1, <1>2, PTL DEF Spec

\* Unless a crash finds an Acked row without its done bits or the pressure
\* thread refreshes the planner, no slice is applied twice and no job reads a
\* dropped segment, whatever jobs, redo passes and sink calls fail, time out,
\* land late or are cut off by a crash.
THEOREM CompactionOnce == Spec => [](WrittenOnceUndisturbed /\ ReadsLivePayload)
<1>1. ASSUME IInv, hydrates = 0 => QuietInv
      PROVE  WrittenOnceUndisturbed /\ ReadsLivePayload
  <2>1. WrittenOnceUndisturbed
    BY <1>1 DEF WrittenOnceUndisturbed, Undisturbed, QuietInv, WholeInv, LedgerInv
  <2>2. ASSUME Undisturbed, NEW w \in Workers, jobs[w].pc \in {"planned", "building"}
        PROVE  PayloadPresent(jobs[w].entries)
    <3>1. WholeJob(w)
      BY <1>1, <2>2 DEF Undisturbed, QuietInv, WholeInv, WholeJobs, Busy
    <3>. QED BY <2>2, <3>1 DEF WholeJob, Undone, SliceIsDone, PayloadPresent
  <2>. QED BY <2>1, <2>2 DEF ReadsLivePayload
<1>. QED BY <1>1, QuietAlways, PTL

\* Until the pressure thread refreshes the planner, no slice is forgotten:
\* after failed jobs, failed redo passes, crashes and torn acknowledgements a
\* slice that is not done is still where planner, job or redo will find it.
THEOREM PlannerForgetsNothing == Spec => [](hydrates = 0 => NothingForgotten)
<1>1. ASSUME hydrates = 0 => QuietInv, hydrates = 0 PROVE NothingForgotten
  <2>. SUFFICES ASSUME up, NEW s \in Slices
                PROVE  \/ SliceIsDone(s)
                       \/ SegmentOf[s] \in unregistered
                       \/ index[s] = "available"
                       \/ \E w \in Workers : jobs[w].pc # "idle" /\ s \in jobs[w].id
                       \/ index[s] = "fenced" /\ IsFenced(manifests, s)
                       \/ \E i \in Ids : s \in i /\ comp[i] = "acked"
    BY DEF NothingForgotten
  <2>1. Found(s)
    BY <1>1 DEF QuietInv, PlannerInv, FoundInv
  <2>2. index[s] = "reserved" =>
            \E w \in Workers : jobs[w].pc # "idle" /\ s \in jobs[w].id
    BY <1>1 DEF QuietInv, PlannerInv, ReservedInv
  <2>. QED BY <2>1, <2>2 DEF Found
<1>. QED BY <1>1, QuietAlways, PTL
=============================================================================
