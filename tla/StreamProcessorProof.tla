------------------------ MODULE StreamProcessorProof ------------------------
(***************************************************************************)
(* For any number of aggregates, segments, slices, crashes and             *)
(* configuration changes, and any order of the segment ids, no slice is    *)
(* counted twice in an aggregate; a cursor passes a segment of the catalog *)
(* that is not counted only if it was committed behind a running listing   *)
(* or the aggregate was emptied by a torn rebuild; and the reclaim hold is *)
(* never ahead of every cursor.                                            *)
(***************************************************************************)
EXTENDS StreamProcessor, FiniteSetTheorems, WellFoundedInduction, TLAPS

\* What an aggregate counts lies at or behind its cursor.
CountedIsPassed ==
    \A a \in Aggs, s \in Segments, k \in SliceNos :
        applied[a][s][k] > 0 =>
            \/ s < cursor[a].seq
            \/ s = cursor[a].seq /\ k <= cursor[a].count

\* Between the two commits of rebuild the state is empty.
RebuildIsClean ==
    proc.pc = "rebuild" =>
        proc.agg \in Aggs /\ applied[proc.agg] = NothingApplied

\* The task applies only segments its cursor has not left behind.
AtSegment ==
    /\ proc.pc \in {"visit", "apply", "finish", "reclaim"} => proc.agg \in Aggs
    /\ proc.pc \in {"apply", "finish", "reclaim"} =>
            proc.seg \in Segments /\ cursor[proc.agg].seq <= proc.seg

IInv == TypeOK /\ AppliedOnce /\ CountedIsPassed /\ RebuildIsClean /\ AtSegment

\* The initial state of the processor satisfies the invariant.
LEMMA InitEstablishes == Init => IInv
<1> SUFFICES ASSUME Init PROVE IInv
  OBVIOUS
<1> USE SizesAssumption, ConfigAssumption
<1> USE DEF Init, Segments, Aggs, SliceNos, NoHold, NoJob, FreshCursor,
            NothingApplied, At, Down, JobType, CursorType, ProcType
<1>1. TypeOK
  BY DEF TypeOK
<1>2. AppliedOnce /\ CountedIsPassed
  BY DEF AppliedOnce, CountedIsPassed
<1>3. RebuildIsClean /\ AtSegment
  BY DEF RebuildIsClean, AtSegment
<1> QED BY <1>1, <1>2, <1>3 DEF IInv

\* A step that leaves the stream state and the task alone keeps everything
\* but the types.
LEMMA OthersPreserve ==
    ASSUME IInv, UNCHANGED <<cursor, applied, proc>>, TypeOK'
    PROVE  IInv'
  BY DEF IInv, AppliedOnce, CountedIsPassed, RebuildIsClean, AtSegment

\* Counting one more slice changes one entry of the stream state.
LEMMA CountOne ==
    ASSUME NEW A, NEW S, NEW K, NEW f \in [A -> [S -> [K -> 0..2]]],
           NEW a \in A, NEW s \in S, NEW k \in K, f[a][s][k] = 0,
           NEW g, g = [f EXCEPT ![a][s][k] = @ + 1]
    PROVE  /\ g \in [A -> [S -> [K -> 0..2]]]
           /\ \A b \in A, t \in S, j \in K :
                g[b][t][j] = IF b = a /\ t = s /\ j = k
                             THEN 1 ELSE f[b][t][j]
<1>1. f[a] \in [S -> [K -> 0..2]] /\ f[a][s] \in [K -> 0..2]
  OBVIOUS
<1> DEFINE h == [f[a][s] EXCEPT ![k] = 1]
           e == [f[a] EXCEPT ![s] = h]
<1>2. g = [f EXCEPT ![a] = e]
  OBVIOUS
<1>3. h \in [K -> 0..2] /\ \A j \in K : h[j] = IF j = k THEN 1 ELSE f[a][s][j]
  BY <1>1
<1> HIDE DEF h
<1>4. e \in [S -> [K -> 0..2]] /\ \A t \in S : e[t] = IF t = s THEN h ELSE f[a][t]
  BY <1>1, <1>3
<1> HIDE DEF e
<1>5. g \in [A -> [S -> [K -> 0..2]]]
  BY <1>2, <1>4
<1>6. \A b \in A : g[b] = IF b = a THEN e ELSE f[b]
  BY <1>2
<1> QED BY <1>3, <1>4, <1>5, <1>6

\* apply_events counts the next slice of the segment, once, and moves the
\* cursor onto it.
LEMMA SliceApplied ==
    ASSUME IInv, ApplySlice
    PROVE  LET a == proc.agg
               s == proc.seg
               k == AppliedCount(a, s) + 1
           IN  /\ a \in Aggs /\ s \in Segments /\ k \in SliceNos
               /\ cursor[a].seq <= s
               /\ cursor[a].seq = s => k = cursor[a].count + 1
               /\ cursor[a].seq # s => k = 1
               /\ cursor[a].seq \in 0..NumSegments /\ cursor[a].count \in 0..NumSlices
               /\ cursor' = [cursor EXCEPT ![a] = [seq |-> s, count |-> k]]
               /\ applied' \in [Aggs -> [Segments -> [SliceNos -> 0..2]]]
               /\ \A b \in Aggs, t \in Segments, j \in SliceNos :
                    applied'[b][t][j] = IF b = a /\ t = s /\ j = k
                                        THEN 1 ELSE applied[b][t][j]
<1> USE DEF Segments, Aggs, SliceNos, NoHold
<1>n. /\ NumAggs \in Nat /\ NumAggs >= 1 /\ NumSegments \in Nat
      /\ NumSlices \in Nat /\ MaxCrashes \in Nat
  BY SizesAssumption
<1> USE <1>n
<1>t. TypeOK
  BY DEF IInv
<1> DEFINE a == proc.agg
           s == proc.seg
           k == AppliedCount(a, s) + 1
<1>1. /\ a \in Aggs /\ s \in Segments /\ k \in SliceNos
      /\ cursor[a].seq <= s
  BY DEF IInv, AtSegment, ApplySlice
<1>2. /\ applied' = [applied EXCEPT ![a][s][k] = @ + 1]
      /\ cursor' = [cursor EXCEPT ![a] = [seq |-> s, count |-> k]]
  BY DEF ApplySlice
<1>3. cursor[a].seq = s => k = cursor[a].count + 1
  BY DEF AppliedCount
<1>4. cursor[a].seq \in 0..NumSegments /\ cursor[a].count \in 0..NumSlices
  BY <1>t, <1>1 DEF TypeOK, CursorType
<1>5. applied[a][s][k] \in 0..2
  <2> HIDE DEF a, s, k
  <2> QED BY <1>t, <1>1 DEF TypeOK
<1>6. applied[a][s][k] = 0
  <2> HIDE DEF a, s, k
  <2> SUFFICES ASSUME applied[a][s][k] > 0 PROVE FALSE
    BY <1>5
  <2>1. \/ s < cursor[a].seq
        \/ s = cursor[a].seq /\ k <= cursor[a].count
    BY <1>1 DEF IInv, CountedIsPassed
  <2> QED BY <2>1, <1>1, <1>3, <1>4
<1>7. /\ applied' \in [Aggs -> [Segments -> [SliceNos -> 0..2]]]
      /\ \A b \in Aggs, t \in Segments, j \in SliceNos :
          applied'[b][t][j] = IF b = a /\ t = s /\ j = k
                              THEN 1 ELSE applied[b][t][j]
  <2> HIDE DEF a, s, k, Aggs, Segments, SliceNos
  <2>1. applied \in [Aggs -> [Segments -> [SliceNos -> 0..2]]]
    BY <1>t DEF TypeOK
  <2> QED BY ONLY <1>1, <1>2, <1>6, <2>1, CountOne
<1>8. cursor[a].seq # s => k = 1
  BY DEF AppliedCount
<1> QED BY <1>1, <1>2, <1>3, <1>4, <1>7, <1>8

\* Every step of ingest, compactor, processor or crash keeps the invariant.
LEMMA NextPreserves == ASSUME IInv, [Next]_vars PROVE IInv'
<1> USE DEF Segments, Aggs, SliceNos, NoHold
<1>n. /\ NumAggs \in Nat /\ NumAggs >= 1 /\ NumSegments \in Nat
      /\ NumSlices \in Nat /\ MaxCrashes \in Nat
  BY SizesAssumption
<1> USE <1>n
<1>t. TypeOK
  BY DEF IInv
<1>p. proc \in ProcType
  BY <1>t DEF TypeOK
<1>1. ASSUME NEW s \in Segments, CommitSegment(s) PROVE IInv'
  <2>0. behind' \subseteq Segments
    BY <1>t, <1>1 DEF TypeOK, CommitSegment
  <2>1. TypeOK'
    BY <1>t, <1>1, <2>0 DEF TypeOK, CommitSegment, storeVars
  <2> QED BY <2>1, <1>1, OthersPreserve DEF CommitSegment, storeVars
<1>2. ASSUME NEW s \in Segments, JobAcks(s) PROVE IInv'
  <2>1. job' \in JobType
    BY <1>2 DEF JobAcks, JobType
  <2>2. TypeOK'
    BY <1>t, <1>2, <2>1 DEF TypeOK, JobAcks, storeVars, historyVars
  <2> QED BY <2>2, <1>2, OthersPreserve DEF JobAcks, storeVars
<1>3. ASSUME NEW s \in Segments, Redo(s) PROVE IInv'
  <2>1. TypeOK'
    BY <1>t, <1>3 DEF TypeOK, Redo, storeVars, historyVars
  <2> QED BY <2>1, <1>3, OthersPreserve DEF Redo, storeVars
<1>4. CASE JobDecides
  <2>1. AllowsReclaim(job.seg) \in BOOLEAN
    BY DEF AllowsReclaim
  <2>2. job' \in JobType
    BY <1>t, <1>4, <2>1 DEF TypeOK, JobDecides, JobType
  <2>3. TypeOK'
    BY <1>t, <1>4, <2>2 DEF TypeOK, JobDecides, walVars, storeVars, historyVars
  <2> QED BY <2>3, <1>4, OthersPreserve DEF JobDecides, storeVars
<1>5. CASE JobCommits
  <2>1. job' \in JobType
    BY <1>t, <1>5 DEF TypeOK, JobCommits, JobType
  <2>2. row' \in [Segments -> {"none", "live", "done", "gone"}]
    BY <1>t, <1>5 DEF TypeOK, JobCommits
  <2>3. TypeOK'
    BY <1>t, <1>5, <2>1, <2>2 DEF TypeOK, JobCommits, storeVars, historyVars
  <2> QED BY <2>3, <1>5, OthersPreserve DEF JobCommits, storeVars
<1>6. CASE JobFinishes
  <2>1. job' \in JobType
    BY <1>6 DEF JobFinishes, NoJob, JobType
  <2>2. TypeOK'
    BY <1>t, <1>6, <2>1 DEF TypeOK, JobFinishes, storeVars, historyVars
  <2> QED BY <2>2, <1>6, OthersPreserve DEF JobFinishes, storeVars
<1>7. CASE JobFails
  <2>1. job' \in JobType
    BY <1>7 DEF JobFails, NoJob, JobType
  <2>2. TypeOK'
    BY <1>t, <1>7, <2>1 DEF TypeOK, JobFails, walVars, storeVars, historyVars
  <2> QED BY <2>2, <1>7, OthersPreserve DEF JobFails, storeVars
<1>8. CASE StartProcessorService
  <2>1. proc' \in ProcType
    BY <1>8 DEF StartProcessorService, Down, At, ProcType
  <2>2. TypeOK'
    BY <1>t, <1>8, <2>1 DEF TypeOK, StartProcessorService, walVars, storeVars, historyVars
  <2>3. proc'.pc = "open"
    BY <1>8 DEF StartProcessorService, Down, At
  <2> QED BY <2>2, <2>3, <1>8 DEF IInv, AppliedOnce, CountedIsPassed,
                RebuildIsClean, AtSegment, StartProcessorService, storeVars
<1>9. CASE EnsureConfig
  <2>1. proc' \in ProcType /\ proc'.pc = "open"
    BY <1>p, <1>9 DEF EnsureConfig, ProcType
  <2>2. hash' \in [Aggs -> Configs \cup {NoConfig}]
    BY <1>t, <1>9 DEF TypeOK, EnsureConfig
  <2>3. TypeOK'
    BY <1>t, <1>9, <2>1, <2>2 DEF TypeOK, EnsureConfig, walVars, historyVars
  <2> QED BY <2>1, <2>3, <1>9 DEF IInv, AppliedOnce, CountedIsPassed,
                RebuildIsClean, AtSegment, EnsureConfig
<1>10. CASE RebuildDeletes
  <2>1. proc' \in ProcType /\ proc'.pc = "rebuild" /\ proc'.agg = proc.agg
    BY <1>p, <1>10 DEF RebuildDeletes, ProcType
  <2>2. /\ proc.agg \in Aggs
        /\ applied'[proc.agg] = NothingApplied
        /\ \A a \in Aggs : a # proc.agg => applied'[a] = applied[a]
    BY <1>t, <1>10 DEF TypeOK, RebuildDeletes
  <2>3. \A s \in Segments, k \in SliceNos : applied'[proc.agg][s][k] = 0
    BY <2>2 DEF NothingApplied
  <2>4. NothingApplied \in [Segments -> [SliceNos -> 0..2]]
    BY DEF NothingApplied
  <2>5. applied' \in [Aggs -> [Segments -> [SliceNos -> 0..2]]]
    BY <1>t, <1>10, <2>4 DEF TypeOK, RebuildDeletes
  <2>6. TypeOK'
    BY <1>t, <1>10, <2>1, <2>5 DEF TypeOK, RebuildDeletes, walVars, historyVars
  <2>7. AppliedOnce' /\ CountedIsPassed'
    BY <2>2, <2>3, <1>10 DEF IInv, AppliedOnce, CountedIsPassed, RebuildDeletes
  <2> QED BY <2>1, <2>2, <2>6, <2>7 DEF IInv, RebuildIsClean, AtSegment
<1>11. CASE RebuildWritesMeta
  <2>1. proc.agg \in Aggs /\ applied[proc.agg] = NothingApplied
    BY <1>11 DEF IInv, RebuildIsClean, RebuildWritesMeta
  <2>2. proc' \in ProcType /\ proc'.pc = "open"
    <3>1. proc.agg + 1 \in 1..(NumAggs + 1)
      BY <2>1
    <3> QED BY <1>p, <1>11, <3>1 DEF RebuildWritesMeta, ProcType
  <2>3. FreshCursor \in CursorType
    BY DEF FreshCursor, CursorType
  <2>4. cursor' \in [Aggs -> CursorType]
    BY <1>t, <1>11, <2>3 DEF TypeOK, RebuildWritesMeta
  <2>5. hash' \in [Aggs -> Configs \cup {NoConfig}]
    BY <1>t, <1>11 DEF TypeOK, RebuildWritesMeta
  <2>6. TypeOK'
    BY <1>t, <1>11, <2>2, <2>4, <2>5
       DEF TypeOK, RebuildWritesMeta, walVars, historyVars
  <2>7. \A s \in Segments, k \in SliceNos : applied[proc.agg][s][k] = 0
    BY <2>1 DEF NothingApplied
  <2>8. \A a \in Aggs : a # proc.agg => cursor'[a] = cursor[a]
    BY <1>t, <1>11 DEF TypeOK, RebuildWritesMeta
  <2>9. AppliedOnce' /\ CountedIsPassed'
    BY <2>7, <2>8, <1>11 DEF IInv, AppliedOnce, CountedIsPassed,
                             RebuildWritesMeta
  <2> QED BY <2>2, <2>6, <2>9 DEF IInv, RebuildIsClean, AtSegment
<1>12. ASSUME NEW a \in Aggs, SetHold(a) PROVE IInv'
  <2>1. proc' \in ProcType /\ proc'.pc = "list"
    BY <1>12 DEF SetHold, Listing, At, ProcType
  <2>2. minSeq' \in 0..NoHold
    BY <1>t, <1>12 DEF TypeOK, SetHold, CursorType
  <2>3. TypeOK'
    BY <1>t, <1>12, <2>1, <2>2 DEF TypeOK, SetHold, walVars, storeVars,
                                   historyVars
  <2> QED BY <2>1, <2>3, <1>12 DEF IInv, AppliedOnce, CountedIsPassed,
                RebuildIsClean, AtSegment, SetHold, storeVars
<1>13. NextPage \subseteq Segments
  BY DEF NextPage, Present
<1>a. proc.rows \subseteq Segments /\ proc.rows \cup NextPage \subseteq Segments
  BY <1>p, <1>13 DEF ProcType
<1>14. ASSUME NEW s \in Segments, ListFullPage(s) PROVE IInv'
  <2>1. proc' \in ProcType
    <3>1. KeyRank[s] \in 0..NumSegments
      BY KeyAssumption
    <3> QED BY <1>a, <1>14, <3>1 DEF ListFullPage, At, ProcType
  <2>2. TypeOK'
    BY <1>t, <1>14, <2>1 DEF TypeOK, ListFullPage, walVars, storeVars, historyVars
  <2>3. proc'.pc = "list"
    BY <1>14 DEF ListFullPage, At
  <2> QED BY <2>2, <2>3, <1>14 DEF IInv, AppliedOnce, CountedIsPassed,
                RebuildIsClean, AtSegment, ListFullPage, storeVars
<1>15. CASE ListShortPage
  <2>1. proc' \in ProcType
    BY <1>a, <1>15 DEF ListShortPage, At, ProcType
  <2>2. TypeOK'
    BY <1>t, <1>15, <2>1 DEF TypeOK, ListShortPage, walVars, storeVars, historyVars
  <2>3. proc'.pc = "visit" /\ proc'.agg = 1
    BY <1>15 DEF ListShortPage, At
  <2> QED BY <2>2, <2>3, <1>15 DEF IInv, AppliedOnce, CountedIsPassed,
                RebuildIsClean, AtSegment, ListShortPage, storeVars
<1>16. ASSUME NEW s \in Segments, SkipSegment(s) PROVE IInv'
  <2>1. proc' \in ProcType
    BY <1>p, <1>16 DEF SkipSegment, ProcType
  <2>2. TypeOK'
    BY <1>t, <1>16, <2>1 DEF TypeOK, SkipSegment, walVars, storeVars, historyVars
  <2>3. proc'.pc = "visit" /\ proc'.agg = proc.agg
    BY <1>p, <1>16 DEF SkipSegment, ProcType
  <2> QED BY <2>2, <2>3, <1>16 DEF IInv, AppliedOnce, CountedIsPassed,
                RebuildIsClean, AtSegment, SkipSegment, storeVars
<1>17. ASSUME NEW s \in Segments, ReadSegment(s) PROVE IInv'
  <2>1. proc' \in ProcType
    <3>1. CASE s \in payload
      <4>1. proc' = [proc EXCEPT !.pc = "apply", !.seg = s]
        BY <1>17, <3>1 DEF ReadSegment
      <4>2. s \in 0..NumSegments
        OBVIOUS
      <4> QED BY <1>p, <4>1, <4>2 DEF ProcType
    <3>2. CASE s \notin payload
      BY <1>17, <3>2 DEF ReadSegment, Dead, At, ProcType
    <3> QED BY <3>1, <3>2
  <2>2. TypeOK'
    BY <1>t, <1>17, <2>1 DEF TypeOK, ReadSegment, walVars, storeVars, historyVars
  <2>3. \/ proc'.pc = "apply" /\ proc'.agg = proc.agg /\ proc'.seg = s
        \/ proc'.pc = "dead"
    BY <1>p, <1>17 DEF ReadSegment, Dead, At, ProcType
  <2> QED BY <2>2, <2>3, <1>17 DEF IInv, AppliedOnce, CountedIsPassed,
                RebuildIsClean, AtSegment, ReadSegment, storeVars
<1>18. CASE ApplySlice
  <2> DEFINE a == proc.agg
             s == proc.seg
             k == AppliedCount(a, s) + 1
  <2>1. /\ a \in Aggs /\ s \in Segments /\ k \in SliceNos
        /\ cursor[a].seq <= s
    BY <1>18, SliceApplied
  <2>2. cursor' = [cursor EXCEPT ![a] = [seq |-> s, count |-> k]]
    BY <1>18 DEF ApplySlice
  <2>3. cursor[a].seq = s => k = cursor[a].count + 1
    BY DEF AppliedCount
  <2>4. cursor[a].seq \in 0..NumSegments /\ cursor[a].count \in 0..NumSlices
    BY <1>t, <2>1 DEF TypeOK, CursorType
  <2>7. /\ applied' \in [Aggs -> [Segments -> [SliceNos -> 0..2]]]
        /\ \A b \in Aggs, t \in Segments, j \in SliceNos :
            applied'[b][t][j] = IF b = a /\ t = s /\ j = k
                                THEN 1 ELSE applied[b][t][j]
    BY <1>18, SliceApplied
  <2>8. proc' \in {proc, [proc EXCEPT !.pc = "finish"]}
    BY <1>18 DEF ApplySlice
  <2>9. TypeOK'
    <3>2. cursor' \in [Aggs -> CursorType]
      <4> HIDE DEF a, s, k
      <4> QED BY <1>t, <2>1, <2>2 DEF TypeOK, CursorType
    <3>3. minSeq' \in 0..NoHold
      BY <2>1, <1>18 DEF ApplySlice
    <3>4. proc' \in ProcType
      BY <1>p, <2>8 DEF ProcType
    <3> QED BY <1>t, <1>18, <2>7, <3>2, <3>3, <3>4
            DEF TypeOK, ApplySlice, walVars, historyVars
  <2>10. AppliedOnce'
    <3> HIDE DEF a, s, k, Aggs, Segments, SliceNos
    <3> QED BY <2>7 DEF IInv, AppliedOnce
  <2>11. CountedIsPassed'
    <3> HIDE DEF a, s, k
    <3> SUFFICES ASSUME NEW b \in Aggs, NEW t \in Segments,
                        NEW j \in SliceNos, applied'[b][t][j] > 0
                 PROVE  \/ t < cursor'[b].seq
                        \/ t = cursor'[b].seq /\ j <= cursor'[b].count
      BY DEF CountedIsPassed
    <3>1. CASE b # a
      <4>1. cursor'[b] = cursor[b] /\ applied'[b][t][j] = applied[b][t][j]
        BY <1>t, <2>2, <2>7, <3>1 DEF TypeOK
      <4> QED BY <4>1 DEF IInv, CountedIsPassed
    <3>2. CASE b = a
      <4>1. cursor'[b].seq = s /\ cursor'[b].count = k
        BY <1>t, <2>1, <2>2, <3>2 DEF TypeOK
      <4>2. CASE t = s /\ j = k
        BY <4>1, <4>2
      <4>3. CASE ~(t = s /\ j = k)
        <5>1. applied[b][t][j] > 0
          BY <2>7, <4>3
        <5>2. \/ t < cursor[b].seq
              \/ t = cursor[b].seq /\ j <= cursor[b].count
          BY <5>1 DEF IInv, CountedIsPassed
        <5> QED BY <5>2, <4>1, <2>1, <2>3, <2>4, <3>2
      <4> QED BY <4>2, <4>3
    <3> QED BY <3>1, <3>2
  <2>12. RebuildIsClean' /\ AtSegment'
    <3>1. cursor'[a].seq = s
      <4> HIDE DEF a, s, k
      <4> QED BY <1>t, <2>1, <2>2 DEF TypeOK
    <3>2. /\ proc'.pc \in {"apply", "finish"}
          /\ proc'.agg = a /\ proc'.seg = s
      BY <1>p, <1>18, <2>8 DEF ApplySlice, ProcType
    <3> QED BY <2>1, <3>1, <3>2 DEF RebuildIsClean, AtSegment
  <2> QED BY <2>9, <2>10, <2>11, <2>12 DEF IInv
<1>19. CASE NothingToApply
  <2>1. proc' \in ProcType
    BY <1>p, <1>19 DEF NothingToApply, ProcType
  <2>2. TypeOK'
    BY <1>t, <1>19, <2>1 DEF TypeOK, NothingToApply, walVars, storeVars, historyVars
  <2>3. proc'.pc = "visit" /\ proc'.agg = proc.agg
    BY <1>p, <1>19 DEF NothingToApply, ProcType
  <2> QED BY <2>2, <2>3, <1>19 DEF IInv, AppliedOnce, CountedIsPassed,
                RebuildIsClean, AtSegment, NothingToApply, storeVars
<1>20. CASE FinishSegment
  <2>1. proc' \in ProcType /\ proc'.pc = "reclaim" /\ proc'.agg = proc.agg
        /\ proc'.seg = proc.seg /\ proc.pc = "finish"
    BY <1>p, <1>20 DEF FinishSegment, ProcType
  <2>2. minSeq' \in 0..NoHold
    BY <1>20 DEF IInv, AtSegment, FinishSegment
  <2>3. TypeOK'
    BY <1>t, <1>20, <2>1, <2>2
       DEF TypeOK, FinishSegment, walVars, storeVars, historyVars
  <2> QED BY <2>1, <2>3, <1>20 DEF IInv, AppliedOnce, CountedIsPassed,
                RebuildIsClean, AtSegment, FinishSegment, storeVars
<1>21. CASE ReclaimFullyDone
  <2>1. proc' \in ProcType /\ proc'.pc = "visit" /\ proc'.agg = proc.agg
    BY <1>p, <1>21 DEF ReclaimFullyDone, ProcType
  <2>2. row' \in [Segments -> {"none", "live", "done", "gone"}]
    BY <1>t, <1>21 DEF TypeOK, ReclaimFullyDone
  <2>3. payload' \subseteq Segments
    BY <1>t, <1>21 DEF TypeOK, ReclaimFullyDone
  <2>4. TypeOK'
    BY <1>t, <1>21, <2>1, <2>2, <2>3
       DEF TypeOK, ReclaimFullyDone, storeVars, historyVars
  <2> QED BY <2>1, <2>4, <1>21 DEF IInv, AppliedOnce, CountedIsPassed,
                RebuildIsClean, AtSegment, ReclaimFullyDone, storeVars
<1>22. CASE NextAggregate
  <2>1. proc.agg \in Aggs
    BY <1>22 DEF IInv, AtSegment, NextAggregate
  <2>2. /\ proc' \in ProcType
        /\ \/ proc'.pc = "visit" /\ proc'.agg \in Aggs
           \/ proc'.pc = "list"
    BY <1>a, <2>1, <1>22 DEF NextAggregate, Listing, At, ProcType
  <2>3. TypeOK'
    BY <1>t, <2>2, <1>22 DEF TypeOK, NextAggregate, walVars, storeVars,
                             historyVars
  <2> QED BY <2>2, <2>3, <1>22 DEF IInv, AppliedOnce, CountedIsPassed,
                RebuildIsClean, AtSegment, NextAggregate, storeVars
<1>23. CASE TaskFails
  <2>1. proc' \in ProcType /\ proc'.pc = "dead"
    BY <1>23 DEF TaskFails, Dead, At, ProcType
  <2>2. TypeOK'
    BY <1>t, <1>23, <2>1 DEF TypeOK, TaskFails, walVars, storeVars, historyVars
  <2> QED BY <2>1, <2>2, <1>23 DEF IInv, AppliedOnce, CountedIsPassed,
                RebuildIsClean, AtSegment, TaskFails, storeVars
<1>24. CASE Crash
  <2>1. proc' \in ProcType /\ proc'.pc = "down"
    BY <1>24 DEF Crash, Down, At, ProcType
  <2>2. job' \in JobType
    BY <1>24 DEF Crash, NoJob, JobType
  <2>3. config' \in Configs
    BY <1>t, <1>24, ConfigAssumption DEF TypeOK, Crash
  <2>4. payload' \subseteq Segments /\ minSeq' \in 0..NoHold
    <3>1. payload \subseteq Segments
      BY <1>t DEF TypeOK
    <3>2. payload' = payload \cap Present /\ minSeq' = NoHold
      BY <1>24 DEF Crash
    <3>3. payload' \subseteq payload
      BY <3>2
    <3>4. NumSegments + 2 \in 0..(NumSegments + 2)
      OBVIOUS
    <3>5. payload' \subseteq Segments
      BY <3>1, <3>3
    <3> QED BY <3>2, <3>4, <3>5
  <2>5. TypeOK'
    BY <1>t, <1>24, <2>1, <2>2, <2>3, <2>4
       DEF TypeOK, Crash, storeVars, historyVars
  <2> QED BY <2>1, <2>5, <1>24 DEF IInv, AppliedOnce, CountedIsPassed,
                RebuildIsClean, AtSegment, Crash, storeVars
<1>25. CASE UNCHANGED vars
  <2>1. TypeOK'
    BY <1>t, <1>25 DEF TypeOK, vars
  <2> QED BY <2>1, <1>25, OthersPreserve DEF vars
<1> QED BY <1>1, <1>2, <1>3, <1>4, <1>5, <1>6, <1>7, <1>8, <1>9, <1>10, <1>11,
           <1>12, <1>14, <1>15, <1>16, <1>17, <1>18, <1>19, <1>20, <1>21,
           <1>22, <1>23, <1>24, <1>25 DEF Next, Compactor, Processor

\* The processor is type correct, and no slice is counted twice in an
\* aggregate, for every number of aggregates, segments, slices, crashes and
\* configuration changes (apply_events, rebuild, process_segment).
THEOREM ProcessorSafety == Spec => [](TypeOK /\ AppliedOnce)
<1>1. Init => IInv
  BY InitEstablishes
<1>2. IInv /\ [Next]_vars => IInv'
  BY NextPreserves
<1>3. IInv => TypeOK /\ AppliedOnce
  BY DEF IInv
<1> QED BY <1>1, <1>2, <1>3, PTL DEF Spec

-----------------------------------------------------------------------------
(* State and cursor agree.                                                 *)

Committed(s) == row[s] # "none"

\* Segments are committed in seq order; a job works on a live row.
WalInv ==
    /\ \A s, t \in Segments : t < s /\ Committed(s) => Committed(t)
    /\ \A s \in acked : Committed(s)
    /\ job.pc \in {"acked", "decided"} =>
            job.seg \in Segments /\ row[job.seg] = "live"

\* The segments a listing must not miss.
Owed == Present \ behind

\* What the cursor of an aggregate has passed is counted.
Matches(a) == \A s \in Owed, k \in SliceNos : Passed(a, s, k) => applied[a][s][k] > 0

\* A cursor is in a committed segment, and state and cursor agree.
StoreInv ==
    /\ \A a \in Aggs : cursor[a].seq # 0 => Committed(cursor[a].seq)
    /\ \A a \in Aggs \ emptied : Matches(a)

Walking == {"visit", "apply", "finish", "reclaim"}

\* A listing holds every segment up to the last key it has read, and once it
\* is complete, a segment that is not listed was committed after all that are.
ListedInv ==
    /\ \A s \in proc.rows : Committed(s)
    /\ proc.pc = "list" => \A s \in Owed : KeyRank[s] <= proc.after => s \in proc.rows
    /\ proc.pc \in Walking => \A t \in Owed \ proc.rows : \A s \in proc.rows : s < t
    /\ proc.pc \in {"apply", "finish", "reclaim"} => proc.seg \in proc.rows

\* What the task has visited for the current aggregate is counted.
VisitedInv ==
    proc.pc \in Walking /\ proc.agg \notin emptied =>
        \A t \in proc.rows \cap Owed :
            t < proc.seg \/ (t = proc.seg /\ proc.pc # "apply")
                => Consumed(proc.agg, t)

CursorInv == WalInv /\ StoreInv /\ ListedInv /\ VisitedInv

\* The hold is at the cursor of some aggregate or before it, or just past a
\* segment that cursor has finished.
HoldInv ==
    /\ minSeq # NoHold =>
        \E a \in Aggs :
            \/ minSeq <= cursor[a].seq
            \/ minSeq = cursor[a].seq + 1 /\ cursor[a].count = NumSlices
    /\ proc.pc = "finish" =>
            cursor[proc.agg].seq = proc.seg /\ cursor[proc.agg].count = NumSlices

\* The constants are numbers.
LEMMA Sizes ==
    /\ NumAggs \in Nat /\ NumAggs >= 1 /\ NumSegments \in Nat
    /\ NumSlices \in Nat /\ NumSlices >= 1 /\ Page \in Nat
    /\ MaxCrashes \in Nat
BY SizesAssumption

\* Rows are only added at the end and never come back, and a row that is added
\* behind a running listing is remembered.
LEMMA RowStep ==
    ASSUME IInv, WalInv, [Next]_vars
    PROVE  /\ WalInv'
           /\ \A s \in Segments : Committed(s) => Committed(s)'
           /\ behind \subseteq behind'
           /\ \A s \in Present' :
                \/ s \in Present
                \/ /\ ~Committed(s)
                   /\ proc.pc = "list" /\ KeyRank[s] <= proc.after => s \in behind'
<1>. USE Sizes DEF Committed, Present
<1>t. TypeOK
  BY DEF IInv
<1>1. ASSUME NEW s \in Segments, CommitSegment(s)
      PROVE  /\ WalInv'
             /\ \A t \in Segments : Committed(t) => Committed(t)'
             /\ behind \subseteq behind'
             /\ \A t \in Present' :
                \/ t \in Present
                \/ /\ ~Committed(t)
                   /\ proc.pc = "list" /\ KeyRank[t] <= proc.after => t \in behind'
  <2>1. /\ row'[s] = "live" /\ row[s] = "none"
        /\ \A t \in Segments : t # s => row'[t] = row[t]
        /\ \A t \in 1..(s - 1) : row[t] # "none"
        /\ UNCHANGED <<acked, job>>
    BY <1>t, <1>1 DEF CommitSegment, TypeOK
  <2>2. acked \subseteq Segments
    BY <1>t DEF TypeOK
  <2>3. ASSUME NEW p \in Segments, NEW q \in Segments, q < p, row'[p] # "none"
        PROVE  row'[q] # "none"
    <3>1. CASE p = s
      BY <2>1, <2>3, <3>1 DEF Segments
    <3>2. CASE p # s
      BY <2>1, <2>3, <3>2 DEF WalInv
    <3>. QED BY <3>1, <3>2
  <2>4. WalInv'
    BY <2>1, <2>2, <2>3 DEF WalInv
  <2>5. /\ behind \subseteq behind'
        /\ proc.pc = "list" /\ KeyRank[s] <= proc.after => s \in behind'
    BY <1>1 DEF CommitSegment
  <2>. QED BY <2>1, <2>4, <2>5
\* The other steps add no row.
<1>u. ASSUME behind' = behind, WalInv',
             \A t \in Segments : /\ row[t] # "none" => row'[t] # "none"
                                 /\ row'[t] \in {"live", "done"} =>
                                        row[t] \in {"live", "done"}
      PROVE  /\ WalInv'
             /\ \A t \in Segments : Committed(t) => Committed(t)'
             /\ behind \subseteq behind'
             /\ \A t \in Present' : t \in Present
  BY <1>u
<1>2. ASSUME NEW s \in Segments, JobAcks(s) \/ Redo(s)
      PROVE  /\ WalInv' /\ behind' = behind
             /\ \A t \in Segments : /\ row[t] # "none" => row'[t] # "none"
                                    /\ row'[t] \in {"live", "done"} =>
                                        row[t] \in {"live", "done"}
  <2>1. CASE JobAcks(s)
    BY <1>t, <2>1 DEF JobAcks, WalInv, TypeOK, historyVars
  <2>2. CASE Redo(s)
    <3>1. /\ row'[s] = "gone" /\ row[s] # "none" /\ acked' \subseteq acked
          /\ \A t \in Segments : t # s => row'[t] = row[t]
          /\ job' = job /\ job.seg # s /\ behind' = behind
      BY <1>t, <2>2 DEF Redo, TypeOK, WalInv, historyVars
    <3>2. acked \subseteq Segments
      BY <1>t DEF TypeOK
    <3>. QED BY <3>1, <3>2 DEF WalInv
  <2>. QED BY <1>2, <2>1, <2>2
<1>3. CASE JobCommits
  <2>1. /\ job.seg \in Segments /\ row[job.seg] = "live"
        /\ row'[job.seg] \in {"gone", "done"} /\ acked' = acked
        /\ \A t \in Segments : t # job.seg => row'[t] = row[t]
        /\ behind' = behind
    BY <1>t, <1>3 DEF JobCommits, TypeOK, WalInv, historyVars
  <2>2. acked \subseteq Segments /\ job'.pc = "committed"
    BY <1>t, <1>3 DEF TypeOK, JobCommits, JobType
  <2>3. WalInv'
    BY <2>1, <2>2 DEF WalInv
  <2>. QED BY <1>u, <2>1, <2>3
<1>4. CASE JobDecides \/ JobFinishes \/ JobFails
  <2>1. row' = row /\ acked' \subseteq acked /\ behind' = behind
    BY <1>4 DEF JobDecides, JobFinishes, JobFails, walVars, historyVars
  <2>2. job'.pc \in {"acked", "decided"} =>
            job.pc \in {"acked", "decided"} /\ job'.seg = job.seg
    <3>1. CASE JobDecides
      <4>. DEFINE allowed == AllowsReclaim(job.seg)
      <4>1. job' = [job EXCEPT !.pc = "decided", !.reclaim = allowed]
        BY <3>1 DEF JobDecides
      <4>. HIDE DEF allowed
      <4>. QED BY <1>t, <3>1, <4>1 DEF JobDecides, TypeOK, JobType
    <3>2. CASE JobFinishes \/ JobFails
      BY <3>2 DEF JobFinishes, JobFails, NoJob
    <3>. QED BY <1>4, <3>1, <3>2
  <2>3. WalInv'
    BY <2>1, <2>2 DEF WalInv
  <2>. QED BY <1>u, <2>1, <2>3
<1>5. CASE ReclaimFullyDone
  <2>1. /\ \A t \in Segments : row'[t] = row[t]
                            \/ (row[t] = "done" /\ row'[t] = "gone")
        /\ UNCHANGED <<acked, job, behind>>
    BY <1>5 DEF ReclaimFullyDone, historyVars
  <2>2. acked \subseteq Segments
    BY <1>t DEF TypeOK
  <2>3. WalInv'
    BY <2>1, <2>2 DEF WalInv
  <2>. QED BY <1>u, <2>1, <2>3
<1>6. CASE Crash
  <2>1. UNCHANGED <<row, acked, behind>> /\ job'.pc = "idle"
    BY <1>6 DEF Crash, NoJob, historyVars
  <2>2. WalInv'
    BY <2>1 DEF WalInv
  <2>. QED BY <1>u, <2>1, <2>2
<1>7. CASE UNCHANGED <<row, acked, job, behind>>
  <2>1. WalInv'
    BY <1>7 DEF WalInv
  <2>. QED BY <1>u, <1>7, <2>1
<1>8. CASE Processor
  BY <1>5, <1>7, <1>8 DEF Processor, StartProcessorService, EnsureConfig,
     RebuildDeletes, RebuildWritesMeta, SetHold, ListShortPage, ListFullPage,
     SkipSegment, ReadSegment, ApplySlice, NothingToApply, FinishSegment,
     NextAggregate, walVars, historyVars
<1>9. CASE \E s \in Segments : JobAcks(s) \/ Redo(s)
  BY <1>u, <1>2, <1>9
<1>10. CASE TaskFails
  BY <1>7, <1>10 DEF TaskFails, walVars, historyVars
<1>. QED BY <1>1, <1>3, <1>4, <1>6, <1>7, <1>8, <1>9, <1>10 DEF Next, Compactor, vars

\* A cursor lies before every segment that is not committed.
LEMMA CursorBeforeNew ==
    ASSUME IInv, WalInv, NEW a \in Aggs, NEW s \in Segments, ~Committed(s),
           cursor[a].seq # 0 => Committed(cursor[a].seq)
    PROVE  cursor[a].seq < s
<1>1. cursor[a].seq \in 0..NumSegments
  BY DEF IInv, TypeOK, CursorType
<1>2. cursor[a].seq # s
  BY <1>1, Sizes DEF Segments
<1>3. ~(s < cursor[a].seq)
  <2>. SUFFICES ASSUME s < cursor[a].seq PROVE FALSE
    OBVIOUS
  <2>1. cursor[a].seq \in Segments /\ cursor[a].seq # 0
    BY <1>1, Sizes DEF Segments
  <2>. QED BY <2>1 DEF WalInv
<1>. QED BY <1>1, <1>2, <1>3, Sizes DEF Segments

\* An aggregate the step leaves alone still agrees: new rows are ahead of it.
LEMMA MatchesStays ==
    ASSUME IInv, WalInv, [Next]_vars, NEW a \in Aggs,
           cursor[a].seq # 0 => Committed(cursor[a].seq), Matches(a),
           cursor'[a] = cursor[a], applied'[a] = applied[a]
    PROVE  Matches(a)'
<1>. SUFFICES ASSUME NEW s \in Present', s \notin behind', NEW k \in SliceNos, Passed(a, s, k)
              PROVE  applied[a][s][k] > 0
  BY DEF Matches, Owed, Passed
<1>1. s \in Segments /\ s \notin behind
  BY RowStep DEF Present
<1>2. CASE s \in Present
  BY <1>1, <1>2 DEF Matches, Owed
<1>3. CASE s \notin Present
  <2>1. ~Committed(s)
    BY <1>3, RowStep
  <2>2. cursor[a].seq < s
    BY <1>1, <2>1, CursorBeforeNew
  <2>3. cursor[a].seq \in 0..NumSegments
    BY DEF IInv, TypeOK, CursorType
  <2>4. ~(s < cursor[a].seq) /\ s # cursor[a].seq
    BY <1>1, <2>2, <2>3, Sizes DEF Segments
  <2>. QED BY <2>4 DEF Passed
<1>. QED BY <1>2, <1>3

\* Every step keeps the store: state and cursor of an aggregate agree.
LEMMA StoreStep ==
    ASSUME IInv, CursorInv, [Next]_vars
    PROVE  StoreInv'
<1>. USE Sizes
<1>t. TypeOK /\ WalInv /\ StoreInv
  BY DEF IInv, CursorInv
<1>r. \A s \in Segments : Committed(s) => Committed(s)'
  BY <1>t, RowStep
<1>c. \A a \in Aggs : cursor[a] \in CursorType /\ (cursor[a].seq # 0 => cursor[a].seq \in Segments)
  BY <1>t DEF TypeOK, CursorType, Segments
\* An aggregate whose entries the step leaves alone.
<1>1. ASSUME NEW a \in Aggs, cursor'[a] = cursor[a]
      PROVE  /\ cursor'[a].seq # 0 => Committed(cursor[a].seq)'
             /\ applied'[a] = applied[a] /\ a \notin emptied => Matches(a)'
  <2>1. cursor'[a].seq # 0 => Committed(cursor[a].seq)'
    BY <1>1, <1>t, <1>r, <1>c DEF StoreInv
  <2>2. ASSUME applied'[a] = applied[a], a \notin emptied
        PROVE  Matches(a)'
    BY <1>1, <1>t, <2>2, MatchesStays DEF StoreInv
  <2>. QED BY <2>1, <2>2
<1>2. CASE UNCHANGED <<cursor, applied, emptied>>
  BY <1>1, <1>2 DEF StoreInv, Committed
<1>3. CASE RebuildDeletes
  <2>1. /\ \A b \in Aggs : b # proc.agg => applied'[b] = applied[b]
        /\ cursor' = cursor /\ emptied' = emptied \cup {proc.agg}
    BY <1>t, <1>3 DEF RebuildDeletes, TypeOK
  <2>. QED BY <1>1, <2>1 DEF StoreInv, Committed
<1>4. CASE RebuildWritesMeta
  <2>0. PICK a \in Aggs : a = proc.agg
    BY <1>4 DEF RebuildWritesMeta, RebuildIsClean, IInv
  <2>1. /\ cursor'[a] = FreshCursor /\ applied' = applied
        /\ \A b \in Aggs : b # a => cursor'[b] = cursor[b]
        /\ emptied' = emptied \ {a}
    BY <1>t, <1>4, <2>0 DEF RebuildWritesMeta, TypeOK
  <2>2. cursor'[a].seq = 0 /\ cursor'[a].count = 0
    BY <2>1 DEF FreshCursor
  <2>3. Matches(a)'
    BY <2>2 DEF Matches, Owed, Passed, Present, Segments, SliceNos
  <2>. QED BY <1>1, <2>1, <2>2, <2>3 DEF StoreInv, Committed
<1>5. CASE ApplySlice
  <2>0. PICK a \in Aggs, s \in Segments, k \in SliceNos :
            a = proc.agg /\ s = proc.seg /\ k = AppliedCount(a, s) + 1
    BY <1>5, SliceApplied
  <2>1. /\ cursor[a].seq <= s
        /\ cursor[a].seq = s => k = cursor[a].count + 1
        /\ cursor[a].seq # s => k = 1
        /\ cursor[a].seq \in 0..NumSegments /\ cursor[a].count \in 0..NumSlices
        /\ \A b \in Aggs, t \in Segments, j \in SliceNos :
                applied'[b][t][j] = IF b = a /\ t = s /\ j = k
                                    THEN 1 ELSE applied[b][t][j]
    BY <1>5, <2>0, SliceApplied
  <2>2. /\ cursor' = [cursor EXCEPT ![a] = [seq |-> s, count |-> k]]
        /\ UNCHANGED <<row, behind, emptied>> /\ proc.pc = "apply"
        /\ applied' = [applied EXCEPT ![a][s][k] = @ + 1]
    BY <1>5, <2>0 DEF ApplySlice, walVars, historyVars
  <2>3. s \in proc.rows /\ Committed(s)
    BY <2>0, <2>2 DEF CursorInv, ListedInv
  <2>4. cursor'[a].seq = s /\ cursor'[a].count = k
        /\ \A b \in Aggs : b # a => cursor'[b] = cursor[b]
    BY <1>t, <2>1, <2>2 DEF TypeOK
  <2>5. \A b \in Aggs : b # a => applied'[b] = applied[b]
    BY <1>t, <2>2 DEF TypeOK
  <2>6. ASSUME a \notin emptied, NEW t \in Owed, NEW j \in SliceNos,
               t < s \/ (t = s /\ j <= k)
        PROVE  applied'[a][t][j] > 0
    <3>1. t \in Segments /\ applied[a][t][j] \in 0..2
      BY <1>t DEF TypeOK, Owed, Present
    <3>2. Passed(a, t, j) => applied[a][t][j] > 0
      BY <1>t, <2>6 DEF StoreInv, Matches
    <3>3. applied[a][t][j] > 0 => applied'[a][t][j] > 0
      BY <2>1, <3>1
    <3>4. CASE t < s
      <4>1. t \in proc.rows
        BY <2>2, <2>3, <3>1, <3>4 DEF CursorInv, ListedInv, Segments, Walking
      <4>2. t < proc.seg
        BY <2>0, <3>4
      <4>3. Consumed(a, t)
        BY <2>0, <2>2, <2>6, <4>1, <4>2 DEF CursorInv, VisitedInv, Walking
      <4>. QED BY <3>3, <4>3 DEF Consumed
    <3>5. CASE t = s /\ j = k
      BY <2>1, <3>1, <3>5
    <3>6. CASE t = s /\ j < k
      <4>1. cursor[a].seq = s /\ j <= cursor[a].count
        BY <2>1, <3>6 DEF SliceNos
      <4>. QED BY <3>2, <3>3, <3>6, <4>1 DEF Passed
    <3>. QED BY <2>6, <3>4, <3>5, <3>6 DEF SliceNos
  <2>7. a \notin emptied => Matches(a)'
    BY <2>2, <2>4, <2>6 DEF Matches, Owed, Passed, Present
  <2>8. Committed(s)'
    BY <2>2, <2>3 DEF Committed
  <2>. QED BY <1>1, <2>2, <2>4, <2>5, <2>7, <2>8 DEF StoreInv, Committed
<1>6. CASE Processor
  BY <1>2, <1>3, <1>4, <1>5, <1>6 DEF Processor, StartProcessorService,
     EnsureConfig, SetHold, ListShortPage, ListFullPage, SkipSegment, ReadSegment,
     NothingToApply, FinishSegment, ReclaimFullyDone, NextAggregate, storeVars,
     historyVars
<1>7. CASE Compactor
  BY <1>2, <1>7 DEF Compactor, JobAcks, Redo, JobDecides, JobCommits, JobFinishes,
     JobFails, storeVars, historyVars
<1>. QED BY <1>2, <1>6, <1>7
         DEF Next, CommitSegment, TaskFails, Crash, storeVars, historyVars, vars

\* A set of numbers has a least one.
LEMMA LeastNumber ==
    ASSUME NEW T, T \subseteq Nat, T # {}
    PROVE  \E n \in T : \A m \in T : n <= m
<1>. DEFINE R == {p \in Nat \X Nat : p[1] < p[2]}
<1>1. IsWellFoundedOn(R, Nat)
  BY NatLessThanWellFounded, Zenon DEF OpToRel
<1>2. \A m, n \in T : m < n => <<m, n>> \in R
  OBVIOUS
<1>. HIDE DEF R
<1>3. PICK n \in T : \A m \in T : <<m, n>> \notin R
  BY <1>1, WFMin
<1>4. \A m \in T : ~(m < n)
  BY <1>2, <1>3
<1>. QED BY <1>4

\* A page holds every row up to its last key, and a short one all that are left.
LEMMA PageHolds ==
    ASSUME proc \in ProcType, NEW s \in Present, KeyRank[s] > proc.after
    PROVE  /\ \A last \in NextPage : KeyRank[s] <= KeyRank[last] => s \in NextPage
           /\ Cardinality(NextPage) < Page => s \in NextPage
<1>. DEFINE beyond == {t \in Present : KeyRank[t] > proc.after}
            below(t) == {u \in beyond : KeyRank[u] < KeyRank[t]}
<1>1. NextPage = {t \in beyond : Cardinality(below(t)) < Page}
  BY DEF NextPage
<1>2. \A T \in SUBSET Segments : IsFiniteSet(T) /\ Cardinality(T) \in Nat
  <2>1. IsFiniteSet(Segments)
    BY Sizes, FS_Interval DEF Segments
  <2>. QED BY <2>1, FS_Subset, FS_CardinalityType
<1>3. /\ beyond \in SUBSET Segments /\ NextPage \in SUBSET Segments
      /\ \A t \in Segments : below(t) \in SUBSET Segments
  BY <1>1 DEF Present
<1>4. \A t \in Segments : KeyRank[t] \in Nat
  BY KeyAssumption DEF Segments
<1>5. s \in beyond /\ s \in Segments
  BY DEF Present
<1>. HIDE DEF beyond
<1>6. ASSUME NEW last \in NextPage, KeyRank[s] <= KeyRank[last]
      PROVE  s \in NextPage
  <2>1. last \in Segments /\ Cardinality(below(last)) < Page
    BY <1>1, <1>3
  <2>2. below(s) \in SUBSET below(last)
    BY <1>3, <1>4, <1>5, <1>6, <2>1
  <2>3. Cardinality(below(s)) <= Cardinality(below(last))
    BY <1>2, <1>3, <2>1, <2>2, FS_Subset
  <2>4. Cardinality(below(s)) \in Nat /\ Cardinality(below(last)) \in Nat
    BY <1>2, <1>3, <1>5, <2>1
  <2>5. Cardinality(below(s)) < Page
    BY <2>1, <2>3, <2>4, Sizes
  <2>. QED BY <1>1, <1>5, <2>5
<1>7. ASSUME Cardinality(NextPage) < Page, s \notin NextPage
      PROVE  FALSE
  <2>. DEFINE left == beyond \ NextPage
              ranks == {KeyRank[t] : t \in left}
  <2>1. left \in SUBSET Segments /\ s \in left
    BY <1>3, <1>5, <1>7
  <2>2. ranks \subseteq Nat /\ ranks # {}
    BY <1>4, <2>1
  <2>. HIDE DEF ranks
  <2>3. PICK n \in ranks : \A m \in ranks : n <= m
    BY <2>2, LeastNumber
  <2>4. PICK t \in left : n = KeyRank[t]
    BY <2>3 DEF ranks
  <2>5. \A u \in left : KeyRank[t] <= KeyRank[u]
    BY <2>3, <2>4 DEF ranks
  <2>6. t \in Segments
    BY <2>1, <2>4
  <2>7. below(t) \in SUBSET NextPage
    <3>. SUFFICES ASSUME NEW u \in beyond, KeyRank[u] < KeyRank[t], u \notin NextPage
                  PROVE  FALSE
      OBVIOUS
    <3>1. u \in Segments /\ KeyRank[t] <= KeyRank[u]
      BY <1>3, <2>5
    <3>. QED BY <1>4, <2>6, <3>1
  <2>8. Cardinality(below(t)) <= Cardinality(NextPage)
    BY <1>2, <1>3, <2>7, FS_Subset
  <2>9. Cardinality(below(t)) \in Nat /\ Cardinality(NextPage) \in Nat
    BY <1>2, <1>3, <2>6
  <2>10. Cardinality(below(t)) < Page
    BY <1>7, <2>8, <2>9, Sizes
  <2>. QED BY <1>1, <2>4, <2>10
<1>. QED BY <1>6, <1>7

\* Every step keeps the listing complete up to where it is.
LEMMA ListedStep ==
    ASSUME IInv, WalInv, ListedInv, [Next]_vars
    PROVE  ListedInv'
<1>. USE Sizes
<1>t. TypeOK /\ proc \in ProcType /\ proc.rows \subseteq Segments
  BY DEF IInv, TypeOK, ProcType
<1>r. /\ \A s \in Segments : Committed(s) => Committed(s)'
      /\ \A s \in Owed' :
            /\ s \in Segments
            /\ \/ s \in Owed
               \/ /\ ~Committed(s)
                  /\ ~(proc.pc = "list" /\ KeyRank[s] <= proc.after)
  BY RowStep DEF Owed, Present
<1>k. \A s \in Segments : KeyRank[s] \in Nat \ {0}
  BY KeyAssumption DEF Segments
<1>c. \A s \in proc.rows : Committed(s) /\ Committed(s)'
  BY <1>t, <1>r DEF ListedInv
\* The same listing, still being walked.
<1>1. ASSUME proc'.rows = proc.rows, proc.pc \in Walking, proc'.pc \in Walking,
             proc'.pc # "visit" => proc'.seg \in proc.rows
      PROVE  ListedInv'
  <2>1. ASSUME NEW t \in Owed', t \notin proc.rows, NEW s \in proc.rows
        PROVE  s < t
    <3>1. t \in Segments /\ s \in Segments
      BY <1>t, <1>r
    <3>2. CASE t \in Owed
      BY <1>1, <2>1, <3>2 DEF ListedInv
    <3>3. CASE ~Committed(t)
      <4>1. Committed(s) /\ s # t
        BY <1>c, <2>1
      <4>2. ~(t < s)
        BY <3>1, <3>3, <4>1 DEF WalInv
      <4>. QED BY <3>1, <4>1, <4>2 DEF Segments
    <3>. QED BY <1>r, <3>2, <3>3
  <2>. QED BY <1>1, <1>c, <2>1 DEF ListedInv, Walking, Committed
\* No listing, or a new one.
<1>2. ASSUME proc'.rows \subseteq proc.rows, proc'.pc \notin Walking,
             proc'.pc = "list" => proc'.after = 0
      PROVE  ListedInv'
  <2>1. proc'.pc = "list" => \A s \in Owed' : ~(KeyRank[s] <= proc'.after)
    BY <1>2, <1>r, <1>k
  <2>. QED BY <1>2, <1>c, <2>1 DEF ListedInv, Walking, Committed
<1>3. CASE proc' = proc
  <2>1. CASE proc.pc \in Walking
    BY <1>1, <1>3, <2>1 DEF ListedInv, Walking
  <2>2. CASE proc.pc = "list"
    <3>1. \A s \in Owed' : KeyRank[s] <= proc.after => s \in proc.rows
      BY <1>r, <2>2 DEF ListedInv
    <3>. QED BY <1>3, <1>c, <2>2, <3>1 DEF ListedInv, Walking, Committed
  <2>. QED BY <1>2, <1>3, <2>1, <2>2
<1>p. NextPage \subseteq Present /\ \A s \in Present : s \in Segments /\ Committed(s)
  BY DEF NextPage, Present, Committed
<1>4. CASE ListShortPage
  <2>1. /\ proc'.rows = proc.rows \cup NextPage /\ proc'.pc = "visit"
        /\ UNCHANGED <<row, behind>> /\ proc.pc = "list"
        /\ Cardinality(NextPage) < Page
    BY <1>4 DEF ListShortPage, At, walVars, historyVars
  <2>2. Owed' = Owed /\ \A s \in proc'.rows : Committed(s)'
    BY <1>c, <1>p, <2>1 DEF Owed, Present, Committed
  <2>3. ASSUME NEW s \in Owed
        PROVE  s \in proc'.rows
    <3>1. s \in Present /\ KeyRank[s] \in Nat /\ proc.after \in Nat
      BY <1>t, <1>k, <1>p DEF Owed, ProcType
    <3>2. CASE KeyRank[s] <= proc.after
      BY <2>1, <2>3, <3>2 DEF ListedInv
    <3>3. CASE KeyRank[s] > proc.after
      BY <1>t, <2>1, <3>1, <3>3, PageHolds
    <3>. QED BY <3>1, <3>2, <3>3
  <2>. QED BY <2>1, <2>2, <2>3 DEF ListedInv, Committed
<1>5. ASSUME NEW last \in Segments, ListFullPage(last)
      PROVE  ListedInv'
  <2>1. /\ proc'.rows = proc.rows \cup NextPage /\ proc'.pc = "list"
        /\ proc'.after = KeyRank[last] /\ last \in NextPage
        /\ UNCHANGED <<row, behind>> /\ proc.pc = "list"
    BY <1>5 DEF ListFullPage, At, walVars, historyVars
  <2>2. Owed' = Owed /\ \A s \in proc'.rows : Committed(s)'
    BY <1>c, <1>p, <2>1 DEF Owed, Present, Committed
  <2>3. ASSUME NEW s \in Owed, KeyRank[s] <= KeyRank[last]
        PROVE  s \in proc'.rows
    <3>1. s \in Present /\ KeyRank[s] \in Nat /\ proc.after \in Nat
      BY <1>t, <1>k, <1>p DEF Owed, ProcType
    <3>2. CASE KeyRank[s] <= proc.after
      BY <2>1, <2>3, <3>2 DEF ListedInv
    <3>3. CASE KeyRank[s] > proc.after
      BY <1>t, <2>1, <2>3, <3>1, <3>3, PageHolds
    <3>. QED BY <3>1, <3>2, <3>3
  <2>. QED BY <2>1, <2>2, <2>3 DEF ListedInv, Walking, Committed
<1>6. CASE StartProcessorService \/ EnsureConfig \/ RebuildDeletes
              \/ RebuildWritesMeta \/ TaskFails \/ Crash
  <2>1. proc'.rows \subseteq proc.rows /\ proc'.pc \in {"open", "rebuild", "down", "dead"}
    <3>1. CASE StartProcessorService \/ TaskFails \/ Crash
      BY <3>1 DEF StartProcessorService, TaskFails, Crash, Down, Dead, At
    <3>2. CASE EnsureConfig \/ RebuildDeletes \/ RebuildWritesMeta
      BY <1>t, <3>2 DEF EnsureConfig, RebuildDeletes, RebuildWritesMeta, ProcType
    <3>. QED BY <1>6, <3>1, <3>2
  <2>. QED BY <1>2, <2>1 DEF Walking
<1>7. CASE (\E a \in Aggs : SetHold(a)) \/ NextAggregate
  <2>1. CASE proc' = Listing
    BY <1>2, <2>1 DEF Listing, At, Walking
  <2>2. CASE proc.pc = "visit" /\ proc' = At("visit", proc.rows, 0, proc.agg + 1, 0)
    BY <1>1, <2>2 DEF At, Walking
  <2>. QED BY <1>7, <2>1, <2>2 DEF SetHold, NextAggregate
<1>8. ASSUME NEW s \in Segments, SkipSegment(s) \/ ReadSegment(s)
      PROVE  ListedInv'
  <2>1. proc.pc = "visit" /\ s \in proc.rows
    BY <1>8 DEF SkipSegment, ReadSegment, NextToVisit, ToVisit
  <2>2. \/ proc' = [proc EXCEPT !.seg = s]
        \/ proc' = [proc EXCEPT !.pc = "apply", !.seg = s]
        \/ proc' = Dead
    BY <1>8 DEF SkipSegment, ReadSegment
  <2>3. CASE proc' = Dead
    BY <1>2, <2>3 DEF Dead, At, Walking
  <2>4. CASE proc' # Dead
    <3>1. proc'.rows = proc.rows /\ proc'.pc \in {"visit", "apply"} /\ proc'.seg = s
      BY <1>t, <2>1, <2>2, <2>4 DEF ProcType
    <3>. QED BY <1>1, <2>1, <3>1 DEF Walking
  <2>. QED BY <2>3, <2>4
<1>9. CASE ApplySlice \/ NothingToApply \/ FinishSegment \/ ReclaimFullyDone
  <2>1. /\ proc.pc \in {"apply", "finish", "reclaim"} /\ proc'.rows = proc.rows
        /\ proc'.pc \in Walking /\ proc'.seg = proc.seg
    BY <1>t, <1>9 DEF ApplySlice, NothingToApply, FinishSegment, ReclaimFullyDone,
                      ProcType, Walking
  <2>. QED BY <1>1, <2>1 DEF ListedInv, Walking
<1>10. CASE Compactor
  BY <1>3, <1>10 DEF Compactor, JobAcks, Redo, JobDecides, JobCommits, JobFinishes,
     JobFails
<1>. QED BY <1>3, <1>4, <1>5, <1>6, <1>7, <1>8, <1>9, <1>10
         DEF Next, Processor, CommitSegment, vars

\* Every step keeps what was visited counted.
LEMMA VisitedStep ==
    ASSUME IInv, CursorInv, StoreInv', [Next]_vars
    PROVE  VisitedInv'
<1>. USE Sizes
<1>t. TypeOK /\ proc \in ProcType /\ proc.rows \subseteq Segments /\ WalInv
  BY DEF IInv, TypeOK, ProcType, CursorInv
<1>r. \A s \in proc.rows : s \in Owed' => s \in Owed
  BY <1>t, RowStep DEF CursorInv, ListedInv, Owed
<1>m. ASSUME proc.pc \in Walking, proc.agg \notin emptied, NEW t \in Owed,
             \A k \in SliceNos : Passed(proc.agg, t, k)
      PROVE  Consumed(proc.agg, t)
  BY <1>m DEF IInv, AtSegment, CursorInv, StoreInv, Matches, Consumed, Walking
\* The task walks on over the same listing, in an unchanged state.
<1>1. ASSUME proc'.rows = proc.rows, proc'.agg = proc.agg, proc.pc \in Walking,
             UNCHANGED <<applied, emptied>>,
             \A t \in proc.rows \cap Owed :
                t < proc'.seg \/ (t = proc'.seg /\ proc'.pc # "apply") =>
                    \/ t < proc.seg \/ (t = proc.seg /\ proc.pc # "apply")
                    \/ proc.agg \notin emptied => Consumed(proc.agg, t)
      PROVE  VisitedInv'
  <2>1. proc.agg \notin emptied =>
            \A t \in proc.rows \cap Owed :
                t < proc'.seg \/ (t = proc'.seg /\ proc'.pc # "apply") =>
                    Consumed(proc.agg, t)
    BY <1>1 DEF CursorInv, VisitedInv
  <2>. QED BY <1>1, <1>r, <2>1 DEF VisitedInv, Consumed
<1>2. ASSUME proc'.pc \notin Walking
      PROVE  VisitedInv'
  BY <1>2 DEF VisitedInv
<1>3. CASE UNCHANGED <<proc, applied, emptied>>
  <2>1. CASE proc.pc \in Walking
    BY <1>1, <1>3, <2>1
  <2>. QED BY <1>2, <1>3, <2>1
<1>4. CASE ListShortPage \/ NextAggregate
  <2>1. (proc'.seg = 0 /\ proc'.rows \subseteq Segments) \/ proc'.pc = "list"
    <3>1. CASE ListShortPage
      <4>1. proc' = At("visit", proc.rows \cup NextPage, 0, 1, 0)
        BY <3>1 DEF ListShortPage
      <4>2. NextPage \subseteq Segments
        BY DEF NextPage, Present
      <4>. QED BY <1>t, <4>1, <4>2 DEF At
    <3>2. CASE NextAggregate
      BY <1>t, <3>2 DEF NextAggregate, At, Listing
    <3>. QED BY <1>4, <3>1, <3>2
  <2>2. CASE proc'.pc = "list"
    BY <1>2, <2>2 DEF Walking
  <2>3. CASE proc'.seg = 0 /\ proc'.rows \subseteq Segments
    <3>1. \A t \in proc'.rows : ~(t < 0) /\ t # 0
      BY <2>3 DEF Segments
    <3>. QED BY <2>3, <3>1 DEF VisitedInv
  <2>. QED BY <2>1, <2>2, <2>3
<1>5. ASSUME NEW s \in Segments, SkipSegment(s) \/ ReadSegment(s)
      PROVE  VisitedInv'
  <2>1. /\ proc.pc = "visit" /\ s \in proc.rows
        /\ \A t \in proc.rows : t > proc.seg => s <= t
        /\ UNCHANGED <<applied, emptied>>
    BY <1>5 DEF SkipSegment, ReadSegment, NextToVisit, ToVisit, storeVars, historyVars
  <2>2. \A t \in proc.rows : t < s => t <= proc.seg
    BY <1>t, <2>1 DEF ProcType, Segments
  <2>3. \A t \in proc.rows : t <= proc.seg => t < proc.seg \/ t = proc.seg
    BY <1>t DEF ProcType, Segments
  <2>4. CASE SkipSegment(s)
    <3>1. proc'.pc = "visit" /\ proc'.seg = s /\ proc'.rows = proc.rows
          /\ proc'.agg = proc.agg /\ cursor[proc.agg].seq > s
      BY <1>t, <2>4 DEF SkipSegment, ProcType
    <3>2. cursor[proc.agg].seq \in Nat
      BY <1>t, <2>1 DEF IInv, AtSegment, TypeOK, CursorType
    <3>3. \A k \in SliceNos : Passed(proc.agg, s, k)
      BY <3>1, <3>2 DEF Passed, Segments
    <3>4. s \in Owed /\ proc.agg \notin emptied => Consumed(proc.agg, s)
      BY <1>m, <2>1, <3>3 DEF Walking
    <3>. QED BY <1>1, <2>1, <2>2, <2>3, <3>1, <3>4 DEF Walking
  <2>5. CASE ReadSegment(s)
    <3>1. \/ proc' = [proc EXCEPT !.pc = "apply", !.seg = s]
          \/ proc' = Dead
      BY <2>5 DEF ReadSegment
    <3>2. CASE proc' = [proc EXCEPT !.pc = "apply", !.seg = s]
      <4>1. proc'.pc = "apply" /\ proc'.seg = s /\ proc'.rows = proc.rows
            /\ proc'.agg = proc.agg
        BY <1>t, <3>2 DEF ProcType
      <4>. QED BY <1>1, <2>1, <2>2, <2>3, <4>1 DEF Walking
    <3>3. CASE proc' = Dead
      BY <1>2, <3>3 DEF Dead, At, Walking
    <3>. QED BY <3>1, <3>2, <3>3
  <2>. QED BY <1>5, <2>4, <2>5
<1>6. CASE ApplySlice
  <2>0. PICK a \in Aggs, s \in Segments, k \in SliceNos :
            a = proc.agg /\ s = proc.seg /\ k = AppliedCount(a, s) + 1
    BY <1>6, SliceApplied
  <2>1. \A t \in Segments, j \in SliceNos :
            applied'[a][t][j] = IF t = s /\ j = k THEN 1 ELSE applied[a][t][j]
    BY <1>6, <2>0, SliceApplied
  <2>2. /\ cursor' = [cursor EXCEPT ![a] = [seq |-> s, count |-> k]]
        /\ UNCHANGED <<row, behind, emptied>> /\ proc.pc = "apply"
        /\ proc' = IF k = NumSlices THEN [proc EXCEPT !.pc = "finish"] ELSE proc
    BY <1>6, <2>0 DEF ApplySlice, walVars, historyVars
  <2>3. proc'.rows = proc.rows /\ proc'.agg = a /\ proc'.seg = s
        /\ (proc'.pc = "apply" \/ (proc'.pc = "finish" /\ k = NumSlices))
    BY <1>t, <2>0, <2>2 DEF ProcType
  <2>4. Owed' = Owed
    BY <2>2 DEF Owed, Present
  <2>5. ASSUME a \notin emptied, NEW t \in proc.rows \cap Owed, t < s
        PROVE  Consumed(a, t)'
    <3>1. Consumed(a, t) /\ t \in Segments /\ t # s
      BY <1>t, <2>0, <2>2, <2>5 DEF CursorInv, VisitedInv, Walking, Segments
    <3>. QED BY <2>1, <3>1 DEF Consumed
  <2>6. ASSUME a \notin emptied, k = NumSlices, s \in Owed
        PROVE  Consumed(a, s)'
    <3>1. cursor'[a].seq = s /\ cursor'[a].count = NumSlices
      BY <1>t, <2>2, <2>6 DEF TypeOK
    <3>2. \A j \in SliceNos : j <= NumSlices
      BY DEF SliceNos
    <3>3. \A j \in SliceNos : applied'[a][s][j] > 0
      BY <2>2, <2>4, <2>6, <3>1, <3>2 DEF StoreInv, Matches, Passed
    <3>. QED BY <3>3 DEF Consumed
  <2>. QED BY <2>2, <2>3, <2>4, <2>5, <2>6 DEF VisitedInv, Consumed
<1>7. CASE NothingToApply
  <2>1. /\ proc.pc = "apply" /\ proc'.pc = "visit" /\ proc'.rows = proc.rows
        /\ proc'.agg = proc.agg /\ proc'.seg = proc.seg
        /\ UNCHANGED <<applied, emptied>>
        /\ AppliedCount(proc.agg, proc.seg) = NumSlices
    BY <1>t, <1>7 DEF NothingToApply, ProcType, storeVars, historyVars
  <2>2. cursor[proc.agg].seq = proc.seg /\ cursor[proc.agg].count = NumSlices
    BY <2>1 DEF AppliedCount
  <2>3. \A k \in SliceNos : Passed(proc.agg, proc.seg, k)
    BY <2>2 DEF Passed, SliceNos
  <2>4. proc.seg \in Owed /\ proc.agg \notin emptied => Consumed(proc.agg, proc.seg)
    BY <1>m, <2>1, <2>3 DEF Walking
  <2>. QED BY <1>1, <2>1, <2>4 DEF Walking
<1>8. CASE FinishSegment \/ ReclaimFullyDone
  <2>1. /\ proc.pc \in {"finish", "reclaim"} /\ proc'.pc \in {"reclaim", "visit"}
        /\ proc'.rows = proc.rows /\ proc'.agg = proc.agg /\ proc'.seg = proc.seg
        /\ UNCHANGED <<applied, emptied>>
    BY <1>t, <1>8 DEF FinishSegment, ReclaimFullyDone, ProcType, storeVars, historyVars
  <2>. QED BY <1>1, <2>1 DEF Walking
<1>9. CASE \/ StartProcessorService \/ EnsureConfig \/ RebuildDeletes
           \/ RebuildWritesMeta \/ TaskFails \/ Crash
           \/ (\E a \in Aggs : SetHold(a)) \/ (\E s \in Segments : ListFullPage(s))
  <2>1. proc'.pc \in {"open", "rebuild", "down", "dead", "list"}
    <3>1. CASE StartProcessorService \/ TaskFails \/ Crash
      BY <3>1 DEF StartProcessorService, TaskFails, Crash, Down, Dead, At
    <3>2. CASE EnsureConfig \/ RebuildDeletes \/ RebuildWritesMeta
      BY <1>t, <3>2 DEF EnsureConfig, RebuildDeletes, RebuildWritesMeta, ProcType
    <3>3. CASE \E a \in Aggs : SetHold(a)
      BY <3>3 DEF SetHold, Listing, At
    <3>4. CASE \E s \in Segments : ListFullPage(s)
      BY <3>4 DEF ListFullPage, At
    <3>. QED BY <1>9, <3>1, <3>2, <3>3, <3>4
  <2>. QED BY <1>2, <2>1 DEF Walking
<1>10. CASE Compactor
  BY <1>3, <1>10 DEF Compactor, JobAcks, Redo, JobDecides, JobCommits, JobFinishes,
     JobFails, storeVars, historyVars
<1>. QED BY <1>3, <1>4, <1>5, <1>6, <1>7, <1>8, <1>9, <1>10
         DEF Next, Processor, CommitSegment, storeVars, vars

\* The processor starts with an empty catalog and empty aggregates.
LEMMA CursorInit == ASSUME Init PROVE CursorInv
<1>. USE Sizes DEF Init, Committed
<1>1. WalInv
  BY DEF WalInv, NoJob
<1>2. StoreInv
  <2>1. Owed = {}
    BY DEF Owed, Present
  <2>. QED BY <2>1 DEF StoreInv, FreshCursor, Matches
<1>3. ListedInv /\ VisitedInv
  BY DEF ListedInv, VisitedInv, Walking, Down, At
<1>. QED BY <1>1, <1>2, <1>3 DEF CursorInv

\* Every step keeps the invariant.
LEMMA CursorStep ==
    ASSUME IInv, CursorInv, [Next]_vars
    PROVE  CursorInv'
<1>1. StoreInv'
  BY StoreStep
<1>2. WalInv' /\ ListedInv'
  BY RowStep, ListedStep DEF CursorInv
<1>3. VisitedInv'
  BY <1>1, VisitedStep
<1>. QED BY <1>1, <1>2, <1>3 DEF CursorInv

\* A cursor never passes a slice its aggregate does not count, and counts none
\* it has not passed: for any number of aggregates, segments, slices, crashes
\* and configuration changes, any order of segment ids, any page size and any
\* interleaving with ingest and compaction.  The two exceptions are the code's:
\* a segment committed behind a running listing, and an aggregate between the
\* two commits of a rebuild, or left there by a crash.
THEOREM CursorAgrees == Spec => []PassedIsCounted
<1>1. Init => IInv /\ CursorInv
  BY InitEstablishes, CursorInit
<1>2. IInv /\ CursorInv /\ [Next]_vars => IInv' /\ CursorInv'
  BY NextPreserves, CursorStep
<1>3. IInv /\ CursorInv => PassedIsCounted
  BY DEF IInv, CountedIsPassed, CursorInv, StoreInv, Matches, Owed, PassedIsCounted, Passed
<1>. QED BY <1>1, <1>2, <1>3, PTL DEF Spec

-----------------------------------------------------------------------------
(* The reclaim hold.                                                       *)

\* Every step keeps the hold at or before some cursor.
LEMMA HoldStep ==
    ASSUME IInv, HoldInv, [Next]_vars
    PROVE  HoldInv'
<1>. USE Sizes
<1>t. TypeOK /\ proc \in ProcType
  BY DEF IInv, TypeOK
<1>1. CASE UNCHANGED <<minSeq, cursor>> /\ proc'.pc # "finish"
  BY <1>1 DEF HoldInv
<1>2. CASE UNCHANGED <<minSeq, cursor, proc>>
  BY <1>2 DEF HoldInv
<1>3. CASE RebuildWritesMeta
  <2>1. proc'.pc = "open" /\ proc.agg \in Aggs /\ minSeq' = 0 /\ cursor'[proc.agg].seq = 0
    BY <1>t, <1>3 DEF RebuildWritesMeta, TypeOK, ProcType, IInv, RebuildIsClean,
                      FreshCursor
  <2>. QED BY <2>1 DEF HoldInv
<1>4. ASSUME NEW b \in Aggs, SetHold(b)
      PROVE  HoldInv'
  <2>1. proc'.pc = "list" /\ minSeq' = cursor[b].seq /\ cursor' = cursor
    BY <1>4 DEF SetHold, Listing, At, storeVars
  <2>2. cursor[b].seq \in Nat
    BY <1>t DEF TypeOK, CursorType
  <2>. QED BY <2>1, <2>2 DEF HoldInv
<1>5. CASE ApplySlice
  <2>0. PICK a \in Aggs, s \in Segments, k \in SliceNos :
            a = proc.agg /\ s = proc.seg /\ k = AppliedCount(a, s) + 1
    BY <1>5, SliceApplied
  <2>1. /\ cursor' = [cursor EXCEPT ![a] = [seq |-> s, count |-> k]]
        /\ minSeq' = s /\ proc.pc = "apply"
        /\ proc' = IF k = NumSlices THEN [proc EXCEPT !.pc = "finish"] ELSE proc
    BY <1>5, <2>0 DEF ApplySlice
  <2>2. cursor'[a].seq = s /\ cursor'[a].count = k /\ minSeq' <= cursor'[a].seq
    BY <1>t, <2>1 DEF TypeOK, Segments
  <2>3. proc'.agg = a /\ proc'.seg = s /\ (proc'.pc = "finish" => k = NumSlices)
    BY <1>t, <2>0, <2>1 DEF ProcType
  <2>. QED BY <2>2, <2>3 DEF HoldInv
<1>6. CASE FinishSegment
  <2>1. /\ proc'.pc = "reclaim" /\ proc.pc = "finish" /\ minSeq' = proc.seg + 1
        /\ cursor' = cursor
    BY <1>t, <1>6 DEF FinishSegment, ProcType, storeVars
  <2>2. proc.agg \in Aggs
    BY <2>1 DEF IInv, AtSegment
  <2>. QED BY <2>1, <2>2 DEF HoldInv
<1>7. CASE Crash
  <2>1. minSeq' = NoHold /\ proc'.pc = "down"
    BY <1>7 DEF Crash, Down, At
  <2>. QED BY <2>1 DEF HoldInv, NoHold
<1>8. CASE \/ StartProcessorService \/ EnsureConfig \/ RebuildDeletes \/ ListShortPage
           \/ NothingToApply \/ ReclaimFullyDone \/ NextAggregate \/ TaskFails
  <2>1. UNCHANGED <<minSeq, cursor>>
    BY <1>8 DEF StartProcessorService, EnsureConfig, RebuildDeletes, ListShortPage,
                NothingToApply, ReclaimFullyDone, NextAggregate, TaskFails, storeVars
  <2>2. proc'.pc # "finish"
    <3>1. CASE StartProcessorService \/ ListShortPage \/ NextAggregate \/ TaskFails
      BY <3>1 DEF StartProcessorService, ListShortPage, NextAggregate, TaskFails,
                  Down, Dead, Listing, At
    <3>2. CASE EnsureConfig \/ RebuildDeletes \/ NothingToApply \/ ReclaimFullyDone
      BY <1>t, <3>2 DEF EnsureConfig, RebuildDeletes, NothingToApply,
                        ReclaimFullyDone, ProcType
    <3>. QED BY <1>8, <3>1, <3>2
  <2>. QED BY <1>1, <2>1, <2>2
<1>9. ASSUME NEW s \in Segments, ListFullPage(s) \/ SkipSegment(s) \/ ReadSegment(s)
      PROVE  HoldInv'
  <2>1. UNCHANGED <<minSeq, cursor>>
    BY <1>9 DEF ListFullPage, SkipSegment, ReadSegment, storeVars
  <2>2. proc'.pc # "finish"
    <3>1. CASE ListFullPage(s)
      BY <3>1 DEF ListFullPage, At
    <3>2. CASE SkipSegment(s)
      BY <1>t, <3>2 DEF SkipSegment, ProcType
    <3>3. CASE ReadSegment(s)
      BY <1>t, <3>3 DEF ReadSegment, Dead, At, ProcType
    <3>. QED BY <1>9, <3>1, <3>2, <3>3
  <2>. QED BY <1>1, <2>1, <2>2
<1>10. CASE Compactor
  BY <1>2, <1>10 DEF Compactor, JobAcks, Redo, JobDecides, JobCommits, JobFinishes,
     JobFails, storeVars
<1>. QED BY <1>2, <1>3, <1>4, <1>5, <1>6, <1>7, <1>8, <1>9, <1>10
         DEF Next, Processor, CommitSegment, storeVars, vars

\* What lies below the hold is behind some cursor, and so it is counted there.
LEMMA HoldImplies ==
    ASSUME IInv, CursorInv, HoldInv
    PROVE  HoldNotAhead
<1>. SUFFICES ASSUME minSeq # NoHold
              PROVE  \E a \in Aggs : \A s \in Present :
                        s < minSeq => Consumed(a, s) \/ a \in emptied \/ s \in behind
  BY DEF HoldNotAhead
<1>1. PICK a \in Aggs :
            \/ minSeq <= cursor[a].seq
            \/ minSeq = cursor[a].seq + 1 /\ cursor[a].count = NumSlices
  BY DEF HoldInv
<1>2. cursor[a].seq \in Nat /\ cursor[a].count \in Nat /\ minSeq \in Nat
  BY Sizes DEF IInv, TypeOK, CursorType, NoHold
<1>3. ASSUME NEW s \in Present, s < minSeq, a \notin emptied, s \notin behind
      PROVE  Consumed(a, s)
  <2>1. s \in Nat
    BY DEF Present, Segments
  <2>2. s < cursor[a].seq \/ (s = cursor[a].seq /\ cursor[a].count = NumSlices)
    BY <1>1, <1>2, <1>3, <2>1
  <2>3. \A k \in SliceNos : Passed(a, s, k)
    BY <2>2, Sizes DEF Passed, SliceNos
  <2>. QED BY <1>3, <2>3 DEF CursorInv, StoreInv, Matches, Owed, Consumed
<1>. QED BY <1>3

\* The reclaim hold never lets go what no aggregate counts: for any number of
\* aggregates there is always one that counts every segment below the hold
\* that is still in the catalog, with the exceptions of PassedIsCounted.  That
\* every aggregate counts them is false of the code (HoldIsSafe): the hold
\* follows the aggregate that is being driven, past segments the others have
\* not reached.
THEOREM HoldBounded == Spec => []HoldNotAhead
<1>. DEFINE Inv == IInv /\ CursorInv /\ HoldInv
<1>1. Init => Inv
  <2>. SUFFICES ASSUME Init PROVE HoldInv
    BY InitEstablishes, CursorInit
  <2>. QED BY DEF Init, HoldInv, Down, At
<1>2. Inv /\ [Next]_vars => Inv'
  BY NextPreserves, CursorStep, HoldStep
<1>3. Inv => HoldNotAhead
  BY HoldImplies
<1>. HIDE DEF Inv
<1>. QED BY <1>1, <1>2, <1>3, PTL DEF Spec
=============================================================================
