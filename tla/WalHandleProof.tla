--------------------------- MODULE WalHandleProof ---------------------------
(***************************************************************************)
(* Offsets follow the catalog, no part is committed twice, and a segment   *)
(* row is dropped only when its objects are durably closed: for any number *)
(* of objects, parts, failures and crashes and any ceiling.                *)
(***************************************************************************)
EXTENDS WalHandle, TLAPS

Reading == {"hint", "submit", "append"}

\* A process that is not up reads nothing, holds nothing and calls nothing;
\* only wal_startup has rows to republish.
PhaseInv ==
    /\ phase # "up" =>
        /\ \A o \in Objects : ing[o] = "unread"
        /\ live = {} /\ ~pending
        /\ \A x \in Callers : op[x] = Idle
    /\ phase # "startup" => republish = {}

\* Parts are appended between submit and the end of a unit, and the ingest
\* thread of an object calls the handle only for the hint.
IngestInv ==
    \A o \in Objects :
        /\ ing[o] \in {"unread", "hint", "submit"} => appended[o] = 0
        /\ ing[o] = "append" => appended[o] < NumParts[o]
        /\ op[o].pc # "idle" => ing[o] = "hint"
        /\ op[o].parts = {}

\* A row names the objects of its parts.  A call that publishes has a row of
\* its own that the compactor does not know yet, and has closed all objects of
\* the row but those it has still to publish.
CallInv ==
    /\ \A s \in Seqs : ObjectsOf(log[s].parts) \subseteq log[s].objects
    /\ \A x \in Callers :
        /\ op[x].pc = "commit" => ObjectsOf(op[x].parts) \subseteq op[x].todo
        /\ op[x].pc = "publish" =>
            /\ op[x].seq \in rows \ registered
            /\ op[x].todo \subseteq log[op[x].seq].objects
            /\ \A o \in log[op[x].seq].objects \ op[x].todo : fence[o] # 0
    /\ \A x, y \in Callers :
        x # y /\ op[x].pc = "publish" /\ op[y].pc = "publish" => op[x].seq # op[y].seq

\* Fences that a crash may fall back to are committed too, and closed objects
\* of flushed fences are closed.
FlushedInv ==
    \A o \in Objects : flushed[o] # 0 =>
        o \in log[flushed[o]].objects /\ fence[o] # 0

\* The objects of a segment the compactor may drop are durably closed; what
\* wal_startup has republished is closed.
RegisteredInv ==
    /\ phase = "up" =>
        \A s \in registered : \A o \in log[s].objects : flushed[o] # 0
    /\ phase = "startup" =>
        \A s \in rows \ republish : \A o \in log[s].objects : fence[o] # 0

\* A part in memory was appended and is in one place; a committed part is in
\* memory no more, and its object is either closed or past the part.
PartsInv ==
    /\ \A p \in live \cup op[Persister].parts : p[2] <= appended[p[1]]
    /\ live \cap op[Persister].parts = {}
    /\ \A s \in Seqs : \A p \in log[s].parts :
        /\ p \notin live
        /\ op[Persister].pc = "commit" => p \notin op[Persister].parts
        /\ phase = "up" /\ ing[p[1]] = "unread" => Closed(p[1])
        /\ ing[p[1]] \in Reading => p[2] <= appended[p[1]]

IInv ==
    /\ TypeOK
    /\ PhaseInv
    /\ IngestInv
    /\ CallInv
    /\ FlushedInv
    /\ RegisteredInv
    /\ PartsInv
    /\ PublishedIsCommitted
    /\ CommittedOnce
    /\ ReclaimedIsClosed

-----------------------------------------------------------------------------
(* Helpers.                                                                *)

RowType == [parts : SUBSET Parts, objects : SUBSET Objects]

\* A part names its object and a positive number.
LEMMA PartFacts ==
    /\ \A p \in Parts : p[1] \in Objects /\ p[2] \in 1..NumParts[p[1]]
                            /\ p = <<p[1], p[2]>>
    /\ \A o \in Objects : \A k \in 1..NumParts[o] : <<o, k>> \in Parts
BY ObjectAssumption DEF Parts, PartsOf

\* The objects of a set of parts.
LEMMA ObjectsOfFacts ==
    /\ \A S \in SUBSET Parts : ObjectsOf(S) \in SUBSET Objects
    /\ \A S : \A p \in S : p[1] \in ObjectsOf(S)
    /\ ObjectsOf({}) = {}
BY PartFacts DEF ObjectsOf

\* A row is added behind the ones there are.
LEMMA AppendRow ==
    ASSUME NEW R, NEW l \in Seq(R), NEW r \in R
    PROVE  /\ Append(l, r) \in Seq(R)
           /\ Len(l) \in Nat
           /\ Len(Append(l, r)) = Len(l) + 1
           /\ \A s \in 1..Len(l) : Append(l, r)[s] = l[s]
           /\ Append(l, r)[Len(l) + 1] = r
           /\ \A s \in 1..Len(l) : l[s] \in R
OBVIOUS

\* What TypeOK says of a call, and of the rows it looks up.
LEMMA CallFacts ==
    ASSUME TypeOK
    PROVE  /\ Len(log) \in Nat
           /\ \A s \in Seqs : log[s].parts \in SUBSET Parts
                                /\ log[s].objects \in SUBSET Objects
           /\ \A x \in Callers :
                /\ op[x].seq \in 0..Len(log)
                /\ op[x].parts \in SUBSET Parts
                /\ op[x].todo \in SUBSET Objects
           /\ Persister \in Callers /\ Objects \subseteq Callers
<1>1. Len(log) \in Nat /\ \A s \in Seqs : log[s] \in RowType
  <2>1. log \in Seq(RowType)
    BY DEF TypeOK, RowType
  <2>2. \A s \in 1..Len(log) : log[s] \in RowType
    BY <2>1
  <2>. QED BY <2>1, <2>2 DEF Seqs
<1>2. \A x \in Callers : op[x] \in CallType
  BY DEF TypeOK
<1>. QED BY <1>1, <1>2 DEF CallType, RowType, Callers

\* A call that changes its fields keeps the type.
LEMMA CallTypes ==
    ASSUME TypeOK, NEW x \in Callers
    PROVE  /\ Idle \in CallType
           /\ \A ps \in SUBSET Parts : SegmentCall(ps) \in CallType
           /\ \A o \in Objects : HintCall(o) \in CallType
           /\ [op EXCEPT ![x] = Idle] \in [Callers -> CallType]
           /\ [op EXCEPT ![x].pc = "spawned"] \in [Callers -> CallType]
           /\ \A o : [op EXCEPT ![x].todo = @ \ {o}] \in [Callers -> CallType]
<1>1. Len(log) \in Nat
  BY CallFacts
<1>2. Idle \in CallType
  BY <1>1 DEF Idle, CallType
<1>3. \A ps \in SUBSET Parts : SegmentCall(ps) \in CallType
  BY <1>1, ObjectsOfFacts DEF CallType, SegmentCall
<1>4. \A o \in Objects : HintCall(o) \in CallType
  BY <1>1 DEF CallType, HintCall
<1>5. op \in [Callers -> CallType]
  BY DEF TypeOK
<1>6. [op EXCEPT ![x].pc = "spawned"] \in [Callers -> CallType]
  BY <1>5 DEF CallType
<1>7. \A o : [op EXCEPT ![x].todo = @ \ {o}] \in [Callers -> CallType]
  BY <1>5 DEF CallType
<1>. QED BY <1>2, <1>3, <1>4, <1>5, <1>6, <1>7

-----------------------------------------------------------------------------
(* Types.                                                                  *)

\* Every step keeps the types; that an append stays within its unit, and that
\* planner and startup know only rows of the catalog, needs the invariant.
LEMMA TypeStep == IInv /\ [Next]_vars => TypeOK'
<1>. SUFFICES ASSUME IInv, [Next]_vars PROVE TypeOK'
  OBVIOUS
<1>. USE HandleBoundsAssumption, ObjectAssumption
<1>. USE DEF memVars, catalogVars, seqVars, storeVars, startVars, boundVars
<1>t. TypeOK
  BY DEF IInv
<1>l. Len(log) \in Nat
  BY <1>t, CallFacts
<1>1. ASSUME NEW o \in Objects, SkipObject(o) PROVE TypeOK'
  BY <1>1, <1>t DEF SkipObject, TypeOK, CallType, Seqs
<1>2. ASSUME NEW o \in Objects, ReadObject(o) PROVE TypeOK'
  <2>1. op' \in [Callers -> CallType]
    <3>1. HintCall(o) \in CallType /\ o \in Callers
      BY <1>t, CallTypes, CallFacts
    <3>2. op \in [Callers -> CallType]
      BY <1>t DEF TypeOK
    <3>. QED BY <1>2, <3>1, <3>2 DEF ReadObject
  <2>. QED BY <1>2, <1>t, <2>1 DEF ReadObject, TypeOK, CallType, Seqs
<1>3. ASSUME NEW o \in Objects, EndWithoutWal(o) PROVE TypeOK'
  BY <1>3, <1>t DEF EndWithoutWal, TypeOK, CallType, Seqs
<1>4. ASSUME NEW o \in Objects, AppendPart(o) PROVE TypeOK'
  <2>1. appended[o] \in Nat /\ NumParts[o] \in Nat /\ appended[o] + 1 <= NumParts[o]
    BY <1>4, <1>t DEF AppendPart, TypeOK, IInv, IngestInv
  <2>2. live' \subseteq Parts
    BY <1>4, <1>t, <2>1, PartFacts DEF AppendPart, TypeOK
  <2>3. /\ appended' \in [Objects -> Nat]
        /\ \A q \in Objects : appended'[q] <= NumParts[q]
    BY <1>4, <1>t, <2>1 DEF AppendPart, TypeOK
  <2>4. pending' \in BOOLEAN
    BY <1>4 DEF AppendPart
  <2>5. ing' \in [Objects -> {"unread", "hint", "submit", "append", "done"}]
    BY <1>4, <1>t DEF AppendPart, TypeOK
  <2>6. UNCHANGED <<op, catalogVars, seqVars, storeVars, startVars, boundVars>>
    BY <1>4 DEF AppendPart
  <2>. QED BY <1>t, <2>2, <2>3, <2>4, <2>5, <2>6 DEF TypeOK, CallType, Seqs
<1>5. ASSUME StartPersist PROVE TypeOK'
  <2>1. op' \in [Callers -> CallType]
    BY <1>5, <1>t, CallTypes, CallFacts DEF StartPersist
  <2>. QED BY <1>5, <1>t, <2>1 DEF StartPersist, TypeOK, CallType, Seqs
<1>6. ASSUME TakeLive PROVE TypeOK'
  <2>1. op' \in [Callers -> CallType]
    BY <1>6, <1>t, CallTypes, CallFacts DEF TakeLive, TypeOK
  <2>. QED BY <1>6, <1>t, <2>1 DEF TakeLive, TypeOK, CallType, Seqs
<1>7. ASSUME NEW x \in Callers, CommitRow(x) PROVE TypeOK'
  <2>1. [parts |-> op[x].parts, objects |-> op[x].todo] \in RowType
    BY <1>t, CallFacts DEF RowType
  <2>2. log' \in Seq(RowType) /\ Len(log') = Len(log) + 1
    <3>1. log \in Seq(RowType)
      BY <1>t DEF TypeOK, RowType
    <3>. QED BY <1>7, <2>1, <3>1, AppendRow DEF CommitRow
  <2>3. op' \in [Callers -> CallType']
    <3>1. op[x].parts \in SUBSET Parts /\ op[x].todo \in SUBSET Objects
      BY <1>t, CallFacts
    <3>2. op \in [Callers -> CallType']
      BY <1>t, <1>l, <2>2 DEF TypeOK, CallType
    <3>3. op' = [op EXCEPT ![x] = [op[x] EXCEPT !.pc = "publish", !.seq = Len(log) + 1]]
      BY <1>7, <3>2 DEF CommitRow
    <3>4. [op[x] EXCEPT !.pc = "publish", !.seq = Len(log) + 1] \in CallType'
      <4>1. Len(log) + 1 \in 0..Len(log')
        BY <1>l, <2>2
      <4>2. op[x] \in [pc : {"idle", "spawned", "commit", "publish"},
                      seq : 0..Len(log'), parts : SUBSET Parts,
                      todo : SUBSET Objects]
        BY <3>2 DEF CallType
      <4>. QED BY <4>1, <4>2 DEF CallType
    <3>. QED BY <3>2, <3>3, <3>4
  <2>4. rows' \subseteq Seqs' /\ registered' \subseteq rows' /\ republish' \subseteq rows'
    BY <1>7, <1>t, <1>l, <2>2 DEF CommitRow, TypeOK, Seqs
  <2>5. /\ maxCommitted' \in 0..Len(log') /\ maxPublished' \in 0..Len(log')
        /\ fence' \in [Objects -> 0..Len(log')]
        /\ flushed' \in [Objects -> 0..Len(log')]
    BY <1>7, <1>t, <1>l, <2>2 DEF CommitRow, TypeOK
  <2>6. UNCHANGED <<memVars, startVars, boundVars>>
    BY <1>7 DEF CommitRow
  <2>. QED BY <1>t, <2>2, <2>3, <2>4, <2>5, <2>6 DEF TypeOK, RowType
<1>8. ASSUME NEW x \in Callers, CommitRefused(x) \/ CommitFails(x) \/ FlushFails(x)
      PROVE  TypeOK'
  <2>1. op' \in [Callers -> CallType]
    BY <1>8, <1>t, CallTypes DEF CommitRefused, CommitFails, FlushFails, Fails
  <2>2. ing' \in [Objects -> {"unread", "hint", "submit", "append", "done"}]
    BY <1>8, <1>t DEF CommitRefused, CommitFails, FlushFails, Fails, TypeOK
  <2>3. failures' \in 0..MaxFailures
    BY <1>8, <1>t DEF CommitRefused, CommitFails, FlushFails, TypeOK
  <2>4. UNCHANGED <<appended, live, pending, catalogVars, seqVars, storeVars,
                    startVars, crashes>>
    BY <1>8 DEF CommitRefused, CommitFails, FlushFails
  <2>. QED BY <1>t, <2>1, <2>2, <2>3, <2>4 DEF TypeOK, CallType, Seqs
<1>9. ASSUME NEW x \in Callers, NEW o \in Objects, PublishOffset(x, o) PROVE TypeOK'
  <2>1. op' \in [Callers -> CallType]
    BY <1>9, <1>t, CallTypes DEF PublishOffset
  <2>2. fence' \in [Objects -> 0..Len(log)]
    BY <1>9, <1>t, CallFacts DEF PublishOffset, TypeOK
  <2>. QED BY <1>9, <1>t, <2>1, <2>2 DEF PublishOffset, TypeOK, CallType, Seqs
<1>10. ASSUME NEW x \in Callers, PublishDone(x) PROVE TypeOK'
  <2>1. op' \in [Callers -> CallType]
    BY <1>10, <1>t, CallTypes DEF PublishDone
  <2>2. op[x].seq \in rows
    BY <1>10 DEF PublishDone, IInv, CallInv
  <2>3. ing' \in [Objects -> {"unread", "hint", "submit", "append", "done"}]
    BY <1>10, <1>t DEF PublishDone, TypeOK
  <2>4. maxPublished' \in 0..Len(log) /\ registered' \subseteq rows
    BY <1>10, <1>t, <2>2, CallFacts DEF PublishDone, TypeOK
  <2>. QED BY <1>10, <1>t, <2>1, <2>3, <2>4 DEF PublishDone, TypeOK, CallType, Seqs
<1>11. ASSUME NEW s \in Seqs, Reclaim(s) PROVE TypeOK'
  BY <1>11, <1>t DEF Reclaim, TypeOK, CallType, Seqs, IInv, PhaseInv
<1>12. ASSUME NEW s \in Seqs, RepublishRow(s) PROVE TypeOK'
  BY <1>12, <1>t, <1>l DEF RepublishRow, TypeOK, CallType, Seqs
<1>13. ASSUME Crash PROVE TypeOK'
  <2>1. op' \in [Callers -> CallType]
    <3>1. Idle \in CallType
      BY <1>t, CallTypes, CallFacts
    <3>. QED BY <1>13, <3>1 DEF Crash
  <2>2. fence' \in [Objects -> 0..Len(log)] /\ flushed' \in [Objects -> 0..Len(log)]
    BY <1>13, <1>t DEF Crash, TypeOK
  <2>3. /\ phase' = "down" /\ live' = {} /\ pending' = FALSE
        /\ ing' = [o \in Objects |-> "unread"]
        /\ appended' = [o \in Objects |-> 0]
        /\ maxCommitted' = 0 /\ maxPublished' = 0
        /\ registered' = {} /\ republish' = {}
        /\ crashes < MaxCrashes /\ crashes' = crashes + 1
        /\ UNCHANGED <<log, rows, failures>>
    BY <1>13 DEF Crash
  <2>4. pending' \in BOOLEAN
    BY <2>3
  <2>5. /\ ing' \in [Objects -> {"unread", "hint", "submit", "append", "done"}]
        /\ appended' \in [Objects -> Nat]
        /\ \A o \in Objects : appended'[o] <= NumParts[o]
    BY <2>3
  <2>6. /\ maxCommitted' \in 0..Len(log) /\ maxPublished' \in 0..Len(log)
        /\ crashes' \in 0..MaxCrashes
    BY <1>t, <1>l, <2>3 DEF TypeOK
  <2>7. phase' \in {"down", "startup", "up"}
    BY <2>3
  <2>8. log' = log /\ rows' = rows /\ failures' = failures
        /\ live' = {} /\ registered' = {} /\ republish' = {}
    BY <2>3
  <2>. QED BY <1>t, <2>1, <2>2, <2>4, <2>5, <2>6, <2>7, <2>8
           DEF TypeOK, CallType, Seqs
<1>14. ASSUME WalStartup PROVE TypeOK'
  BY <1>14, <1>t DEF WalStartup, TypeOK, CallType, Seqs
<1>15. ASSUME RepublishDone PROVE TypeOK'
  BY <1>15, <1>t DEF RepublishDone, TypeOK, CallType, Seqs
<1>16. CASE UNCHANGED vars
  BY <1>16, <1>t DEF vars, TypeOK, CallType, Seqs
<1>. QED
  BY <1>1, <1>2, <1>3, <1>4, <1>5, <1>6, <1>7, <1>8, <1>9, <1>10, <1>11, <1>12,
     <1>13, <1>14, <1>15, <1>16
  DEF Next, Ingest, Call

-----------------------------------------------------------------------------
(* Safety.                                                                 *)

\* What a step leaves alone stays as it was.
LEMMA Frame ==
    ASSUME IInv
    PROVE  /\ UNCHANGED <<phase, ing, live, pending, op, republish>> => PhaseInv'
           /\ UNCHANGED <<ing, appended, op>> => IngestInv'
           /\ UNCHANGED <<log, op, rows, registered, fence>> => CallInv'
           /\ UNCHANGED <<log, fence, flushed>> => FlushedInv' /\ PublishedIsCommitted'
           /\ UNCHANGED <<phase, log, rows, registered, republish, fence, flushed>>
                => RegisteredInv'
           /\ UNCHANGED <<phase, ing, appended, live, op, log, fence>> => PartsInv'
           /\ UNCHANGED log => CommittedOnce'
           /\ UNCHANGED <<log, rows, flushed>> => ReclaimedIsClosed'
<1>1. UNCHANGED <<phase, ing, live, pending, op, republish>> => PhaseInv'
  BY DEF IInv, PhaseInv
<1>2. UNCHANGED <<ing, appended, op>> => IngestInv'
  BY DEF IInv, IngestInv
<1>3. UNCHANGED <<log, op, rows, registered, fence>> => CallInv'
  BY DEF IInv, CallInv, Seqs
<1>4. UNCHANGED <<log, fence, flushed>> => FlushedInv' /\ PublishedIsCommitted'
  BY DEF IInv, FlushedInv, PublishedIsCommitted, Closed
<1>5. UNCHANGED <<phase, log, rows, registered, republish, fence, flushed>>
        => RegisteredInv'
  BY DEF IInv, RegisteredInv
<1>6. UNCHANGED <<phase, ing, appended, live, op, log, fence>> => PartsInv'
  BY DEF IInv, PartsInv, Seqs, Closed
<1>7. UNCHANGED log => CommittedOnce'
  BY DEF IInv, CommittedOnce, Seqs
<1>8. UNCHANGED <<log, rows, flushed>> => ReclaimedIsClosed'
  BY DEF IInv, ReclaimedIsClosed, Seqs
<1>. QED BY <1>1, <1>2, <1>3, <1>4, <1>5, <1>6, <1>7, <1>8

\* A part of a row, of the live segment or of a call is a part of an object.
LEMMA PartsAreParts ==
    ASSUME IInv
    PROVE  /\ \A s \in Seqs : \A p \in log[s].parts :
                p[1] \in Objects /\ p[2] \in Nat \ {0}
           /\ \A p \in live \cup op[Persister].parts :
                p[1] \in Objects /\ p[2] \in Nat \ {0} /\ appended[p[1]] \in Nat
<1>1. TypeOK
  BY DEF IInv
<1>2. \A p \in Parts : p[1] \in Objects /\ p[2] \in Nat \ {0} /\ appended[p[1]] \in Nat
  BY <1>1, PartFacts, ObjectAssumption DEF TypeOK
<1>. QED BY <1>1, <1>2, CallFacts DEF TypeOK

\* A process with a call, a unit being read or a live segment is up.
LEMMA Up ==
    ASSUME IInv
    PROVE  /\ \A x \in Callers : op[x].pc # "idle" => phase = "up"
           /\ \A o \in Objects : ing[o] # "unread" => phase = "up"
           /\ pending \/ live # {} => phase = "up"
BY DEF IInv, PhaseInv, Idle

\* The steps of an object's ingest keep the invariant.
LEMMA IngestStep ==
    ASSUME IInv, NEW o \in Objects, Ingest(o), TypeOK'
    PROVE  IInv'
<1>. USE DEF memVars, catalogVars, seqVars, storeVars, startVars, boundVars
<1>t. TypeOK
  BY DEF IInv
<1>c. o \in Callers /\ Persister \in Callers /\ o # Persister
  BY ObjectAssumption DEF Callers
<1>1. CASE SkipObject(o) \/ EndWithoutWal(o)
  <2>1. ing' = [ing EXCEPT ![o] = "done"] /\ UNCHANGED <<appended, live, pending, op,
            catalogVars, storeVars, startVars>>
    BY <1>1 DEF SkipObject, EndWithoutWal
  <2>2. PhaseInv'
    BY <1>1, <2>1, Up DEF IInv, PhaseInv, SkipObject, EndWithoutWal
  <2>3. IngestInv'
    BY <1>1, <1>t, <2>1 DEF IInv, IngestInv, SkipObject, EndWithoutWal, TypeOK
  <2>4. PartsInv'
    BY <1>t, <2>1, PartsAreParts DEF IInv, PartsInv, Seqs, Closed, Reading, TypeOK
  <2>. QED BY <2>1, <2>2, <2>3, <2>4, Frame DEF IInv
<1>2. CASE ReadObject(o)
  <2>1. /\ phase = "up" /\ ing[o] = "unread" /\ ~Closed(o)
        /\ UNCHANGED <<appended, live, pending, catalogVars, storeVars, startVars>>
        /\ ing' \in {[ing EXCEPT ![o] = "hint"], [ing EXCEPT ![o] = "submit"]}
        /\ \A y \in Callers \ {o} : op'[y] = op[y]
        /\ \/ op'[o] = HintCall(o) /\ ing'[o] = "hint"
           \/ op'[o] = op[o] /\ ing'[o] = "submit"
    BY <1>2, <1>t, <1>c DEF ReadObject, TypeOK
  <2>2. PhaseInv'
    BY <2>1 DEF IInv, PhaseInv
  <2>3. IngestInv'
    <3>1. \A q \in Objects \ {o} : ing'[q] = ing[q] /\ op'[q] = op[q]
      BY <1>t, <2>1 DEF TypeOK, Callers
    <3>. QED BY <2>1, <3>1 DEF IInv, IngestInv, HintCall
  <2>4. CallInv'
    <3>1. op[o].pc = "idle"
      BY <2>1 DEF IInv, IngestInv
    <3>2. \A y \in Callers : op'[y].pc = "publish" => op'[y] = op[y] /\ y # o
      BY <2>1, <3>1 DEF HintCall
    <3>3. \A y \in Callers : op'[y].pc = "commit" =>
                ObjectsOf(op'[y].parts) \subseteq op'[y].todo
      <4>1. ObjectsOf({}) = {}
        BY ObjectsOfFacts
      <4>2. \A y \in Callers : y # o /\ op'[y].pc = "commit" =>
                ObjectsOf(op'[y].parts) \subseteq op'[y].todo
        BY <2>1 DEF IInv, CallInv
      <4>3. op'[o].pc = "commit" => op'[o].parts = {}
        BY <2>1, <3>1 DEF HintCall
      <4>. QED BY <4>1, <4>2, <4>3
    <3>. QED BY <2>1, <3>2, <3>3 DEF IInv, CallInv, Seqs
  <2>5. PartsInv'
    <3>1. op'[Persister] = op[Persister]
      BY <1>c, <2>1
    <3>2. \A s \in Seqs : \A p \in log[s].parts : p[1] \in Objects /\ p[1] # o
      BY <2>1, PartsAreParts DEF IInv, PartsInv
    <3>3. \A q \in Objects \ {o} : ing'[q] = ing[q]
      BY <1>t, <2>1 DEF TypeOK
    <3>. QED BY <2>1, <3>1, <3>2, <3>3 DEF IInv, PartsInv, Seqs, Closed
  <2>. QED BY <2>1, <2>2, <2>3, <2>4, <2>5, Frame DEF IInv
<1>3. CASE AppendPart(o)
  <2>1. /\ ing[o] \in {"submit", "append"}
        /\ appended' = [appended EXCEPT ![o] = @ + 1]
        /\ live' = live \cup {<<o, appended[o] + 1>>}
        /\ ing' = [ing EXCEPT ![o] = IF appended[o] + 1 = NumParts[o]
                                     THEN "done" ELSE "append"]
        /\ UNCHANGED <<op, catalogVars, storeVars, startVars>>
    BY <1>3 DEF AppendPart
  <2>2. phase = "up"
    BY <2>1, Up
  <2>3. appended[o] \in Nat /\ NumParts[o] \in Nat /\ appended[o] + 1 <= NumParts[o]
    BY <1>3, <1>t, ObjectAssumption DEF AppendPart, TypeOK, IInv, IngestInv
  <2>4. PhaseInv'
    BY <2>1, <2>2 DEF IInv, PhaseInv
  <2>5. IngestInv'
    <3>1. \A q \in Objects \ {o} : ing'[q] = ing[q] /\ appended'[q] = appended[q]
      BY <1>t, <2>1 DEF TypeOK
    <3>2. /\ ing'[o] \in {"append", "done"} /\ appended'[o] = appended[o] + 1
          /\ ing'[o] = "append" => appended[o] + 1 # NumParts[o]
          /\ op[o].pc = "idle"
      BY <1>t, <2>1 DEF TypeOK, IInv, IngestInv
    <3>. QED BY <2>1, <2>3, <3>1, <3>2 DEF IInv, IngestInv
  <2>6. PartsInv'
    <3>1. \A q \in Objects : appended[q] \in Nat /\ appended'[q] \in Nat
                                /\ appended[q] <= appended'[q]
      BY <1>t, <2>1, <2>3 DEF TypeOK
    <3>2. \A p \in live \cup op[Persister].parts : p[2] <= appended'[p[1]]
      <4>1. \A p \in live \cup op[Persister].parts : p[2] <= appended[p[1]]
        BY DEF IInv, PartsInv
      <4>. QED BY <3>1, <4>1, PartsAreParts
    <3>3. DEFINE new == <<o, appended[o] + 1>>
    <3>4. /\ new[1] = o /\ new[2] = appended[o] + 1 /\ new[2] = appended'[new[1]]
          /\ ~(new[2] <= appended[new[1]])
      BY <1>t, <2>1, <2>3 DEF TypeOK
    <3>5. new \notin op[Persister].parts
      BY <3>4 DEF IInv, PartsInv
    <3>6. \A s \in Seqs : new \notin log[s].parts
      BY <2>1, <3>4 DEF IInv, PartsInv, Reading
    <3>7. \A s \in Seqs : \A p \in log[s].parts :
            /\ ing'[p[1]] = "unread" => Closed(p[1])
            /\ ing'[p[1]] \in Reading => p[2] <= appended'[p[1]]
      <4>. SUFFICES ASSUME NEW s \in Seqs, NEW p \in log[s].parts
                    PROVE  /\ ing'[p[1]] = "unread" => Closed(p[1])
                           /\ ing'[p[1]] \in Reading => p[2] <= appended'[p[1]]
        OBVIOUS
      <4>1. p[1] \in Objects /\ p[2] \in Nat
        BY PartsAreParts
      <4>2. CASE p[1] = o
        <5>1. ing[o] \in Reading /\ ing'[o] # "unread"
          BY <1>t, <2>1 DEF Reading, TypeOK
        <5>2. p[2] <= appended[o]
          BY <4>2, <5>1 DEF IInv, PartsInv
        <5>3. appended[o] \in Nat /\ appended'[o] \in Nat /\ appended[o] <= appended'[o]
          BY <3>1
        <5>. QED BY <4>1, <4>2, <5>1, <5>2, <5>3
      <4>3. CASE p[1] # o
        BY <1>t, <2>1, <2>2, <3>1, <4>1, <4>3 DEF IInv, PartsInv, Reading, TypeOK
      <4>. QED BY <4>2, <4>3
    <3>8. live' = live \cup {new}
      BY <2>1
    <3>9. \A p \in live' \cup op'[Persister].parts : p[2] <= appended'[p[1]]
      <4>1. new[2] <= appended'[new[1]]
        BY <2>3, <3>4
      <4>2. op'[Persister].parts = op[Persister].parts
        BY <2>1
      <4>. HIDE DEF new
      <4>. QED BY <3>2, <3>8, <4>1, <4>2
    <3>10. live' \cap op'[Persister].parts = {}
      BY <2>1, <3>5, <3>8 DEF IInv, PartsInv
    <3>11. \A s \in Seqs : \A p \in log[s].parts :
            /\ p \notin live'
            /\ op[Persister].pc = "commit" => p \notin op[Persister].parts
      BY <3>6, <3>8 DEF IInv, PartsInv
    <3>. QED BY <2>1, <3>7, <3>9, <3>10, <3>11 DEF PartsInv, Seqs, Closed
  <2>. QED BY <2>1, <2>4, <2>5, <2>6, Frame DEF IInv
<1>. QED BY <1>1, <1>2, <1>3 DEF Ingest

\* Starting the persist task and taking the live segment keep the invariant.
LEMMA PersistStep ==
    ASSUME IInv, StartPersist \/ TakeLive, TypeOK'
    PROVE  IInv'
<1>. USE DEF memVars, catalogVars, seqVars, storeVars, startVars, boundVars
<1>t. TypeOK
  BY DEF IInv
<1>c. Persister \in Callers /\ Objects \subseteq Callers /\ Persister \notin Objects
  BY ObjectAssumption DEF Callers
<1>1. /\ UNCHANGED <<ing, appended, catalogVars, storeVars, startVars>>
      /\ \A y \in Callers \ {Persister} : op'[y] = op[y]
      /\ op'[Persister].pc # "publish"
      /\ ObjectsOf(op'[Persister].parts) \subseteq op'[Persister].todo
      /\ live' \cup op'[Persister].parts = live
      /\ live' \cap op'[Persister].parts = {}
      /\ phase = "up"
  <2>1. CASE StartPersist
    <3>1. op[Persister] = Idle /\ op'[Persister] = [Idle EXCEPT !.pc = "spawned"]
      BY <1>t, <1>c, <2>1 DEF StartPersist, TypeOK
    <3>2. op'[Persister].pc = "spawned" /\ op'[Persister].parts = {}
      BY <3>1 DEF Idle
    <3>3. ObjectsOf({}) = {}
      BY ObjectsOfFacts
    <3>4. phase = "up"
      BY <2>1, Up DEF StartPersist
    <3>5. live' = live /\ \A y \in Callers \ {Persister} : op'[y] = op[y]
      BY <1>t, <2>1 DEF StartPersist, TypeOK
    <3>6. UNCHANGED <<ing, appended, catalogVars, storeVars, startVars>>
      BY <2>1 DEF StartPersist
    <3>. QED BY <3>2, <3>3, <3>4, <3>5, <3>6
  <2>2. CASE TakeLive
    <3>1. op'[Persister] = IF live = {} THEN Idle ELSE SegmentCall(live)
      BY <1>t, <1>c, <2>2 DEF TakeLive, TypeOK
    <3>2. op'[Persister].pc # "publish" /\ op'[Persister].parts = live
      BY <3>1 DEF Idle, SegmentCall
    <3>3. ObjectsOf(op'[Persister].parts) \subseteq op'[Persister].todo
      BY <3>1, ObjectsOfFacts DEF Idle, SegmentCall
    <3>4. phase = "up"
      BY <2>2, <1>c, Up DEF TakeLive
    <3>5. live' = {} /\ \A y \in Callers \ {Persister} : op'[y] = op[y]
      BY <1>t, <2>2 DEF TakeLive, TypeOK
    <3>6. UNCHANGED <<ing, appended, catalogVars, storeVars, startVars>>
      BY <2>2 DEF TakeLive
    <3>. QED BY <3>2, <3>3, <3>4, <3>5, <3>6
  <2>. QED BY <2>1, <2>2
<1>2. PhaseInv'
  BY <1>1 DEF IInv, PhaseInv
<1>3. IngestInv'
  BY <1>1, <1>c DEF IInv, IngestInv
<1>4. CallInv'
  <2>1. \A y \in Callers : op'[y].pc = "publish" => op'[y] = op[y]
    BY <1>1
  <2>2. \A y \in Callers : op'[y].pc = "commit" =>
            ObjectsOf(op'[y].parts) \subseteq op'[y].todo
    BY <1>1 DEF IInv, CallInv
  <2>. QED BY <1>1, <2>1, <2>2 DEF IInv, CallInv, Seqs
<1>5. PartsInv'
  BY <1>1 DEF IInv, PartsInv, Seqs, Closed
<1>. QED BY <1>1, <1>2, <1>3, <1>4, <1>5, Frame DEF IInv

\* A call that fails is forgotten, and so is its segment.
LEMMA FailStep ==
    ASSUME IInv, NEW x \in Callers,
           CommitRefused(x) \/ CommitFails(x) \/ FlushFails(x), TypeOK'
    PROVE  IInv'
<1>. USE DEF memVars, catalogVars, seqVars, storeVars, startVars, boundVars
<1>t. TypeOK
  BY DEF IInv
<1>c. Persister \in Callers /\ Objects \subseteq Callers /\ Persister \notin Objects
  BY ObjectAssumption DEF Callers
<1>1. /\ op[x].pc # "idle"
      /\ UNCHANGED <<appended, live, pending, catalogVars, storeVars, startVars>>
      /\ op' = [op EXCEPT ![x] = Idle]
      /\ ing' = IF x = Persister THEN ing ELSE [ing EXCEPT ![x] = "done"]
  BY DEF CommitRefused, CommitFails, FlushFails, Fails
<1>2. phase = "up"
  BY <1>1, Up
<1>3. /\ op'[x] = Idle
      /\ \A y \in Callers \ {x} : op'[y] = op[y]
      /\ \A o \in Objects : ing'[o] = IF o = x THEN "done" ELSE ing[o]
  BY <1>t, <1>1, <1>c DEF TypeOK, Callers
<1>4. PhaseInv'
  BY <1>1, <1>2 DEF IInv, PhaseInv
<1>5. IngestInv'
  BY <1>1, <1>3, <1>c DEF IInv, IngestInv, Idle
<1>6. CallInv'
  BY <1>1, <1>3 DEF IInv, CallInv, Seqs, Idle
<1>7. PartsInv'
  <2>1. \/ op'[Persister] = op[Persister]
        \/ op'[Persister].parts = {} /\ op'[Persister].pc = "idle"
    BY <1>3, <1>c DEF Idle
  <2>2. \A o \in Objects : ing'[o] = ing[o] \/ ing'[o] = "done"
    BY <1>3
  <2>. QED BY <1>1, <1>2, <2>1, <2>2, PartsAreParts DEF IInv, PartsInv, Seqs, Closed, Reading
<1>. QED BY <1>1, <1>4, <1>5, <1>6, <1>7, Frame DEF IInv

\* A committed row is new: no call has its seq, the compactor does not know
\* it, and its parts are in no other row.
LEMMA CommitStep ==
    ASSUME IInv, NEW x \in Callers, CommitRow(x), TypeOK'
    PROVE  IInv'
<1>. USE DEF memVars, catalogVars, seqVars, storeVars, startVars, boundVars
<1>t. TypeOK
  BY DEF IInv
<1>c. Persister \in Callers /\ Objects \subseteq Callers /\ Persister \notin Objects
  BY ObjectAssumption DEF Callers
<1>. DEFINE n == Len(log) + 1
<1>1. /\ op[x].pc = "commit"
      /\ rows' = rows \cup {n}
      /\ UNCHANGED <<memVars, registered, storeVars, startVars>>
  BY DEF CommitRow
<1>2. /\ Len(log) \in Nat
      /\ Seqs' = Seqs \cup {n} /\ n \notin Seqs /\ n # 0
      /\ \A s \in Seqs : log'[s] = log[s]
      /\ log'[n].parts = op[x].parts /\ log'[n].objects = op[x].todo
  <2>1. log \in Seq(RowType)
    BY <1>t DEF TypeOK, RowType
  <2>2. [parts |-> op[x].parts, objects |-> op[x].todo] \in RowType
    BY <1>t, CallFacts DEF RowType
  <2>3. log' = Append(log, [parts |-> op[x].parts, objects |-> op[x].todo])
    BY DEF CommitRow
  <2>4. /\ Len(log) \in Nat /\ Len(log') = n
        /\ \A s \in 1..Len(log) : log'[s] = log[s]
        /\ log'[n] = [parts |-> op[x].parts, objects |-> op[x].todo]
    BY <2>1, <2>2, <2>3, AppendRow
  <2>. QED BY <2>4 DEF Seqs
<1>3. /\ op'[x].pc = "publish" /\ op'[x].seq = n
      /\ op'[x].parts = op[x].parts /\ op'[x].todo = op[x].todo
      /\ \A y \in Callers \ {x} : op'[y] = op[y]
  <2>1. op[x] \in CallType /\ op \in [Callers -> CallType]
    BY <1>t DEF TypeOK
  <2>. QED BY <2>1 DEF CommitRow, CallType
<1>4. phase = "up"
  BY <1>1, Up
<1>5. rows \subseteq Seqs /\ registered \subseteq Seqs
  BY <1>t DEF TypeOK
<1>6. \A o \in Objects : /\ fence[o] # 0 => fence[o] \in Seqs
                         /\ flushed[o] # 0 => flushed[o] \in Seqs
  <2>1. \A o \in Objects : fence[o] \in 0..Len(log) /\ flushed[o] \in 0..Len(log)
    BY <1>t DEF TypeOK
  <2>2. \A k \in 0..Len(log) : k # 0 => k \in Seqs
    BY CallFacts, <1>t DEF Seqs
  <2>. QED BY <2>1, <2>2
<1>7. \/ x \in Objects /\ op[x].parts = {}
      \/ x = Persister
  BY DEF IInv, IngestInv, Callers
<1>. HIDE DEF n
<1>8. PhaseInv'
  BY <1>1, <1>4 DEF IInv, PhaseInv
<1>9. IngestInv'
  BY <1>1, <1>3, <1>c DEF IInv, IngestInv
<1>10. CallInv'
  <2>1. \A s \in Seqs' : ObjectsOf(log'[s].parts) \subseteq log'[s].objects
    BY <1>1, <1>2 DEF IInv, CallInv
  <2>2. \A y \in Callers : op'[y].pc = "commit" =>
            ObjectsOf(op'[y].parts) \subseteq op'[y].todo
    BY <1>3 DEF IInv, CallInv
  <2>3. \A y \in Callers \ {x} : op'[y].pc = "publish" =>
            /\ op'[y].seq \in Seqs
            /\ op'[y].seq \in rows' \ registered'
            /\ op'[y].todo \subseteq log'[op'[y].seq].objects
            /\ \A o \in log'[op'[y].seq].objects \ op'[y].todo : fence'[o] # 0
    BY <1>1, <1>2, <1>3, <1>5 DEF IInv, CallInv
  <2>4. /\ op'[x].seq \in rows' \ registered'
        /\ op'[x].todo = log'[op'[x].seq].objects
    BY <1>1, <1>2, <1>3, <1>5
  <2>5. \A y, z \in Callers : y # z /\ op'[y].pc = "publish" /\ op'[z].pc = "publish"
            => op'[y].seq # op'[z].seq
    BY <1>2, <1>3, <2>3 DEF IInv, CallInv
  <2>. QED BY <2>1, <2>2, <2>3, <2>4, <2>5 DEF CallInv
<1>11. FlushedInv' /\ PublishedIsCommitted'
  <2>1. FlushedInv'
    BY <1>1, <1>2, <1>6 DEF IInv, FlushedInv
  <2>2. PublishedIsCommitted'
    BY <1>1, <1>2, <1>6 DEF IInv, PublishedIsCommitted, Closed
  <2>. QED BY <2>1, <2>2
<1>12. RegisteredInv'
  BY <1>1, <1>2, <1>4, <1>5 DEF IInv, RegisteredInv
<1>13. PartsInv'
  <2>1. op'[Persister].parts = op[Persister].parts
    BY <1>3, <1>c
  <2>2. op'[Persister].pc = "commit" => op[Persister].pc = "commit"
    BY <1>3, <1>c
  <2>3. \A s \in Seqs : \A p \in log'[s].parts :
          /\ p \notin live'
          /\ op'[Persister].pc = "commit" => p \notin op'[Persister].parts
          /\ phase' = "up" /\ ing'[p[1]] = "unread" => Closed(p[1])'
          /\ ing'[p[1]] \in Reading => p[2] <= appended'[p[1]]
    BY <1>1, <1>2, <2>1, <2>2 DEF IInv, PartsInv, Closed
  <2>4. \A p \in log'[n].parts :
          /\ p \notin live'
          /\ op'[Persister].pc = "commit" => p \notin op'[Persister].parts
          /\ phase' = "up" /\ ing'[p[1]] = "unread" => Closed(p[1])'
          /\ ing'[p[1]] \in Reading => p[2] <= appended'[p[1]]
    <3>. SUFFICES ASSUME NEW p \in op[x].parts
                  PROVE  /\ p \notin live
                         /\ op'[Persister].pc # "commit"
                         /\ ing[p[1]] # "unread"
                         /\ p[2] <= appended[p[1]]
      BY <1>1, <1>2 DEF Closed
    <3>1. x = Persister
      BY <1>7
    <3>2. p \notin live /\ p[2] <= appended[p[1]]
      BY <3>1 DEF IInv, PartsInv
    <3>3. p[1] \in Objects /\ p[2] \in Nat \ {0}
      BY <3>1, PartsAreParts
    <3>4. ing[p[1]] # "unread"
      BY <3>2, <3>3 DEF IInv, IngestInv
    <3>. QED BY <1>3, <3>1, <3>2, <3>4
  <2>5. /\ \A p \in live' \cup op'[Persister].parts : p[2] <= appended'[p[1]]
        /\ live' \cap op'[Persister].parts = {}
    BY <1>1, <2>1 DEF IInv, PartsInv
  <2>. QED BY <1>2, <2>3, <2>4, <2>5 DEF PartsInv
<1>14. CommittedOnce'
  <2>1. \A s \in Seqs : log'[s].parts \cap log'[n].parts = {}
    BY <1>1, <1>2, <1>7 DEF IInv, PartsInv
  <2>2. \A s, t \in Seqs : s # t => log'[s].parts \cap log'[t].parts = {}
    BY <1>2 DEF IInv, CommittedOnce
  <2>. QED BY <1>2, <2>1, <2>2 DEF CommittedOnce
<1>15. ReclaimedIsClosed'
  BY <1>1, <1>2 DEF IInv, ReclaimedIsClosed
<1>. QED BY <1>8, <1>9, <1>10, <1>11, <1>12, <1>13, <1>14, <1>15 DEF IInv

\* Publishing an offset closes an object of the row, for good.
LEMMA PublishStep ==
    ASSUME IInv, NEW x \in Callers, NEW o \in Objects, PublishOffset(x, o), TypeOK'
    PROVE  IInv'
<1>. USE DEF memVars, catalogVars, seqVars, storeVars, startVars, boundVars
<1>t. TypeOK
  BY DEF IInv
<1>c. Persister \in Callers /\ Objects \subseteq Callers /\ Persister \notin Objects
  BY ObjectAssumption DEF Callers
<1>1. /\ op[x].pc = "publish" /\ o \in op[x].todo
      /\ UNCHANGED <<memVars, catalogVars, flushed, startVars>>
  BY DEF PublishOffset
<1>2. /\ op'[x].pc = op[x].pc /\ op'[x].seq = op[x].seq
      /\ op'[x].parts = op[x].parts /\ op'[x].todo = op[x].todo \ {o}
      /\ \A y \in Callers \ {x} : op'[y] = op[y]
  <2>1. op[x] \in CallType /\ op \in [Callers -> CallType]
    BY <1>t DEF TypeOK
  <2>. QED BY <2>1 DEF PublishOffset, CallType
<1>3. phase = "up"
  BY <1>1, Up
<1>4. /\ op[x].seq # 0
      /\ fence'[o] = op[x].seq
      /\ \A q \in Objects \ {o} : fence'[q] = fence[q]
      /\ o \in log[op[x].seq].objects
  <2>1. op[x].seq \in rows /\ op[x].todo \subseteq log[op[x].seq].objects
    BY <1>1 DEF IInv, CallInv
  <2>2. op[x].seq # 0
    <3>1. op[x].seq \in Seqs
      BY <1>t, <2>1 DEF TypeOK
    <3>. QED BY <3>1 DEF Seqs
  <2>. QED BY <1>1, <1>t, <2>1, <2>2 DEF PublishOffset, TypeOK
<1>5. \A q \in Objects : fence[q] # 0 => fence'[q] # 0
  BY <1>4
<1>6. \A s \in Seqs : log[s].objects \subseteq Objects
  BY <1>t, CallFacts
<1>7. \A y \in Callers : /\ op'[y].pc = op[y].pc /\ op'[y].seq = op[y].seq
                         /\ op'[y].parts = op[y].parts
                         /\ op'[y].todo \subseteq op[y].todo
  BY <1>2
<1>8. PhaseInv'
  BY <1>1, <1>3 DEF IInv, PhaseInv
<1>9. IngestInv'
  BY <1>1, <1>7, <1>c DEF IInv, IngestInv
<1>10. CallInv'
  <2>1. \A y \in Callers : op'[y].pc = "commit" =>
            ObjectsOf(op'[y].parts) \subseteq op'[y].todo
    BY <1>1, <1>2 DEF IInv, CallInv
  <2>2. \A y \in Callers : op'[y].pc = "publish" =>
            /\ op'[y].seq \in rows' \ registered'
            /\ op'[y].todo \subseteq log'[op'[y].seq].objects
    BY <1>1, <1>7 DEF IInv, CallInv
  <2>3. \A y \in Callers : op'[y].pc = "publish" =>
            \A q \in log'[op'[y].seq].objects \ op'[y].todo : fence'[q] # 0
    <3>. SUFFICES ASSUME NEW y \in Callers, op[y].pc = "publish",
                         NEW q \in log[op[y].seq].objects, q \notin op'[y].todo
                  PROVE  fence'[q] # 0
      BY <1>1, <1>7
    <3>1. op[y].seq \in Seqs
      BY <1>t DEF IInv, CallInv, TypeOK
    <3>2. q \in Objects
      BY <1>6, <3>1
    <3>3. q = o \/ q \notin op[y].todo
      BY <1>2
    <3>4. CASE q = o
      BY <1>4, <3>4
    <3>5. CASE q \notin op[y].todo
      <4>1. fence[q] # 0
        BY <3>5 DEF IInv, CallInv
      <4>. QED BY <1>5, <3>2, <4>1
    <3>. QED BY <3>3, <3>4, <3>5
  <2>4. \A y, z \in Callers : y # z /\ op'[y].pc = "publish" /\ op'[z].pc = "publish"
            => op'[y].seq # op'[z].seq
    BY <1>7 DEF IInv, CallInv
  <2>. QED BY <1>1, <2>1, <2>2, <2>3, <2>4 DEF IInv, CallInv, Seqs
<1>11. FlushedInv'
  BY <1>1, <1>5 DEF IInv, FlushedInv
<1>12. PublishedIsCommitted'
  BY <1>1, <1>4 DEF IInv, PublishedIsCommitted, Closed
<1>13. RegisteredInv'
  BY <1>1, <1>3 DEF IInv, RegisteredInv
<1>14. PartsInv'
  <2>1. \A s \in Seqs : \A p \in log[s].parts : Closed(p[1]) => Closed(p[1])'
    BY <1>5, PartsAreParts DEF Closed
  <2>2. /\ op'[Persister].parts = op[Persister].parts
        /\ op'[Persister].pc = op[Persister].pc
    BY <1>7, <1>c
  <2>. QED BY <1>1, <2>1, <2>2 DEF IInv, PartsInv, Seqs
<1>. QED BY <1>1, <1>8, <1>9, <1>10, <1>11, <1>12, <1>13, <1>14, Frame DEF IInv

\* The end of publish_seq: the objects of the row are closed, the flush makes
\* that durable, and no other call has the row that is registered.
LEMMA PublishDoneStep ==
    ASSUME IInv, NEW x \in Callers, PublishDone(x), TypeOK'
    PROVE  IInv'
<1>. USE DEF memVars, catalogVars, seqVars, storeVars, startVars, boundVars
<1>t. TypeOK
  BY DEF IInv
<1>c. Persister \in Callers /\ Objects \subseteq Callers /\ Persister \notin Objects
  BY ObjectAssumption DEF Callers
<1>1. /\ op[x].pc = "publish" /\ op[x].todo = {}
      /\ flushed' = fence
      /\ registered' \subseteq registered \cup {op[x].seq}
      /\ UNCHANGED <<appended, live, pending, log, rows, fence, startVars>>
  BY DEF PublishDone
<1>2. /\ op'[x] = Idle
      /\ \A y \in Callers \ {x} : op'[y] = op[y]
      /\ \A o \in Objects : ing'[o] = IF o = x THEN "submit" ELSE ing[o]
  BY <1>t, <1>c DEF PublishDone, TypeOK, Callers
<1>3. phase = "up"
  BY <1>1, Up
<1>4. \A o \in Objects : o = x => ing[o] = "hint" /\ appended[o] = 0
  BY <1>1 DEF IInv, IngestInv
<1>5. \A s \in Seqs : log[s].objects \subseteq Objects
  BY <1>t, CallFacts
<1>6. \A o \in Objects : flushed[o] # 0 => fence[o] # 0
  BY DEF IInv, FlushedInv
<1>7. registered \subseteq Seqs /\ op[x].seq \in Seqs
  BY <1>t, <1>1 DEF IInv, CallInv, TypeOK
<1>8. PhaseInv'
  BY <1>1, <1>3 DEF IInv, PhaseInv
<1>9. IngestInv'
  BY <1>1, <1>2, <1>4, <1>c DEF IInv, IngestInv, Idle
<1>10. CallInv'
  <2>1. \A y \in Callers : op'[y].pc = "publish" =>
            /\ y # x /\ op'[y] = op[y] /\ op[y].seq # op[x].seq
    BY <1>1, <1>2 DEF IInv, CallInv, Idle
  <2>2. \A y \in Callers : op'[y].pc = "commit" =>
            ObjectsOf(op'[y].parts) \subseteq op'[y].todo
    BY <1>2 DEF IInv, CallInv, Idle
  <2>. QED BY <1>1, <2>1, <2>2 DEF IInv, CallInv, Seqs
<1>11. FlushedInv' /\ PublishedIsCommitted'
  BY <1>1 DEF IInv, FlushedInv, PublishedIsCommitted, Closed
<1>12. RegisteredInv'
  <2>1. \A s \in registered : \A o \in log[s].objects : fence[o] # 0
    BY <1>3, <1>5, <1>6, <1>7 DEF IInv, RegisteredInv
  <2>2. \A o \in log[op[x].seq].objects : fence[o] # 0
    BY <1>1 DEF IInv, CallInv
  <2>. QED BY <1>1, <1>3, <2>1, <2>2 DEF RegisteredInv
<1>13. PartsInv'
  <2>1. \/ op'[Persister] = op[Persister]
        \/ op'[Persister].parts = {} /\ op'[Persister].pc = "idle"
    BY <1>2, <1>c DEF Idle
  <2>2. \A o \in Objects : /\ ing'[o] = "unread" => ing[o] = "unread"
                           /\ ing'[o] \in Reading => ing[o] \in Reading
    BY <1>2, <1>4 DEF Reading
  <2>3. \A s \in Seqs : \A p \in log[s].parts :
          /\ phase' = "up" /\ ing'[p[1]] = "unread" => Closed(p[1])'
          /\ ing'[p[1]] \in Reading => p[2] <= appended'[p[1]]
    BY <1>1, <1>3, <2>2, PartsAreParts DEF IInv, PartsInv, Closed
  <2>4. \A s \in Seqs : \A p \in log[s].parts :
          /\ p \notin live'
          /\ op'[Persister].pc = "commit" => p \notin op'[Persister].parts
    BY <1>1, <2>1 DEF IInv, PartsInv
  <2>5. /\ \A p \in live' \cup op'[Persister].parts : p[2] <= appended'[p[1]]
        /\ live' \cap op'[Persister].parts = {}
    BY <1>1, <2>1 DEF IInv, PartsInv
  <2>. QED BY <1>1, <2>3, <2>4, <2>5 DEF PartsInv, Seqs
<1>14. ReclaimedIsClosed'
  BY <1>1, <1>5, <1>6 DEF IInv, ReclaimedIsClosed, Seqs
<1>. QED BY <1>1, <1>8, <1>9, <1>10, <1>11, <1>12, <1>13, <1>14, Frame DEF IInv

\* The row of a registered segment goes only when its objects are closed.
LEMMA ReclaimStep ==
    ASSUME IInv, NEW s \in Seqs, Reclaim(s), TypeOK'
    PROVE  IInv'
<1>. USE DEF memVars, catalogVars, seqVars, storeVars, startVars, boundVars
<1>1. /\ phase = "up" /\ s \in registered
      /\ rows' = rows \ {s} /\ registered' = registered \ {s}
      /\ UNCHANGED <<memVars, op, log, storeVars, startVars>>
  BY DEF Reclaim
<1>2. CallInv'
  BY <1>1 DEF IInv, CallInv, Seqs
<1>3. RegisteredInv'
  BY <1>1 DEF IInv, RegisteredInv
<1>4. ReclaimedIsClosed'
  <2>1. \A o \in log[s].objects : flushed[o] # 0
    BY <1>1 DEF IInv, RegisteredInv
  <2>. QED BY <1>1, <2>1 DEF IInv, ReclaimedIsClosed, Seqs
<1>. QED BY <1>1, <1>2, <1>3, <1>4, Frame DEF IInv

\* Republishing a row closes its objects.
LEMMA RepublishStep ==
    ASSUME IInv, NEW s \in Seqs, RepublishRow(s), TypeOK'
    PROVE  IInv'
<1>. USE DEF memVars, catalogVars, seqVars, storeVars, startVars, boundVars
<1>t. TypeOK
  BY DEF IInv
<1>1. /\ phase = "startup" /\ republish' = republish \ {s}
      /\ fence' = [o \in Objects |->
                    IF o \in log[s].objects /\ fence[o] < s THEN s ELSE fence[o]]
      /\ UNCHANGED <<memVars, op, catalogVars, flushed, phase>>
  BY DEF RepublishRow
<1>2. s \in Nat \ {0} /\ \A o \in Objects : fence[o] \in Nat
  BY <1>t, CallFacts DEF TypeOK, Seqs
<1>3. /\ \A o \in Objects : fence[o] # 0 => fence'[o] # 0
      /\ \A o \in log[s].objects \cap Objects : fence'[o] # 0
      /\ \A o \in Objects :
            fence'[o] = fence[o] \/ (fence'[o] = s /\ o \in log[s].objects)
  BY <1>1, <1>2
<1>4. \A t \in Seqs : log[t].objects \subseteq Objects
  BY <1>t, CallFacts
<1>5. \A x \in Callers : op[x].pc = "idle"
  BY <1>1 DEF IInv, PhaseInv, Idle
<1>6. PhaseInv'
  BY <1>1 DEF IInv, PhaseInv
<1>7. CallInv'
  BY <1>1, <1>5 DEF IInv, CallInv, Seqs
<1>8. FlushedInv'
  BY <1>1, <1>3 DEF IInv, FlushedInv
<1>9. PublishedIsCommitted'
  BY <1>1, <1>3 DEF IInv, PublishedIsCommitted, Closed
<1>10. RegisteredInv'
  <2>1. rows \subseteq Seqs
    BY <1>t DEF TypeOK
  <2>2. \A t \in rows \ republish' : \A o \in log[t].objects : fence'[o] # 0
    BY <1>1, <1>3, <1>4, <2>1 DEF IInv, RegisteredInv
  <2>. QED BY <1>1, <2>2 DEF RegisteredInv
<1>11. PartsInv'
  BY <1>1 DEF IInv, PartsInv, Seqs
<1>. QED BY <1>1, <1>6, <1>7, <1>8, <1>9, <1>10, <1>11, Frame DEF IInv

\* A crash forgets what is in memory, and takes a fence back at most to the
\* flushed one.
LEMMA CrashStep ==
    ASSUME IInv, Crash, TypeOK'
    PROVE  IInv'
<1>t. TypeOK
  BY DEF IInv
<1>1. /\ phase' = "down" /\ live' = {} /\ ~pending'
      /\ ing' = [o \in Objects |-> "unread"]
      /\ appended' = [o \in Objects |-> 0]
      /\ op' = [x \in Callers |-> Idle]
      /\ registered' = {} /\ republish' = {}
      /\ log' = log /\ rows' = rows /\ flushed' = fence'
  BY DEF Crash
<1>2. \A o \in Objects : fence'[o] = fence[o] \/ fence'[o] = flushed[o]
  BY DEF Crash
<1>3. /\ \A x \in Callers : op'[x] = Idle
      /\ op'[Persister] = Idle
  BY <1>1 DEF Callers
<1>4. PhaseInv'
  BY <1>1, <1>3 DEF PhaseInv
<1>5. IngestInv'
  BY <1>1, <1>3 DEF IngestInv, Idle, Callers
<1>6. CallInv'
  BY <1>1, <1>3 DEF IInv, CallInv, Seqs, Idle
<1>7. \A o \in Objects :
        /\ fence'[o] # 0 => o \in log[fence'[o]].objects
        /\ flushed[o] # 0 => fence'[o] # 0
  BY <1>2 DEF IInv, FlushedInv, PublishedIsCommitted, Closed
<1>8. FlushedInv' /\ PublishedIsCommitted'
  BY <1>1, <1>7 DEF FlushedInv, PublishedIsCommitted, Closed
<1>9. RegisteredInv'
  BY <1>1 DEF RegisteredInv
<1>10. PartsInv'
  <2>1. \A p \in live' \cup op'[Persister].parts : FALSE
    BY <1>1, <1>3 DEF Idle
  <2>2. \A s \in Seqs : \A p \in log[s].parts : ing'[p[1]] \notin Reading
    BY <1>1, PartsAreParts DEF Reading
  <2>. QED BY <1>1, <2>1, <2>2 DEF PartsInv, Seqs
<1>11. ReclaimedIsClosed'
  <2>1. \A s \in Seqs : log[s].objects \subseteq Objects
    BY <1>t, CallFacts
  <2>. QED BY <1>1, <1>7, <2>1 DEF IInv, ReclaimedIsClosed, Seqs
<1>. QED BY <1>1, <1>4, <1>5, <1>6, <1>8, <1>9, <1>10, <1>11, Frame DEF IInv

\* The start registers what is in the catalog, and ends when every row of it
\* has been republished: from then on no object with a committed row is open.
LEMMA StartupStep ==
    ASSUME IInv, WalStartup \/ RepublishDone, TypeOK'
    PROVE  IInv'
<1>. USE DEF memVars, catalogVars, seqVars, storeVars, startVars, boundVars
<1>t. TypeOK
  BY DEF IInv
<1>1. CASE WalStartup
  <2>1. /\ phase = "down" /\ phase' = "startup" /\ republish' = rows
        /\ UNCHANGED <<memVars, op, log, rows, storeVars>>
    BY <1>1 DEF WalStartup
  <2>2. PhaseInv'
    BY <2>1 DEF IInv, PhaseInv
  <2>3. CallInv'
    <3>1. \A x \in Callers : op[x].pc = "idle"
      BY <2>1 DEF IInv, PhaseInv, Idle
    <3>. QED BY <2>1, <3>1 DEF IInv, CallInv, Seqs
  <2>4. RegisteredInv'
    BY <2>1 DEF RegisteredInv
  <2>5. PartsInv'
    BY <2>1 DEF IInv, PartsInv, Seqs, Closed
  <2>. QED BY <2>1, <2>2, <2>3, <2>4, <2>5, Frame DEF IInv
<1>2. CASE RepublishDone
  <2>1. /\ phase = "startup" /\ republish = {} /\ phase' = "up" /\ flushed' = fence
        /\ UNCHANGED <<memVars, op, catalogVars, fence, republish>>
    BY <1>2 DEF RepublishDone
  <2>2. \A s \in Seqs : log[s].objects \subseteq Objects
    BY <1>t, CallFacts
  <2>3. \A s \in Seqs : \A o \in log[s].objects : fence[o] # 0
    <3>1. \A s \in rows : \A o \in log[s].objects : fence[o] # 0
      BY <2>1 DEF IInv, RegisteredInv
    <3>2. \A s \in Seqs \ rows : \A o \in log[s].objects : fence[o] # 0
      BY <2>2 DEF IInv, ReclaimedIsClosed, FlushedInv
    <3>. QED BY <3>1, <3>2
  <2>4. PhaseInv'
    BY <2>1 DEF IInv, PhaseInv
  <2>5. FlushedInv' /\ PublishedIsCommitted'
    BY <2>1 DEF IInv, FlushedInv, PublishedIsCommitted, Closed
  <2>6. RegisteredInv'
    <3>1. registered \subseteq Seqs
      BY <1>t DEF TypeOK
    <3>. QED BY <2>1, <2>3, <3>1 DEF RegisteredInv
  <2>7. ReclaimedIsClosed'
    BY <2>1, <2>3 DEF ReclaimedIsClosed, Seqs
  <2>8. PartsInv'
    <3>1. \A s \in Seqs : \A p \in log[s].parts : fence[p[1]] # 0
      <4>1. \A s \in Seqs : \A p \in log[s].parts : p[1] \in log[s].objects
        BY ObjectsOfFacts DEF IInv, CallInv
      <4>. QED BY <2>3, <4>1
    <3>. QED BY <2>1, <3>1 DEF IInv, PartsInv, Seqs, Closed
  <2>. QED BY <2>1, <2>4, <2>5, <2>6, <2>7, <2>8, Frame DEF IInv
<1>. QED BY <1>1, <1>2

\* The initial states satisfy the inductive invariant.
LEMMA InitEstablishes == Init => IInv
<1>. SUFFICES ASSUME Init PROVE IInv
  OBVIOUS
<1>. USE HandleBoundsAssumption, ObjectAssumption
<1>1. Len(log) = 0 /\ Seqs = {} /\ log \in Seq(RowType)
  BY DEF Init, Seqs
<1>2. \A x \in Callers : op[x] = Idle
  BY DEF Init
<1>3. op \in [Callers -> CallType]
  <2>1. Idle \in CallType
    BY <1>1 DEF Idle, CallType
  <2>. QED BY <2>1 DEF Init
<1>4. pending \in BOOLEAN
  BY DEF Init
<1>5. TypeOK
  BY <1>1, <1>3, <1>4 DEF Init, TypeOK, RowType
<1>6. PhaseInv
  BY <1>2 DEF Init, PhaseInv
<1>7. IngestInv
  BY <1>2 DEF Init, IngestInv, Idle, Callers
<1>8. CallInv
  BY <1>1, <1>2 DEF CallInv, Idle
<1>9. FlushedInv /\ PublishedIsCommitted
  BY DEF Init, FlushedInv, PublishedIsCommitted, Closed
<1>10. RegisteredInv
  BY DEF Init, RegisteredInv
<1>11. PartsInv
  BY <1>1, <1>2 DEF Init, PartsInv, Idle, Callers
<1>12. CommittedOnce /\ ReclaimedIsClosed
  BY <1>1 DEF CommittedOnce, ReclaimedIsClosed
<1>. QED BY <1>5, <1>6, <1>7, <1>8, <1>9, <1>10, <1>11, <1>12 DEF IInv

\* Every step keeps the inductive invariant.
LEMMA Induction == IInv /\ [Next]_vars => IInv'
<1>. SUFFICES ASSUME IInv, [Next]_vars PROVE IInv'
  OBVIOUS
<1>t. TypeOK'
  BY TypeStep
<1>1. ASSUME NEW o \in Objects, Ingest(o) PROVE IInv'
  BY <1>1, <1>t, IngestStep
<1>2. CASE StartPersist \/ TakeLive
  BY <1>2, <1>t, PersistStep
<1>3. ASSUME NEW x \in Callers, Call(x) PROVE IInv'
  BY <1>3, <1>t, CommitStep, FailStep, PublishStep, PublishDoneStep DEF Call
<1>4. ASSUME NEW s \in Seqs, Reclaim(s) \/ RepublishRow(s) PROVE IInv'
  BY <1>4, <1>t, ReclaimStep, RepublishStep
<1>5. CASE Crash
  BY <1>5, <1>t, CrashStep
<1>6. CASE WalStartup \/ RepublishDone
  BY <1>6, <1>t, StartupStep
<1>7. CASE UNCHANGED vars
  BY <1>7, <1>t, Frame
  DEF vars, memVars, catalogVars, seqVars, storeVars, startVars, boundVars, IInv
<1>. QED BY <1>1, <1>2, <1>3, <1>4, <1>5, <1>6, <1>7 DEF Next

\* Whatever fails and whenever the process ends: a published offset has a
\* committed row that names its object, no part of an object is committed in
\* two rows, and a row is dropped from the catalog only when the objects it
\* names are closed for good (publish_committed, republish_all, the end of a
\* segment in the catalog).
THEOREM HandleSafety ==
    Spec => [](TypeOK /\ PublishedIsCommitted /\ CommittedOnce /\ ReclaimedIsClosed)
<1>1. IInv => TypeOK /\ PublishedIsCommitted /\ CommittedOnce /\ ReclaimedIsClosed
  BY DEF IInv
<1>. QED BY <1>1, InitEstablishes, Induction, PTL DEF Spec
=============================================================================
