--------------------------- MODULE WalWriterProof ---------------------------
(***************************************************************************)
(* Safety of the WAL writer for every number of units, batches, requests,  *)
(* flush callers, every channel capacity and every bound on failures.      *)
(***************************************************************************)
EXTENDS WalWriter, FiniteSetTheorems, TLAPS

(***************************************************************************)
(* The inductive invariant.                                                *)
(***************************************************************************)

\* Units counted by WAL_WRITER_PENDING_COUNT: a panicked persist leaves its
\* units counted for ever.
Counted == {u \in Units : unitState[u] \in {"appending", "pending", "dropped"}}

TypeInv ==
    /\ queue \in Seq(Commands)
    /\ Len(queue) <= Capacity
    /\ live \subseteq AllParts
    /\ pending \subseteq Units
    /\ offsets \in BOOLEAN
    /\ persist \in [phase : {"none", "spawned", "writing"} \cup Finished,
                    acks : SUBSET Units, snap : SUBSET AllParts]
    /\ writer \in {AtLoop}
            \cup [pc : {"append"}, unit : Units, done : Nat]
            \cup [pc : {"flush1", "flush2"}, caller : Flushers]
    /\ registry \in [Requests -> Nat]
    /\ reqResult \in [Requests -> {"unregistered", "waiting", "ok", "err"}]
    /\ unitState \in [Units -> Unresolved \cup
                        {"new", "ok", "err", "refused", "empty", "dropped"}]
    /\ flushState \in [Flushers -> {"new", "queued", "serving", "ok", "refused"}]
    /\ covered \in [Flushers -> SUBSET Units]
    /\ durable \subseteq AllParts
    /\ lost \subseteq AllParts
    /\ failures \in 0..MaxFailures
    /\ panics \in 0..MaxPanics
    /\ appendErrors \in 0..MaxAppendErrors

\* The channel holds a unit at most once, and only units not yet received.
QueueInv ==
    \A i \in 1..Len(queue) : queue[i].kind = "submit" =>
        /\ unitState[queue[i].unit] = "queued"
        /\ \A j \in 1..Len(queue) :
                queue[j].kind = "submit" /\ queue[j].unit = queue[i].unit => i = j

\* Acks wait in pending_acks or travel with the persist task, not both.
AcksInv ==
    /\ \A u \in pending : unitState[u] = "pending"
    /\ \A u \in persist.acks : unitState[u] = "pending"
    /\ pending \cap persist.acks = {}

AppendInv ==
    /\ \A u \in Units : unitState[u] = "appending"
            <=> (writer.pc = "append" /\ writer.unit = u)
    /\ writer.pc = "append" => writer.done <= NumBatches[writer.unit]

TaskInv ==
    /\ persist.phase = "none" => persist.acks = {}
    /\ persist.phase # "writing" => persist.snap = {}

\* Only units the writer has received have batches anywhere.
PartsInv ==
    \A p \in live \cup persist.snap \cup durable \cup lost :
        /\ unitState[p[1]] \in {"appending", "pending", "ok", "err", "dropped"}
        /\ unitState[p[1]] = "appending" => p[2] <= writer.done

\* Once the task has taken live, what is live came from units whose acks it
\* does not carry: this is what makes its result an answer for its acks.
TakenInv ==
    persist.phase \in {"writing", "ok", "err"} =>
        \A u \in persist.acks : PartsOf(u) \cap live = {}

LostInv == failures = 0 /\ panics = 0 => lost = {}

CountInv == count = Cardinality(Counted)

SafetyInv ==
    /\ TypeInv
    /\ QueueInv
    /\ AcksInv
    /\ AppendInv
    /\ TaskInv
    /\ PartsInv
    /\ TakenInv
    /\ LostInv
    /\ BatchesConserved
    /\ AckedIsSettled

IInv == SafetyInv /\ CountInv

-----------------------------------------------------------------------------
(* Helpers.                                                                *)

\* A part names its unit and the index of its batch.
LEMMA PartsFacts ==
    /\ \A u \in Units : \A p : p \in PartsOf(u) =>
            p[1] = u /\ p[2] \in 1..NumBatches[u] /\ p = <<p[1], p[2]>>
    /\ \A u \in Units : \A i \in 1..NumBatches[u] : <<u, i>> \in PartsOf(u)
    /\ \A u \in Units : PartsOf(u) \subseteq AllParts
    /\ \A p \in AllParts : p[1] \in Units /\ p \in PartsOf(p[1])
BY UnitsAssumption DEF PartsOf, AllParts

\* complete_request_unit keeps the registry's type.
LEMMA RegistryTyped ==
    ASSUME TypeInv, NEW us \in SUBSET Units, NEW result \in {"ok", "err"},
           CompleteRequestUnits(us, result)
    PROVE  /\ registry' \in [Requests -> Nat]
           /\ reqResult' \in [Requests -> {"unregistered", "waiting", "ok", "err"}]
<1>1. \A r \in Requests : Hits(us, r) \in Nat
  <2>. TAKE r \in Requests
  <2>. IsFiniteSet({u \in us : UnitRequest[u] = r})
    BY UnitsAssumption, FS_Subset
  <2>. QED BY FS_CardinalityType DEF Hits
<1>. QED BY <1>1 DEF CompleteRequestUnits, TypeInv

\* The writer starts in the invariant.
LEMMA InitHolds == Init => IInv
<1>. SUFFICES ASSUME Init PROVE IInv
  OBVIOUS
<1>1. TypeInv
  <2>1. queue \in Seq(Commands) /\ Len(queue) <= Capacity
    BY CapacityAssumption DEF Init
  <2>2. failures \in 0..MaxFailures /\ panics \in 0..MaxPanics
            /\ appendErrors \in 0..MaxAppendErrors
    BY BoundsAssumption DEF Init
  <2>3. persist \in [phase : {"none", "spawned", "writing"} \cup Finished,
                    acks : SUBSET Units, snap : SUBSET AllParts]
    BY DEF Init, Idle
  <2>. QED BY <2>1, <2>2, <2>3 DEF Init, TypeInv, Unresolved
<1>2. QueueInv /\ AcksInv /\ TaskInv /\ PartsInv /\ TakenInv /\ LostInv
  BY DEF Init, QueueInv, AcksInv, TaskInv, PartsInv, TakenInv, LostInv, Idle
<1>3. AppendInv
  BY DEF Init, AppendInv, AtLoop
<1>4. BatchesConserved /\ AckedIsSettled
  BY DEF Init, BatchesConserved, AckedIsSettled, Volatile, Appended, Idle
<1>5. CountInv
  <2>. Counted = {}
    BY DEF Init, Counted
  <2>. QED BY FS_EmptySet DEF CountInv, Init
<1>. QED BY <1>1, <1>2, <1>3, <1>4, <1>5 DEF IInv, SafetyInv

-----------------------------------------------------------------------------
(* Steps of the callers, the persist task and the writer.                  *)

\* What a non-empty channel gives: its head is a command, its tail a shorter
\* channel.
LEMMA ChannelFacts ==
    ASSUME TypeInv, queue # <<>>
    PROVE  /\ Len(queue) \in Nat \ {0}
           /\ Head(queue) = queue[1] /\ Head(queue) \in Commands
           /\ Tail(queue) \in Seq(Commands)
           /\ Len(Tail(queue)) = Len(queue) - 1
           /\ \A i \in 1..Len(Tail(queue)) : Tail(queue)[i] = queue[i + 1]
BY DEF TypeInv

\* A command names its unit or its caller.
LEMMA CommandFacts ==
    /\ \A c \in Commands : c.kind = "submit" => c.unit \in Units
    /\ \A c \in Commands : c.kind = "flush" => c.caller \in Flushers
    /\ \A u \in Units : SubmitCommand(u) \in Commands
    /\ \A f \in Flushers : FlushCommand(f) \in Commands
BY DEF Commands, SubmitCommand, FlushCommand

\* Where the writer is decides which fields its state has.
LEMMA WriterFacts ==
    ASSUME TypeInv
    PROVE  /\ writer.pc = "append" =>
                /\ writer \in [pc : {"append"}, unit : Units, done : Nat]
                /\ writer.unit \in Units /\ writer.done \in Nat
           /\ writer.pc \in {"flush1", "flush2"} =>
                /\ writer \in [pc : {"flush1", "flush2"}, caller : Flushers]
                /\ writer.caller \in Flushers
BY DEF TypeInv, AtLoop

\* RegisterRequestAck keeps every part of the safety invariant.
LEMMA RegisterRequestAckSafe ==
    ASSUME SafetyInv, NEW r \in Requests, RegisterRequestAck(r)
    PROVE  SafetyInv'
<1>. USE PartsFacts DEF SafetyInv, RegisterRequestAck, registryVars, historyVars, boundVars
<1>1. TypeInv'
  <2>1. Cardinality(UnitsOf(r)) \in Nat
    BY UnitsAssumption, FS_Subset, FS_CardinalityType DEF UnitsOf
  <2>. QED BY <2>1 DEF TypeInv
<1>2. QueueInv'
  BY DEF TypeInv, QueueInv, AcksInv, AppendInv, Unresolved, Commands
<1>3. AcksInv' /\ TaskInv'
  BY DEF TypeInv, AcksInv, AppendInv, TaskInv, QueueInv, Finished
<1>4. AppendInv'
  BY DEF TypeInv, AcksInv, AppendInv, QueueInv, AtLoop
<1>5. PartsInv' /\ LostInv'
  BY DEF TypeInv, AcksInv, AppendInv, PartsInv, LostInv, QueueInv
<1>6. TakenInv'
  BY DEF TypeInv, AcksInv, AppendInv, PartsInv, TakenInv, TaskInv, Finished
<1>7. BatchesConserved'
  BY DEF TypeInv, AcksInv, AppendInv, PartsInv, TaskInv, QueueInv, BatchesConserved, Volatile, Appended
<1>8. AckedIsSettled'
  BY DEF TypeInv, AcksInv, AppendInv, PartsInv, TaskInv, TakenInv, AckedIsSettled, Volatile, QueueInv, Finished
<1>. QED BY <1>1, <1>2, <1>3, <1>4, <1>5, <1>6, <1>7, <1>8

\* Submit keeps every part of the safety invariant.
LEMMA SubmitSafe ==
    ASSUME SafetyInv, NEW u \in Units, Submit(u)
    PROVE  SafetyInv'
<1>. USE PartsFacts DEF SafetyInv, Submit, Started, SubmitCommand, registryVars, historyVars, boundVars
<1>1. TypeInv'
  <2>1. queue' \in Seq(Commands) /\ Len(queue') <= Capacity
    BY CommandFacts, CapacityAssumption DEF TypeInv
  <2>. QED BY <2>1 DEF TypeInv, Unresolved
<1>2. QueueInv'
  BY DEF TypeInv, QueueInv, AcksInv, AppendInv, Unresolved, Commands
<1>3. AcksInv' /\ TaskInv'
  BY DEF TypeInv, AcksInv, AppendInv, TaskInv, QueueInv, Finished
<1>4. AppendInv'
  BY DEF TypeInv, AcksInv, AppendInv, QueueInv, AtLoop
<1>5. PartsInv' /\ LostInv'
  BY DEF TypeInv, AcksInv, AppendInv, PartsInv, LostInv, QueueInv
<1>6. TakenInv'
  BY DEF TypeInv, AcksInv, AppendInv, PartsInv, TakenInv, TaskInv, Finished
<1>7. BatchesConserved'
  BY DEF TypeInv, AcksInv, AppendInv, PartsInv, TaskInv, QueueInv, BatchesConserved, Volatile, Appended
<1>8. AckedIsSettled'
  BY DEF TypeInv, AcksInv, AppendInv, PartsInv, TaskInv, TakenInv, AckedIsSettled, Volatile, QueueInv, Finished
<1>. QED BY <1>1, <1>2, <1>3, <1>4, <1>5, <1>6, <1>7, <1>8

\* FailRequest keeps every part of the safety invariant.
LEMMA FailRequestSafe ==
    ASSUME SafetyInv, NEW u \in Units, FailRequest(u)
    PROVE  SafetyInv'
<1>. USE PartsFacts DEF SafetyInv, FailRequest, Started, registryVars, historyVars, boundVars
<1>1. TypeInv'
  BY RegistryTyped, BoundsAssumption DEF TypeInv, Finished, Unresolved, Commands, AtLoop
<1>2. QueueInv'
  BY DEF TypeInv, QueueInv, AcksInv, AppendInv, Unresolved, Commands
<1>3. AcksInv' /\ TaskInv'
  BY DEF TypeInv, AcksInv, AppendInv, TaskInv, QueueInv, Finished
<1>4. AppendInv'
  BY DEF TypeInv, AcksInv, AppendInv, QueueInv, AtLoop
<1>5. PartsInv' /\ LostInv'
  BY DEF TypeInv, AcksInv, AppendInv, PartsInv, LostInv, QueueInv
<1>6. TakenInv'
  BY DEF TypeInv, AcksInv, AppendInv, PartsInv, TakenInv, TaskInv, Finished
<1>7. BatchesConserved'
  BY DEF TypeInv, AcksInv, AppendInv, PartsInv, TaskInv, QueueInv, BatchesConserved, Volatile, Appended
<1>8. AckedIsSettled'
  BY DEF TypeInv, AcksInv, AppendInv, PartsInv, TaskInv, TakenInv, AckedIsSettled, Volatile, QueueInv, Finished
<1>. QED BY <1>1, <1>2, <1>3, <1>4, <1>5, <1>6, <1>7, <1>8

\* CompleteRequestWithoutWal keeps every part of the safety invariant.
LEMMA CompleteRequestWithoutWalSafe ==
    ASSUME SafetyInv, NEW u \in Units, CompleteRequestWithoutWal(u)
    PROVE  SafetyInv'
<1>. USE PartsFacts DEF SafetyInv, CompleteRequestWithoutWal, Started, registryVars, historyVars, boundVars
<1>1. TypeInv'
  BY RegistryTyped, BoundsAssumption DEF TypeInv, Finished, Unresolved, Commands, AtLoop
<1>2. QueueInv'
  BY DEF TypeInv, QueueInv, AcksInv, AppendInv, Unresolved, Commands
<1>3. AcksInv' /\ TaskInv'
  BY DEF TypeInv, AcksInv, AppendInv, TaskInv, QueueInv, Finished
<1>4. AppendInv'
  BY DEF TypeInv, AcksInv, AppendInv, QueueInv, AtLoop
<1>5. PartsInv' /\ LostInv'
  BY DEF TypeInv, AcksInv, AppendInv, PartsInv, LostInv, QueueInv
<1>6. TakenInv'
  BY DEF TypeInv, AcksInv, AppendInv, PartsInv, TakenInv, TaskInv, Finished
<1>7. BatchesConserved'
  BY DEF TypeInv, AcksInv, AppendInv, PartsInv, TaskInv, QueueInv, BatchesConserved, Volatile, Appended
<1>8. AckedIsSettled'
  BY DEF TypeInv, AcksInv, AppendInv, PartsInv, TaskInv, TakenInv, AckedIsSettled, Volatile, QueueInv, Finished
<1>. QED BY <1>1, <1>2, <1>3, <1>4, <1>5, <1>6, <1>7, <1>8

\* FlushAndDrain keeps every part of the safety invariant.
LEMMA FlushAndDrainSafe ==
    ASSUME SafetyInv, NEW f \in Flushers, FlushAndDrain(f)
    PROVE  SafetyInv'
<1>. USE PartsFacts DEF SafetyInv, FlushAndDrain, FlushCommand, registryVars, historyVars, boundVars
<1>1. TypeInv'
  <2>1. queue' \in Seq(Commands) /\ Len(queue') <= Capacity
    BY CommandFacts, CapacityAssumption DEF TypeInv
  <2>. QED BY <2>1 DEF TypeInv
<1>2. QueueInv'
  BY DEF TypeInv, QueueInv, AcksInv, AppendInv, Unresolved, Commands
<1>3. AcksInv' /\ TaskInv'
  BY DEF TypeInv, AcksInv, AppendInv, TaskInv, QueueInv, Finished
<1>4. AppendInv'
  BY DEF TypeInv, AcksInv, AppendInv, QueueInv, AtLoop
<1>5. PartsInv' /\ LostInv'
  BY DEF TypeInv, AcksInv, AppendInv, PartsInv, LostInv, QueueInv
<1>6. TakenInv'
  BY DEF TypeInv, AcksInv, AppendInv, PartsInv, TakenInv, TaskInv, Finished
<1>7. BatchesConserved'
  BY DEF TypeInv, AcksInv, AppendInv, PartsInv, TaskInv, QueueInv, BatchesConserved, Volatile, Appended
<1>8. AckedIsSettled'
  BY DEF TypeInv, AcksInv, AppendInv, PartsInv, TaskInv, TakenInv, AckedIsSettled, Volatile, QueueInv, Finished
<1>. QED BY <1>1, <1>2, <1>3, <1>4, <1>5, <1>6, <1>7, <1>8

\* FlushTimeout keeps every part of the safety invariant.
LEMMA FlushTimeoutSafe ==
    ASSUME SafetyInv, NEW f \in Flushers, FlushTimeout(f)
    PROVE  SafetyInv'
<1>. USE PartsFacts DEF SafetyInv, FlushTimeout, registryVars, historyVars, boundVars
<1>1. TypeInv'
  BY RegistryTyped, BoundsAssumption DEF TypeInv, Finished, Unresolved, Commands, AtLoop
<1>2. QueueInv'
  BY DEF TypeInv, QueueInv, AcksInv, AppendInv, Unresolved, Commands
<1>3. AcksInv' /\ TaskInv'
  BY DEF TypeInv, AcksInv, AppendInv, TaskInv, QueueInv, Finished
<1>4. AppendInv'
  BY DEF TypeInv, AcksInv, AppendInv, QueueInv, AtLoop
<1>5. PartsInv' /\ LostInv'
  BY DEF TypeInv, AcksInv, AppendInv, PartsInv, LostInv, QueueInv
<1>6. TakenInv'
  BY DEF TypeInv, AcksInv, AppendInv, PartsInv, TakenInv, TaskInv, Finished
<1>7. BatchesConserved'
  BY DEF TypeInv, AcksInv, AppendInv, PartsInv, TaskInv, QueueInv, BatchesConserved, Volatile, Appended
<1>8. AckedIsSettled'
  BY DEF TypeInv, AcksInv, AppendInv, PartsInv, TaskInv, TakenInv, AckedIsSettled, Volatile, QueueInv, Finished
<1>. QED BY <1>1, <1>2, <1>3, <1>4, <1>5, <1>6, <1>7, <1>8

\* TakeLive keeps every part of the safety invariant.
LEMMA TakeLiveSafe ==
    ASSUME SafetyInv, TakeLive
    PROVE  SafetyInv'
<1>. USE PartsFacts DEF SafetyInv, TakeLive, registryVars, historyVars, boundVars
<1>1. TypeInv'
  BY RegistryTyped, BoundsAssumption DEF TypeInv, Finished, Unresolved, Commands, AtLoop
<1>2. QueueInv'
  BY DEF TypeInv, QueueInv, AcksInv, AppendInv, Unresolved, Commands
<1>3. AcksInv' /\ TaskInv'
  BY DEF TypeInv, AcksInv, AppendInv, TaskInv, QueueInv, Finished
<1>4. AppendInv'
  BY DEF TypeInv, AcksInv, AppendInv, QueueInv, AtLoop
<1>5. PartsInv' /\ LostInv'
  BY DEF TypeInv, AcksInv, AppendInv, PartsInv, LostInv, QueueInv
<1>6. TakenInv'
  BY DEF TypeInv, AcksInv, AppendInv, PartsInv, TakenInv, TaskInv, Finished
<1>7. BatchesConserved'
  BY DEF TypeInv, AcksInv, AppendInv, PartsInv, TaskInv, QueueInv, BatchesConserved, Volatile, Appended
<1>8. AckedIsSettled'
  BY DEF TypeInv, AcksInv, AppendInv, PartsInv, TaskInv, TakenInv, AckedIsSettled, Volatile, QueueInv, Finished
<1>. QED BY <1>1, <1>2, <1>3, <1>4, <1>5, <1>6, <1>7, <1>8

\* PersistCommits keeps every part of the safety invariant.
LEMMA PersistCommitsSafe ==
    ASSUME SafetyInv, PersistCommits
    PROVE  SafetyInv'
<1>. USE PartsFacts DEF SafetyInv, PersistCommits, registryVars, historyVars, boundVars
<1>1. TypeInv'
  BY RegistryTyped, BoundsAssumption DEF TypeInv, Finished, Unresolved, Commands, AtLoop
<1>2. QueueInv'
  BY DEF TypeInv, QueueInv, AcksInv, AppendInv, Unresolved, Commands
<1>3. AcksInv' /\ TaskInv'
  BY DEF TypeInv, AcksInv, AppendInv, TaskInv, QueueInv, Finished
<1>4. AppendInv'
  BY DEF TypeInv, AcksInv, AppendInv, QueueInv, AtLoop
<1>5. PartsInv' /\ LostInv'
  BY DEF TypeInv, AcksInv, AppendInv, PartsInv, LostInv, QueueInv
<1>6. TakenInv'
  BY DEF TypeInv, AcksInv, AppendInv, PartsInv, TakenInv, TaskInv, Finished
<1>7. BatchesConserved'
  BY DEF TypeInv, AcksInv, AppendInv, PartsInv, TaskInv, QueueInv, BatchesConserved, Volatile, Appended
<1>8. AckedIsSettled'
  BY DEF TypeInv, AcksInv, AppendInv, PartsInv, TaskInv, TakenInv, AckedIsSettled, Volatile, QueueInv, Finished
<1>. QED BY <1>1, <1>2, <1>3, <1>4, <1>5, <1>6, <1>7, <1>8

\* PersistFails keeps every part of the safety invariant.
LEMMA PersistFailsSafe ==
    ASSUME SafetyInv, PersistFails
    PROVE  SafetyInv'
<1>. USE PartsFacts DEF SafetyInv, PersistFails, registryVars, historyVars, boundVars
<1>1. TypeInv'
  <2>1. failures' \in 0..MaxFailures
    BY BoundsAssumption DEF TypeInv
  <2>. QED BY <2>1 DEF TypeInv, Finished
<1>2. QueueInv'
  BY DEF TypeInv, QueueInv, AcksInv, AppendInv, Unresolved, Commands
<1>3. AcksInv' /\ TaskInv'
  BY DEF TypeInv, AcksInv, AppendInv, TaskInv, QueueInv, Finished
<1>4. AppendInv'
  BY DEF TypeInv, AcksInv, AppendInv, QueueInv, AtLoop
<1>5. PartsInv' /\ LostInv'
  BY DEF TypeInv, AcksInv, AppendInv, PartsInv, LostInv, QueueInv
<1>6. TakenInv'
  BY DEF TypeInv, AcksInv, AppendInv, PartsInv, TakenInv, TaskInv, Finished
<1>7. BatchesConserved'
  BY DEF TypeInv, AcksInv, AppendInv, PartsInv, TaskInv, QueueInv, BatchesConserved, Volatile, Appended
<1>8. AckedIsSettled'
  BY DEF TypeInv, AcksInv, AppendInv, PartsInv, TaskInv, TakenInv, AckedIsSettled, Volatile, QueueInv, Finished
<1>. QED BY <1>1, <1>2, <1>3, <1>4, <1>5, <1>6, <1>7, <1>8

\* PersistFailsAfterCommit keeps every part of the safety invariant.
LEMMA PersistFailsAfterCommitSafe ==
    ASSUME SafetyInv, PersistFailsAfterCommit
    PROVE  SafetyInv'
<1>. USE PartsFacts DEF SafetyInv, PersistFailsAfterCommit, registryVars, historyVars, boundVars
<1>1. TypeInv'
  <2>1. failures' \in 0..MaxFailures
    BY BoundsAssumption DEF TypeInv
  <2>. QED BY <2>1 DEF TypeInv, Finished
<1>2. QueueInv'
  BY DEF TypeInv, QueueInv, AcksInv, AppendInv, Unresolved, Commands
<1>3. AcksInv' /\ TaskInv'
  BY DEF TypeInv, AcksInv, AppendInv, TaskInv, QueueInv, Finished
<1>4. AppendInv'
  BY DEF TypeInv, AcksInv, AppendInv, QueueInv, AtLoop
<1>5. PartsInv' /\ LostInv'
  BY DEF TypeInv, AcksInv, AppendInv, PartsInv, LostInv, QueueInv
<1>6. TakenInv'
  BY DEF TypeInv, AcksInv, AppendInv, PartsInv, TakenInv, TaskInv, Finished
<1>7. BatchesConserved'
  BY DEF TypeInv, AcksInv, AppendInv, PartsInv, TaskInv, QueueInv, BatchesConserved, Volatile, Appended
<1>8. AckedIsSettled'
  BY DEF TypeInv, AcksInv, AppendInv, PartsInv, TaskInv, TakenInv, AckedIsSettled, Volatile, QueueInv, Finished
<1>. QED BY <1>1, <1>2, <1>3, <1>4, <1>5, <1>6, <1>7, <1>8

\* PersistPanics keeps every part of the safety invariant.
LEMMA PersistPanicsSafe ==
    ASSUME SafetyInv, PersistPanics
    PROVE  SafetyInv'
<1>. USE PartsFacts DEF SafetyInv, PersistPanics, registryVars, historyVars, boundVars
<1>1. TypeInv'
  <2>1. panics' \in 0..MaxPanics
    BY BoundsAssumption DEF TypeInv
  <2>. QED BY <2>1 DEF TypeInv, Finished
<1>2. QueueInv'
  BY DEF TypeInv, QueueInv, AcksInv, AppendInv, Unresolved, Commands
<1>3. AcksInv' /\ TaskInv'
  BY DEF TypeInv, AcksInv, AppendInv, TaskInv, QueueInv, Finished
<1>4. AppendInv'
  BY DEF TypeInv, AcksInv, AppendInv, QueueInv, AtLoop
<1>5. PartsInv' /\ LostInv'
  BY DEF TypeInv, AcksInv, AppendInv, PartsInv, LostInv, QueueInv
<1>6. TakenInv'
  BY DEF TypeInv, AcksInv, AppendInv, PartsInv, TakenInv, TaskInv, Finished
<1>7. BatchesConserved'
  BY DEF TypeInv, AcksInv, AppendInv, PartsInv, TaskInv, QueueInv, BatchesConserved, Volatile, Appended
<1>8. AckedIsSettled'
  BY DEF TypeInv, AcksInv, AppendInv, PartsInv, TaskInv, TakenInv, AckedIsSettled, Volatile, QueueInv, Finished
<1>. QED BY <1>1, <1>2, <1>3, <1>4, <1>5, <1>6, <1>7, <1>8

\* JoinPersist keeps every part of the safety invariant.
LEMMA JoinPersistSafe ==
    ASSUME SafetyInv, JoinPersist
    PROVE  SafetyInv'
<1>. USE PartsFacts DEF SafetyInv, JoinPersist, ApplyPersistResult, TryStartPersist, Idle, registryVars, historyVars, boundVars
<1>1. TypeInv'
  BY RegistryTyped, BoundsAssumption DEF TypeInv, Finished, Unresolved, Commands, AtLoop
<1>2. QueueInv'
  BY DEF TypeInv, QueueInv, AcksInv, AppendInv, Unresolved, Commands
<1>3. AcksInv' /\ TaskInv'
  BY DEF TypeInv, AcksInv, AppendInv, TaskInv, QueueInv, Finished
<1>4. AppendInv'
  BY DEF TypeInv, AcksInv, AppendInv, QueueInv, AtLoop
<1>5. PartsInv' /\ LostInv'
  BY DEF TypeInv, AcksInv, AppendInv, PartsInv, LostInv, QueueInv
<1>6. TakenInv'
  BY DEF TypeInv, AcksInv, AppendInv, PartsInv, TakenInv, TaskInv, Finished
<1>7. BatchesConserved'
  <2>1. \A u \in Units : Appended(u)' \subseteq Appended(u)
    BY DEF TypeInv, AcksInv, Appended, Finished
  <2>2. Volatile' = Volatile
    BY DEF TaskInv, Volatile, Finished
  <2>3. live' \cap persist'.snap = {}
    BY DEF TaskInv
  <2>. QED BY <2>1, <2>2, <2>3 DEF BatchesConserved
<1>8. AckedIsSettled'
  BY DEF TypeInv, AcksInv, AppendInv, PartsInv, TaskInv, TakenInv, AckedIsSettled, Volatile, QueueInv, Finished
<1>. QED BY <1>1, <1>2, <1>3, <1>4, <1>5, <1>6, <1>7, <1>8

\* RecvSubmit keeps every part of the safety invariant.
LEMMA RecvSubmitSafe ==
    ASSUME SafetyInv, RecvSubmit
    PROVE  SafetyInv'
<1>. USE PartsFacts DEF SafetyInv, RecvSubmit, registryVars, historyVars, boundVars
<1>1. TypeInv'
  BY ChannelFacts, CommandFacts, CapacityAssumption DEF TypeInv, Unresolved
<1>2. QueueInv'
  <2>1. queue' = Tail(queue) /\ Len(queue') = Len(queue) - 1 /\ Len(queue) \in Nat
        /\ queue[1] = Head(queue)
    BY ChannelFacts
  <2>2. \A i \in 1..Len(queue') : i + 1 \in 1..Len(queue) /\ queue'[i] = queue[i + 1]
    BY <2>1, ChannelFacts

  <2>3. Head(queue).unit \in Units /\ 1 \in 1..Len(queue)
    BY <2>1, ChannelFacts, CommandFacts
  <2>4. \A i \in 1..Len(queue') : queue'[i].kind = "submit" =>
            queue'[i].unit # Head(queue).unit
    <3>. SUFFICES ASSUME NEW i \in 1..Len(queue'), queue'[i].kind = "submit",
                         queue'[i].unit = Head(queue).unit
                  PROVE  FALSE
      OBVIOUS
    <3>. i + 1 = 1
      BY <2>1, <2>2, <2>3 DEF QueueInv
    <3>. QED BY <2>1
  <2>5. \A i \in 1..Len(queue') : queue'[i].kind = "submit" =>
            unitState'[queue'[i].unit] = "queued"
    BY <2>2, <2>3, <2>4 DEF TypeInv, QueueInv
  <2>6. \A i, j \in 1..Len(queue') :
            queue'[i].kind = "submit" /\ queue'[j].kind = "submit"
                /\ queue'[j].unit = queue'[i].unit => i = j
    <3>. SUFFICES ASSUME NEW i \in 1..Len(queue'), NEW j \in 1..Len(queue'),
                         queue'[i].kind = "submit", queue'[j].kind = "submit",
                         queue'[j].unit = queue'[i].unit
                  PROVE  i = j
      OBVIOUS
    <3>. i + 1 = j + 1
      BY <2>2 DEF QueueInv
    <3>. QED BY <2>1
  <2>. QED BY <2>5, <2>6 DEF QueueInv
<1>3. AcksInv' /\ TaskInv'
  BY DEF TypeInv, AcksInv, AppendInv, TaskInv, QueueInv, Finished
<1>4. AppendInv'
  <2>1. Head(queue).unit \in Units
    BY ChannelFacts, CommandFacts
  <2>2. writer'.pc = "append" /\ writer'.unit = Head(queue).unit /\ writer'.done = 0
    OBVIOUS
  <2>3. NumBatches[Head(queue).unit] \in Nat
    BY <2>1, UnitsAssumption
  <2>4. \A u \in Units : unitState'[u] = "appending" <=> u = Head(queue).unit
    BY <2>1 DEF TypeInv, AppendInv, AtLoop
  <2>. QED BY <2>2, <2>3, <2>4 DEF AppendInv
<1>5. PartsInv' /\ LostInv'
  <2>1. unitState[Head(queue).unit] = "queued" /\ Head(queue).unit \in Units
    BY ChannelFacts, CommandFacts DEF QueueInv
  <2>2. \A p \in live \cup persist.snap \cup durable \cup lost :
            p[1] \in Units /\ unitState[p[1]] # "appending" /\ p[1] # Head(queue).unit
    <3>. TAKE p \in live \cup persist.snap \cup durable \cup lost
    <3>1. p[1] \in Units
      BY DEF TypeInv
    <3>2. unitState[p[1]] # "appending"
      BY <3>1 DEF AppendInv, AtLoop
    <3>. QED BY <2>1, <3>1, <3>2 DEF PartsInv
  <2>3. \A p \in live \cup persist.snap \cup durable \cup lost :
            unitState'[p[1]] = unitState[p[1]]
    BY <2>1, <2>2 DEF TypeInv
  <2>. QED BY <2>2, <2>3 DEF PartsInv, LostInv
<1>6. TakenInv'
  BY DEF TypeInv, AcksInv, AppendInv, PartsInv, TakenInv, TaskInv, Finished
<1>7. BatchesConserved'
  BY DEF TypeInv, AcksInv, AppendInv, PartsInv, TaskInv, QueueInv, BatchesConserved, Volatile, Appended
<1>8. AckedIsSettled'
  BY DEF TypeInv, AcksInv, AppendInv, PartsInv, TaskInv, TakenInv, AckedIsSettled, Volatile, QueueInv, Finished
<1>. QED BY <1>1, <1>2, <1>3, <1>4, <1>5, <1>6, <1>7, <1>8

\* AppendBatch keeps every part of the safety invariant.
LEMMA AppendBatchSafe ==
    ASSUME SafetyInv, AppendBatch
    PROVE  SafetyInv'
<1>. USE PartsFacts DEF SafetyInv, AppendBatch, registryVars, historyVars, boundVars
<1>1. TypeInv'
  <2>1. writer' \in [pc : {"append"}, unit : Units, done : Nat]
    BY WriterFacts
  <2>2. writer.unit \in Units /\ writer.done + 1 \in 1..NumBatches[writer.unit]
    BY WriterFacts, UnitsAssumption
  <2>3. <<writer.unit, writer.done + 1>> \in AllParts
    BY <2>2
  <2>. QED BY <2>1, <2>3 DEF TypeInv
<1>2. QueueInv'
  BY DEF TypeInv, QueueInv, AcksInv, AppendInv, Unresolved, Commands
<1>3. AcksInv' /\ TaskInv'
  BY DEF TypeInv, AcksInv, AppendInv, TaskInv, QueueInv, Finished
<1>4. AppendInv'
  BY WriterFacts, UnitsAssumption DEF AppendInv
<1>5. PartsInv' /\ LostInv'
  <2>1. writer'.done = writer.done + 1 /\ writer.done \in Nat
    BY WriterFacts
  <2>2. \A p \in live \cup persist.snap \cup durable \cup lost : p[2] \in Nat
    <3>. TAKE p \in live \cup persist.snap \cup durable \cup lost
    <3>1. p \in AllParts
      BY DEF TypeInv
    <3>2. p[1] \in Units /\ p[2] \in 1..NumBatches[p[1]]
      BY <3>1
    <3>. QED BY <3>2, UnitsAssumption
  <2>. QED BY <2>1, <2>2, WriterFacts DEF AppendInv, PartsInv, LostInv
<1>6. TakenInv'
  BY DEF TypeInv, AcksInv, AppendInv, PartsInv, TakenInv, TaskInv, Finished
<1>7. BatchesConserved'
  <2>. DEFINE new == <<writer.unit, writer.done + 1>>
  <2>1. writer.unit \in Units /\ writer.done \in Nat /\ NumBatches[writer.unit] \in Nat
    BY WriterFacts, UnitsAssumption
  <2>2. unitState[writer.unit] = "appending" /\ writer'.done = writer.done + 1
        /\ writer'.unit = writer.unit /\ writer'.pc = "append"
    BY <2>1, WriterFacts DEF AppendInv
  <2>3. new \notin live \cup persist.snap \cup durable \cup lost
    BY <2>1, <2>2 DEF PartsInv
  <2>4. \A u \in Units : Appended(u)' \subseteq Appended(u) \cup {new}
    <3>. TAKE u \in Units
    <3>1. CASE u # writer.unit
      BY <3>1, <2>1 DEF Appended, AppendInv
    <3>2. CASE u = writer.unit
      <4>. SUFFICES ASSUME NEW p \in PartsOf(u), p[2] <= writer.done + 1, p # new
                    PROVE  p[2] <= writer.done
        BY <2>2, <3>2 DEF Appended
      <4>. p[2] # writer.done + 1
        BY <3>2, <2>1
      <4>. QED BY <2>1, <3>2
    <3>. QED BY <3>1, <3>2
  <2>. QED BY <2>3, <2>4 DEF BatchesConserved, Volatile
<1>8. AckedIsSettled'
  BY DEF TypeInv, AcksInv, AppendInv, PartsInv, TaskInv, TakenInv, AckedIsSettled, Volatile, QueueInv, Finished
<1>. QED BY <1>1, <1>2, <1>3, <1>4, <1>5, <1>6, <1>7, <1>8

\* QueueSubmitted keeps every part of the safety invariant.
LEMMA QueueSubmittedSafe ==
    ASSUME SafetyInv, QueueSubmitted
    PROVE  SafetyInv'
<1>. USE PartsFacts DEF SafetyInv, QueueSubmitted, TryStartPersist, registryVars, historyVars, boundVars
<1>1. TypeInv'
  BY RegistryTyped, BoundsAssumption DEF TypeInv, Finished, Unresolved, Commands, AtLoop
<1>2. QueueInv'
  BY DEF TypeInv, QueueInv, AcksInv, AppendInv, Unresolved, Commands
<1>3. AcksInv' /\ TaskInv'
  <2>1. writer.unit \in Units /\ unitState[writer.unit] = "appending"
    BY WriterFacts DEF AppendInv
  <2>2. pending \subseteq Units /\ persist.acks \subseteq Units
        /\ writer.unit \notin pending \cup persist.acks
    BY <2>1 DEF TypeInv, AcksInv
  <2>3. \A u \in Units : unitState'[u] = IF u = writer.unit THEN "pending" ELSE unitState[u]
    BY DEF TypeInv
  <2>4. CASE UNCHANGED persist /\ pending' = pending \cup {writer.unit}
    BY <2>1, <2>2, <2>3, <2>4 DEF AcksInv, TaskInv
  <2>5. CASE /\ pending' = {}
             /\ persist' = [phase |-> "spawned", acks |-> pending \cup {writer.unit},
                            snap |-> {}]
    BY <2>1, <2>2, <2>3, <2>5 DEF AcksInv, TaskInv
  <2>. QED BY <2>4, <2>5
<1>4. AppendInv'
  BY DEF TypeInv, AcksInv, AppendInv, QueueInv, AtLoop
<1>5. PartsInv' /\ LostInv'
  BY DEF TypeInv, AcksInv, AppendInv, PartsInv, LostInv, QueueInv
<1>6. TakenInv'
  BY DEF TypeInv, AcksInv, AppendInv, PartsInv, TakenInv, TaskInv, Finished
<1>7. BatchesConserved'
  BY DEF TypeInv, AcksInv, AppendInv, PartsInv, TaskInv, QueueInv, BatchesConserved, Volatile, Appended
<1>8. AckedIsSettled'
  BY DEF TypeInv, AcksInv, AppendInv, PartsInv, TaskInv, TakenInv, AckedIsSettled, Volatile, QueueInv, Finished
<1>. QED BY <1>1, <1>2, <1>3, <1>4, <1>5, <1>6, <1>7, <1>8

\* AppendFails keeps every part of the safety invariant.
LEMMA AppendFailsSafe ==
    ASSUME SafetyInv, AppendFails
    PROVE  SafetyInv'
<1>. USE PartsFacts DEF SafetyInv, AppendFails, TryStartPersist, registryVars, historyVars, boundVars
<1>1. TypeInv'
  BY RegistryTyped, BoundsAssumption DEF TypeInv, Finished, Unresolved, Commands, AtLoop
<1>2. QueueInv'
  BY DEF TypeInv, QueueInv, AcksInv, AppendInv, Unresolved, Commands
<1>3. AcksInv' /\ TaskInv'
  BY DEF TypeInv, AcksInv, AppendInv, TaskInv, QueueInv, Finished
<1>4. AppendInv'
  BY DEF TypeInv, AcksInv, AppendInv, QueueInv, AtLoop
<1>5. PartsInv' /\ LostInv'
  BY DEF TypeInv, AcksInv, AppendInv, PartsInv, LostInv, QueueInv
<1>6. TakenInv'
  BY DEF TypeInv, AcksInv, AppendInv, PartsInv, TakenInv, TaskInv, Finished
<1>7. BatchesConserved'
  BY DEF TypeInv, AcksInv, AppendInv, PartsInv, TaskInv, QueueInv, BatchesConserved, Volatile, Appended
<1>8. AckedIsSettled'
  BY DEF TypeInv, AcksInv, AppendInv, PartsInv, TaskInv, TakenInv, AckedIsSettled, Volatile, QueueInv, Finished
<1>. QED BY <1>1, <1>2, <1>3, <1>4, <1>5, <1>6, <1>7, <1>8

\* RecvFlush keeps every part of the safety invariant.
LEMMA RecvFlushSafe ==
    ASSUME SafetyInv, RecvFlush
    PROVE  SafetyInv'
<1>. USE PartsFacts DEF SafetyInv, RecvFlush, registryVars, historyVars, boundVars
<1>1. TypeInv'
  BY ChannelFacts, CommandFacts, CapacityAssumption DEF TypeInv
<1>2. QueueInv'
  <2>1. queue' = Tail(queue) /\ Len(queue') = Len(queue) - 1 /\ Len(queue) \in Nat
        /\ queue[1] = Head(queue)
    BY ChannelFacts
  <2>2. \A i \in 1..Len(queue') : i + 1 \in 1..Len(queue) /\ queue'[i] = queue[i + 1]
    BY <2>1, ChannelFacts

  <2>3. \A i, j \in 1..Len(queue') :
            queue'[i].kind = "submit" /\ queue'[j].kind = "submit"
                /\ queue'[j].unit = queue'[i].unit => i = j
    <3>. SUFFICES ASSUME NEW i \in 1..Len(queue'), NEW j \in 1..Len(queue'),
                         queue'[i].kind = "submit", queue'[j].kind = "submit",
                         queue'[j].unit = queue'[i].unit
                  PROVE  i = j
      OBVIOUS
    <3>. i + 1 = j + 1
      BY <2>2 DEF QueueInv
    <3>. QED BY <2>1
  <2>. QED BY <2>2, <2>3 DEF QueueInv
<1>3. AcksInv' /\ TaskInv'
  BY DEF TypeInv, AcksInv, AppendInv, TaskInv, QueueInv, Finished
<1>4. AppendInv'
  BY DEF TypeInv, AcksInv, AppendInv, QueueInv, AtLoop
<1>5. PartsInv' /\ LostInv'
  BY DEF TypeInv, AppendInv, PartsInv, LostInv, AtLoop
<1>6. TakenInv'
  BY DEF TypeInv, AcksInv, AppendInv, PartsInv, TakenInv, TaskInv, Finished
<1>7. BatchesConserved'
  <2>1. \A u \in Units : Appended(u)' \subseteq Appended(u)
    BY DEF AppendInv, Appended, AtLoop
  <2>. QED BY <2>1 DEF BatchesConserved, Volatile
<1>8. AckedIsSettled'
  BY DEF TypeInv, AcksInv, AppendInv, PartsInv, TaskInv, TakenInv, AckedIsSettled, Volatile, QueueInv, Finished
<1>. QED BY <1>1, <1>2, <1>3, <1>4, <1>5, <1>6, <1>7, <1>8

\* FlushJoinsRunning keeps every part of the safety invariant.
LEMMA FlushJoinsRunningSafe ==
    ASSUME SafetyInv, FlushJoinsRunning
    PROVE  SafetyInv'
<1>. USE PartsFacts DEF SafetyInv, FlushJoinsRunning, JoinIfRunning, ApplyPersistResult, TryStartPersist, Idle, registryVars, historyVars, boundVars
<1>1. TypeInv'
  <2>1. writer' \in [pc : {"flush1", "flush2"}, caller : Flushers]
    BY WriterFacts
  <2>2. registry' \in [Requests -> Nat]
        /\ reqResult' \in [Requests -> {"unregistered", "waiting", "ok", "err"}]
    BY RegistryTyped DEF TypeInv
  <2>. QED BY <2>1, <2>2 DEF TypeInv, Finished, Unresolved
<1>2. QueueInv'
  BY DEF TypeInv, QueueInv, AcksInv, AppendInv, Unresolved, Commands
<1>3. AcksInv' /\ TaskInv'
  BY DEF TypeInv, AcksInv, AppendInv, TaskInv, QueueInv, Finished
<1>4. AppendInv'
  BY DEF TypeInv, AcksInv, AppendInv, QueueInv, AtLoop
<1>5. PartsInv' /\ LostInv'
  BY DEF TypeInv, AcksInv, AppendInv, PartsInv, LostInv, QueueInv
<1>6. TakenInv'
  BY DEF TypeInv, AcksInv, AppendInv, PartsInv, TakenInv, TaskInv, Finished
<1>7. BatchesConserved'
  <2>1. \A u \in Units : Appended(u)' \subseteq Appended(u)
    BY WriterFacts DEF TypeInv, AcksInv, AppendInv, Appended, Finished
  <2>2. Volatile' = Volatile
    BY DEF TaskInv, Volatile, Finished
  <2>3. live' \cap persist'.snap = {}
    BY DEF TaskInv
  <2>. QED BY <2>1, <2>2, <2>3 DEF BatchesConserved
<1>8. AckedIsSettled'
  BY DEF TypeInv, AcksInv, AppendInv, PartsInv, TaskInv, TakenInv, AckedIsSettled, Volatile, QueueInv, Finished
<1>. QED BY <1>1, <1>2, <1>3, <1>4, <1>5, <1>6, <1>7, <1>8

\* FlushReplies keeps every part of the safety invariant.
LEMMA FlushRepliesSafe ==
    ASSUME SafetyInv, FlushReplies
    PROVE  SafetyInv'
<1>. USE PartsFacts DEF SafetyInv, FlushReplies, JoinIfRunning, ApplyPersistResult, Idle, registryVars, historyVars, boundVars
<1>1. TypeInv'
  <2>1. flushState' \in [Flushers -> {"new", "queued", "serving", "ok", "refused"}]
    BY WriterFacts DEF TypeInv
  <2>2. registry' \in [Requests -> Nat]
        /\ reqResult' \in [Requests -> {"unregistered", "waiting", "ok", "err"}]
    BY RegistryTyped DEF TypeInv
  <2>3. unitState' \in [Units -> Unresolved \cup
                        {"new", "ok", "err", "refused", "empty", "dropped"}]
    BY DEF TypeInv, Finished
  <2>. QED BY <2>1, <2>2, <2>3 DEF TypeInv
<1>2. QueueInv'
  BY DEF TypeInv, QueueInv, AcksInv, AppendInv, Unresolved, Commands
<1>3. AcksInv' /\ TaskInv'
  BY DEF TypeInv, AcksInv, AppendInv, TaskInv, QueueInv, Finished
<1>4. AppendInv'
  BY DEF TypeInv, AcksInv, AppendInv, QueueInv, AtLoop
<1>5. PartsInv' /\ LostInv'
  BY DEF TypeInv, AcksInv, AppendInv, PartsInv, LostInv, QueueInv
<1>6. TakenInv'
  BY DEF TypeInv, AcksInv, AppendInv, PartsInv, TakenInv, TaskInv, Finished
<1>7. BatchesConserved'
  <2>1. \A u \in Units : Appended(u)' \subseteq Appended(u)
    BY WriterFacts DEF TypeInv, AcksInv, AppendInv, Appended, Finished, AtLoop
  <2>2. Volatile' = Volatile
    BY DEF TaskInv, Volatile, Finished
  <2>3. live' \cap persist'.snap = {}
    BY DEF TaskInv
  <2>. QED BY <2>1, <2>2, <2>3 DEF BatchesConserved
<1>8. AckedIsSettled'
  BY DEF TypeInv, AcksInv, AppendInv, PartsInv, TaskInv, TakenInv, AckedIsSettled, Volatile, QueueInv, Finished
<1>. QED BY <1>1, <1>2, <1>3, <1>4, <1>5, <1>6, <1>7, <1>8

-----------------------------------------------------------------------------
(* The pending counter.                                                    *)

\* The counted units are finitely many, before and after a step.
LEMMA CountedFinite == IsFiniteSet(Counted) /\ IsFiniteSet(Counted')
<1>. Counted \subseteq Units /\ Counted' \subseteq Units
  BY DEF Counted
<1>. QED BY UnitsAssumption, FS_Subset

\* Answering the acks of a persist takes exactly them off the counter.
LEMMA AnsweredCount ==
    ASSUME SafetyInv, CountInv, ApplyPersistResult
    PROVE  CountInv'
<1>1. persist.acks \subseteq Counted
  BY DEF SafetyInv, TypeInv, AcksInv, Counted
<1>2. CASE persist.phase \in {"ok", "err"}
  <2>1. Counted' = Counted \ persist.acks
    BY <1>2 DEF ApplyPersistResult, SafetyInv, TypeInv, Counted
  <2>2. Cardinality(Counted \ persist.acks)
            = Cardinality(Counted) - Cardinality(Counted \cap persist.acks)
    BY CountedFinite, FS_Difference
  <2>3. Counted \cap persist.acks = persist.acks
    BY <1>1
  <2>. QED BY <1>2, <2>1, <2>2, <2>3 DEF CountInv, ApplyPersistResult
<1>3. CASE persist.phase \notin {"ok", "err"}
  <2>1. Counted' = Counted
    BY <1>1, <1>3 DEF ApplyPersistResult, SafetyInv, TypeInv, Counted
  <2>. QED BY <1>3, <2>1 DEF CountInv, ApplyPersistResult
<1>. QED BY <1>2, <1>3

\* Every step keeps WAL_WRITER_PENDING_COUNT exact.
LEMMA CountStep == IInv /\ [Next]_vars => CountInv'
<1>. SUFFICES ASSUME IInv, [Next]_vars PROVE CountInv'
  OBVIOUS
<1>. USE DEF IInv
<1>1. CASE Callers \/ UNCHANGED vars
  <2>1. Counted' = Counted /\ count' = count
    BY <1>1 DEF Callers, RegisterRequestAck, Submit, FailRequest, Started,
                CompleteRequestWithoutWal, FlushAndDrain, FlushTimeout, Counted,
                SafetyInv, TypeInv, vars
  <2>. QED BY <2>1 DEF CountInv
<1>2. CASE PersistTask
  BY <1>2 DEF PersistTask, TakeLive, PersistCommits, PersistFails,
              PersistFailsAfterCommit, PersistPanics, CountInv, Counted
<1>3. CASE JoinPersist
  BY <1>3, AnsweredCount DEF JoinPersist
<1>4. CASE RecvSubmit
  <2>1. Head(queue).unit \in Units /\ unitState[Head(queue).unit] = "queued"
    BY <1>4, ChannelFacts, CommandFacts DEF RecvSubmit, SafetyInv, QueueInv
  <2>2. Counted' = Counted \cup {Head(queue).unit} /\ Head(queue).unit \notin Counted
    BY <1>4, <2>1 DEF RecvSubmit, SafetyInv, TypeInv, Counted
  <2>3. Cardinality(Counted') = Cardinality(Counted) + 1
    BY <2>2, CountedFinite, FS_AddElement
  <2>. QED BY <1>4, <2>3 DEF RecvSubmit, CountInv
<1>5. CASE AppendBatch
  BY <1>5 DEF AppendBatch, CountInv, Counted
<1>6. CASE QueueSubmitted
  <2>1. Counted' = Counted
    BY <1>6, WriterFacts DEF QueueSubmitted, SafetyInv, TypeInv, AppendInv, Counted
  <2>. QED BY <1>6, <2>1 DEF QueueSubmitted, CountInv
<1>7. CASE AppendFails
  <2>1. writer.unit \in Counted /\ Counted' = Counted \ {writer.unit}
    BY <1>7, WriterFacts DEF AppendFails, SafetyInv, TypeInv, AppendInv, Counted
  <2>2. Cardinality(Counted') = Cardinality(Counted) - 1
    BY <2>1, CountedFinite, FS_RemoveElement
  <2>. QED BY <1>7, <2>2 DEF AppendFails, CountInv
<1>8. CASE RecvFlush
  BY <1>8 DEF RecvFlush, CountInv, Counted
<1>9. CASE FlushJoinsRunning \/ FlushReplies
  <2>1. CASE UNCHANGED <<unitState, count>>
    BY <2>1 DEF CountInv, Counted
  <2>2. CASE ApplyPersistResult
    BY <2>2, AnsweredCount
  <2>. QED BY <1>9, <2>1, <2>2 DEF FlushJoinsRunning, FlushReplies, JoinIfRunning
<1>. QED BY <1>1, <1>2, <1>3, <1>4, <1>5, <1>6, <1>7, <1>8, <1>9 DEF Next, WriterTask

-----------------------------------------------------------------------------
(* The theorem.                                                            *)

\* Every step keeps the safety invariant.
LEMMA SafetyStep == SafetyInv /\ [Next]_vars => SafetyInv'
<1>. SUFFICES ASSUME SafetyInv, [Next]_vars PROVE SafetyInv'
  OBVIOUS
<1>1. CASE Callers
  BY <1>1, RegisterRequestAckSafe, SubmitSafe, FailRequestSafe,
     CompleteRequestWithoutWalSafe, FlushAndDrainSafe, FlushTimeoutSafe DEF Callers
<1>2. CASE PersistTask
  BY <1>2, TakeLiveSafe, PersistCommitsSafe, PersistFailsSafe,
     PersistFailsAfterCommitSafe, PersistPanicsSafe DEF PersistTask
<1>3. CASE WriterTask
  BY <1>3, JoinPersistSafe, RecvSubmitSafe, AppendBatchSafe, QueueSubmittedSafe,
     AppendFailsSafe, RecvFlushSafe, FlushJoinsRunningSafe, FlushRepliesSafe
     DEF WriterTask
<1>4. CASE UNCHANGED vars
  BY <1>4 DEF vars, SafetyInv, TypeInv, QueueInv, AcksInv, AppendInv, TaskInv,
              PartsInv, TakenInv, LostInv, BatchesConserved, AckedIsSettled,
              Volatile, Appended
<1>. QED BY <1>1, <1>2, <1>3, <1>4 DEF Next

\* What the invariant gives: the type, and the three promises of the writer.
LEMMA InvImplies ==
    IInv => TypeOK /\ BatchesConserved /\ AckedIsSettled /\ AckedIsDurableWithoutFailure
<1>. SUFFICES ASSUME IInv
              PROVE  TypeOK /\ BatchesConserved /\ AckedIsSettled
                        /\ AckedIsDurableWithoutFailure
  OBVIOUS
<1>1. count \in Nat
  BY CountedFinite, FS_CardinalityType DEF IInv, CountInv
<1>2. TypeOK
  BY <1>1 DEF IInv, SafetyInv, TypeInv, TypeOK
<1>3. AckedIsDurableWithoutFailure
  BY DEF IInv, SafetyInv, LostInv, BatchesConserved, AckedIsSettled,
         AckedIsDurableWithoutFailure, Appended, Volatile
<1>. QED BY <1>2, <1>3 DEF IInv, SafetyInv

\* The WAL writer never forgets or duplicates a batch, answers a unit Ok only
\* when none of its batches is still in memory, and - as long as no persist
\* has failed - only when all of them are committed: for any number of units,
\* batches and flushes and any interleaving of writer and persist task.
THEOREM WriterSafety ==
    Spec => [](TypeOK /\ BatchesConserved /\ AckedIsSettled
                /\ AckedIsDurableWithoutFailure)
<1>1. Init => IInv
  BY InitHolds
<1>2. IInv /\ [Next]_vars => IInv'
  BY SafetyStep, CountStep DEF IInv
<1>. QED BY <1>1, <1>2, InvImplies, PTL DEF Spec

-----------------------------------------------------------------------------
(* What a flush, an idle writer and an answered request promise.           *)

\* A persist can be started whenever the writer has something to do: it has
\* the offsets database from the first command on, and gives it up only with
\* nothing pending.
OffsetsInv ==
    /\ writer.pc # "loop" => offsets
    /\ pending # {} => offsets
    /\ writer.pc = "flush2" => pending = {}
    /\ PendingHasPersist

\* A unit that is neither new nor answered is where its state says.
WhereInv ==
    /\ \A u \in Units : unitState[u] = "queued" =>
            \E j \in 1..Len(queue) : queue[j] = SubmitCommand(u)
    /\ \A u \in Units : unitState[u] = "pending" => u \in pending \cup persist.acks

\* The channel holds a flush command once, behind every unit it covers.
BehindInv ==
    /\ \A f \in Flushers : \A u \in covered[f] : unitState[u] # "new"
    /\ \A i \in 1..Len(queue) : queue[i].kind = "flush" =>
        /\ flushState[queue[i].caller] = "queued"
        /\ \A j \in 1..Len(queue) :
                queue[j].kind = "flush" /\ queue[j].caller = queue[i].caller => i = j
        /\ \A u \in covered[queue[i].caller] : unitState[u] = "queued" =>
                \E j \in 1..Len(queue) : j < i /\ queue[j] = SubmitCommand(u)

\* While a flush is served every unit it covers has been appended, and its
\* second persist takes the whole live segment.
ServingInv ==
    /\ writer.pc \in {"flush1", "flush2"} =>
        /\ flushState[writer.caller] = "serving"
        /\ \A u \in covered[writer.caller] :
                unitState[u] \notin {"new", "queued", "appending"}
    /\ writer.pc = "flush2" /\ panics = 0 /\ persist.phase # "spawned" => live = {}

\* The units of a request that have not succeeded.
Left(r) == {u \in UnitsOf(r) : unitState[u] \notin {"ok", "empty"}}

\* REQUEST_ACKS counts exactly the units of a request that have not succeeded.
RegistryInv ==
    \A r \in Requests :
        /\ registry[r] > 0 => registry[r] = Cardinality(Left(r))
        /\ reqResult[r] = "ok" => Left(r) = {}
        /\ reqResult[r] = "unregistered" =>
                registry[r] = 0 /\ \A u \in UnitsOf(r) : unitState[u] = "new"

DrainInv ==
    /\ OffsetsInv
    /\ WhereInv
    /\ BehindInv
    /\ ServingInv
    /\ FlushDrainsCovered
    /\ RegistryInv

-----------------------------------------------------------------------------
(* The persist the writer owes what is pending.                            *)

\* TryStartPersist leaves nothing pending without a task, given the offsets.
LEMMA StartedOrRunning ==
    ASSUME NEW alive, NEW acks, NEW task, offsets, offsets \in BOOLEAN,
           TryStartPersist(alive, acks, offsets, task)
    PROVE  /\ pending' # {} => persist'.phase # "none"
           /\ task.phase = "none" => pending' = {}
BY DEF TryStartPersist

\* A step that leaves writer and persist alone, or moves the task on.
LEMMA OffsetsStep ==
    ASSUME SafetyInv, OffsetsInv, [Next]_vars
    PROVE  OffsetsInv'
<1>. USE DEF SafetyInv, OffsetsInv, PendingHasPersist, AtLoop
<1>1. CASE Callers \/ UNCHANGED vars
  BY <1>1 DEF Callers, RegisterRequestAck, Submit, FailRequest,
              CompleteRequestWithoutWal, FlushAndDrain, FlushTimeout, vars
<1>2. CASE PersistTask
  BY <1>2 DEF PersistTask, TakeLive, PersistCommits, PersistFails,
              PersistFailsAfterCommit, PersistPanics, TypeInv
<1>3. CASE JoinPersist
  <2>1. CASE offsets
    BY <1>3, <2>1, StartedOrRunning DEF JoinPersist, TypeInv, Idle
  <2>2. CASE ~offsets
    BY <1>3, <2>2 DEF JoinPersist, TryStartPersist
  <2>. QED BY <2>1, <2>2
<1>4. CASE RecvSubmit
  BY <1>4 DEF RecvSubmit
<1>5. CASE AppendBatch
  BY <1>5, WriterFacts DEF AppendBatch
<1>6. CASE QueueSubmitted
  BY <1>6, StartedOrRunning DEF QueueSubmitted, TypeInv
<1>7. CASE AppendFails
  BY <1>7, StartedOrRunning DEF AppendFails, TypeInv
<1>8. CASE RecvFlush
  BY <1>8 DEF RecvFlush
<1>9. CASE FlushJoinsRunning
  <2>1. writer'.pc = "flush2" /\ offsets' = offsets /\ offsets
    BY <1>9, WriterFacts DEF FlushJoinsRunning
  <2>2. pending' = {}
    <3>1. TryStartPersist(live, pending, offsets, Idle) /\ Idle.phase = "none"
      BY <1>9 DEF FlushJoinsRunning, Idle
    <3>. QED BY <2>1, <3>1 DEF TryStartPersist
  <2>. QED BY <2>1, <2>2
<1>10. CASE FlushReplies
  BY <1>10 DEF FlushReplies
<1>. QED BY <1>1, <1>2, <1>3, <1>4, <1>5, <1>6, <1>7, <1>8, <1>9, <1>10
         DEF Next, WriterTask

-----------------------------------------------------------------------------
(* Where units are, and where flush commands are behind them.              *)

\* A join answers the acks of the task and no other unit.
LEMMA Joined ==
    ASSUME SafetyInv, JoinPersist \/ FlushJoinsRunning \/ FlushReplies
    PROVE  \A u \in Units :
              /\ u \in persist.acks =>
                    unitState[u] = "pending" /\ unitState'[u] \in {"ok", "err", "dropped"}
              /\ u \notin persist.acks => unitState'[u] = unitState[u]
<1>1. ApplyPersistResult \/ (persist.phase = "none" /\ UNCHANGED unitState)
  BY DEF JoinPersist, FlushJoinsRunning, FlushReplies, JoinIfRunning
<1>2. persist.phase = "none" => persist.acks = {}
  BY DEF SafetyInv, TaskInv
<1>. QED BY <1>1, <1>2 DEF ApplyPersistResult, SafetyInv, AcksInv, TypeInv

\* How a unit's state may move.
LEMMA UnitMoves ==
    ASSUME SafetyInv, [Next]_vars
    PROVE  \A u \in Units :
              /\ unitState'[u] = "new" => unitState[u] = "new"
              /\ unitState'[u] = "queued" /\ unitState[u] # "queued" =>
                    unitState[u] = "new" /\ Submit(u)
              /\ unitState'[u] = "appending" /\ unitState[u] # "appending" =>
                    unitState[u] = "queued" /\ RecvSubmit
              /\ unitState'[u] = "pending" /\ unitState[u] # "pending" =>
                    QueueSubmitted /\ u = writer.unit
              /\ unitState[u] \notin Unresolved \cup {"new"} =>
                    unitState'[u] = unitState[u]
<1>. USE DEF SafetyInv, Unresolved
<1>. TAKE u \in Units
<1>1. CASE UNCHANGED unitState
  BY <1>1
<1>2. CASE JoinPersist \/ FlushJoinsRunning \/ FlushReplies
  BY <1>2, Joined
<1>3. ASSUME NEW v \in Units, Submit(v)
      PROVE  unitState[v] = "new" /\ unitState' = [unitState EXCEPT ![v] = "queued"]
  BY <1>3 DEF Submit, Started
<1>4. ASSUME NEW v \in Units, FailRequest(v) \/ CompleteRequestWithoutWal(v)
      PROVE  /\ unitState[v] = "new"
             /\ \/ unitState' = [unitState EXCEPT ![v] = "refused"]
                \/ unitState' = [unitState EXCEPT ![v] = "empty"]
  BY <1>4 DEF FailRequest, CompleteRequestWithoutWal, Started
<1>5. CASE RecvSubmit
  <2>1. Head(queue).unit \in Units /\ unitState[Head(queue).unit] = "queued"
    BY <1>5, ChannelFacts, CommandFacts DEF RecvSubmit, QueueInv
  <2>. QED BY <1>5, <2>1 DEF RecvSubmit, TypeInv
<1>6. CASE QueueSubmitted \/ AppendFails
  <2>1. writer.unit \in Units /\ unitState[writer.unit] = "appending"
    BY <1>6, WriterFacts DEF QueueSubmitted, AppendFails, AppendInv
  <2>. QED BY <1>6, <2>1 DEF QueueSubmitted, AppendFails, TypeInv
<1>7. CASE Callers
  <2>1. CASE \E v \in Units : Submit(v)
    BY <2>1, <1>3 DEF TypeInv
  <2>2. CASE \E v \in Units : FailRequest(v) \/ CompleteRequestWithoutWal(v)
    BY <2>2, <1>4 DEF TypeInv
  <2>. QED BY <1>1, <1>7, <2>1, <2>2
           DEF Callers, RegisterRequestAck, FlushAndDrain, FlushTimeout
<1>8. CASE PersistTask \/ AppendBatch \/ RecvFlush \/ UNCHANGED vars
  BY <1>1, <1>8 DEF PersistTask, TakeLive, PersistCommits, PersistFails,
     PersistFailsAfterCommit, PersistPanics, AppendBatch, RecvFlush, vars
<1>. QED BY <1>2, <1>5, <1>6, <1>7, <1>8 DEF Next, WriterTask

\* What leaves the queue alone.
LEMMA QueueMoves ==
    ASSUME [Next]_vars
    PROVE  \/ queue' = queue
           \/ \E u \in Units : Submit(u)
           \/ \E f \in Flushers : FlushAndDrain(f)
           \/ RecvSubmit
           \/ RecvFlush
BY DEF Next, Callers, RegisterRequestAck, Submit, FailRequest,
       CompleteRequestWithoutWal, FlushAndDrain, FlushTimeout, PersistTask,
       TakeLive, PersistCommits, PersistFails, PersistFailsAfterCommit,
       PersistPanics, WriterTask, JoinPersist, AppendBatch, QueueSubmitted,
       AppendFails, FlushJoinsRunning, FlushReplies, vars

\* Sending a command leaves those before it where they are.
LEMMA Sent ==
    ASSUME TypeInv, NEW c \in Commands, queue' = Append(queue, c)
    PROVE  /\ Len(queue) \in Nat
           /\ Len(queue') = Len(queue) + 1
           /\ \A i \in 1..Len(queue) : i \in 1..Len(queue') /\ queue'[i] = queue[i]
           /\ queue'[Len(queue) + 1] = c
           /\ \A i \in 1..Len(queue') : i \in 1..Len(queue) \/ i = Len(queue) + 1
BY DEF TypeInv

\* Receiving a command moves the others up by one.
LEMMA Received ==
    ASSUME TypeInv, queue # <<>>, queue' = Tail(queue)
    PROVE  /\ Len(queue) \in Nat
           /\ Len(queue') = Len(queue) - 1
           /\ queue[1] = Head(queue) /\ 1 \in 1..Len(queue)
           /\ \A i \in 1..Len(queue') : i + 1 \in 1..Len(queue) /\ queue'[i] = queue[i + 1]
           /\ \A i \in 1..Len(queue) : i # 1 =>
                    i - 1 \in 1..Len(queue') /\ queue'[i - 1] = queue[i]
BY DEF TypeInv

\* Every step keeps what is known of where a unit is.
LEMMA WhereStep ==
    ASSUME SafetyInv, WhereInv, [Next]_vars
    PROVE  WhereInv'
<1>. USE DEF SafetyInv
<1>1. ASSUME NEW u \in Units, unitState'[u] = "queued"
      PROVE  \E j \in 1..Len(queue') : queue'[j] = SubmitCommand(u)
  <2>1. CASE unitState[u] # "queued"
    <3>1. queue' = Append(queue, SubmitCommand(u))
      BY <1>1, <2>1, UnitMoves DEF Submit
    <3>. QED BY <3>1, Sent, CommandFacts
  <2>2. CASE unitState[u] = "queued"
    <3>1. PICK j \in 1..Len(queue) : queue[j] = SubmitCommand(u)
      BY <2>2 DEF WhereInv
    <3>2. CASE queue' = queue
      BY <3>1, <3>2
    <3>3. ASSUME NEW c \in Commands, queue' = Append(queue, c)
          PROVE  \E i \in 1..Len(queue') : queue'[i] = SubmitCommand(u)
      BY <3>1, <3>3, Sent
    <3>4. CASE RecvSubmit \/ RecvFlush
      <4>1. j # 1
        <5>1. CASE RecvFlush
          BY <3>1, <5>1, Received DEF RecvFlush, SubmitCommand
        <5>2. CASE RecvSubmit
          <6>1. j = 1 => unitState'[u] = "appending"
            BY <3>1, <5>2, Received DEF RecvSubmit, SubmitCommand, TypeInv
          <6>. QED BY <1>1, <6>1
        <5>. QED BY <3>4, <5>1, <5>2
      <4>. QED BY <3>1, <3>4, <4>1, Received DEF RecvSubmit, RecvFlush
    <3>. QED BY <3>2, <3>3, <3>4, QueueMoves, CommandFacts
             DEF Submit, FlushAndDrain
  <2>. QED BY <2>1, <2>2
<1>2. ASSUME NEW u \in Units, unitState'[u] = "pending"
      PROVE  u \in pending' \cup persist'.acks
  <2>1. CASE QueueSubmitted
    BY <1>2, <2>1, UnitMoves DEF QueueSubmitted, TryStartPersist, WhereInv, TaskInv
  <2>2. CASE ~QueueSubmitted
    <3>1. u \in pending \cup persist.acks
      BY <1>2, <2>2, UnitMoves DEF WhereInv
    <3>2. CASE JoinPersist \/ FlushJoinsRunning \/ FlushReplies
      <4>1. u \in pending
        BY <1>2, <3>1, <3>2, Joined
      <4>. QED BY <3>2, <4>1 DEF JoinPersist, FlushJoinsRunning, FlushReplies,
                                 TryStartPersist
    <3>3. CASE AppendFails
      BY <3>1, <3>3 DEF AppendFails, TryStartPersist, TaskInv
    <3>4. CASE PersistTask
      BY <3>1, <3>4 DEF PersistTask, TakeLive, PersistCommits, PersistFails,
         PersistFailsAfterCommit, PersistPanics, TypeInv
    <3>5. CASE Callers \/ RecvSubmit \/ AppendBatch \/ RecvFlush \/ UNCHANGED vars
      BY <3>1, <3>5 DEF Callers, RegisterRequestAck, Submit, FailRequest,
         CompleteRequestWithoutWal, FlushAndDrain, FlushTimeout, RecvSubmit,
         AppendBatch, RecvFlush, vars
    <3>. QED BY <2>2, <3>2, <3>3, <3>4, <3>5 DEF Next, WriterTask
  <2>. QED BY <2>1, <2>2
<1>. QED BY <1>1, <1>2 DEF WhereInv

\* How a flush command moves, and that it covers what it was sent behind.
LEMMA FlushMoves ==
    ASSUME SafetyInv, ServingInv, [Next]_vars
    PROVE  \A f \in Flushers :
              /\ flushState[f] = "queued" /\ flushState'[f] # "queued" =>
                    RecvFlush /\ f = Head(queue).caller
              /\ flushState[f] = "serving" /\ flushState'[f] # "serving" =>
                    FlushReplies
              /\ flushState'[f] = "ok" /\ flushState[f] # "ok" =>
                    FlushReplies /\ f = writer.caller
              /\ covered'[f] # covered[f] => FlushAndDrain(f)
              /\ flushState[f] # "new" => covered'[f] = covered[f]
<1>. USE DEF SafetyInv, TypeInv
<1>. TAKE f \in Flushers
<1>1. CASE UNCHANGED <<flushState, covered>>
  BY <1>1
<1>2. CASE \E g \in Flushers : FlushAndDrain(g) \/ FlushTimeout(g)
  BY <1>2 DEF FlushAndDrain, FlushTimeout
<1>3. CASE RecvFlush
  <2>1. Head(queue).caller \in Flushers
    BY <1>3, ChannelFacts, CommandFacts DEF RecvFlush
  <2>2. CASE f = Head(queue).caller
    BY <1>3, <2>1, <2>2 DEF RecvFlush
  <2>3. CASE f # Head(queue).caller
    BY <1>3, <2>1, <2>3 DEF RecvFlush
  <2>. QED BY <2>2, <2>3
<1>4. CASE FlushReplies
  <2>1. writer.caller \in Flushers /\ flushState[writer.caller] = "serving"
    BY <1>4, WriterFacts DEF FlushReplies, ServingInv
  <2>. QED BY <1>4, <2>1 DEF FlushReplies
<1>5. CASE Callers
  BY <1>1, <1>2, <1>5 DEF Callers, RegisterRequestAck, Submit, FailRequest,
     CompleteRequestWithoutWal
<1>6. CASE PersistTask
  BY <1>1, <1>6 DEF PersistTask, TakeLive, PersistCommits, PersistFails,
     PersistFailsAfterCommit, PersistPanics
<1>. QED BY <1>1, <1>3, <1>4, <1>5, <1>6 DEF Next, WriterTask, JoinPersist,
         RecvSubmit, AppendBatch, QueueSubmitted, AppendFails, FlushJoinsRunning, vars

\* Every step keeps each flush command behind the units it covers.
LEMMA BehindStep ==
    ASSUME SafetyInv, WhereInv, BehindInv, ServingInv, [Next]_vars
    PROVE  BehindInv'
<1>. USE DEF SafetyInv
<1>1. ASSUME NEW f \in Flushers, NEW u \in covered'[f]
      PROVE  u \in Units /\ unitState'[u] # "new"
  <2>1. CASE covered'[f] = covered[f]
    BY <1>1, <2>1, UnitMoves DEF BehindInv, TypeInv
  <2>2. CASE covered'[f] # covered[f]
    <3>1. FlushAndDrain(f)
      BY <2>2, FlushMoves
    <3>. QED BY <1>1, <3>1 DEF FlushAndDrain, TypeInv
  <2>. QED BY <2>1, <2>2
<1>2. \A i \in 1..Len(queue) : queue[i].kind = "flush" => queue[i].caller \in Flushers
  BY CommandFacts DEF TypeInv
\* A command at i that was at k before, the units before it moved with it.
<1>3. ASSUME NEW i \in 1..Len(queue'), NEW k \in 1..Len(queue),
             queue'[i] = queue[k], queue[k].kind = "flush",
             ~(RecvFlush /\ k = 1),
             \A j \in 1..Len(queue) :
                j < k /\ queue[j].kind = "submit" /\ ~(RecvSubmit /\ j = 1) =>
                    \E m \in 1..Len(queue') : m < i /\ queue'[m] = queue[j]
      PROVE  /\ flushState'[queue'[i].caller] = "queued"
             /\ \A u \in covered'[queue'[i].caller] : unitState'[u] = "queued" =>
                    \E j \in 1..Len(queue') : j < i /\ queue'[j] = SubmitCommand(u)
  <2>. DEFINE f == queue[k].caller
  <2>1. f \in Flushers /\ flushState[f] = "queued"
    BY <1>2, <1>3 DEF BehindInv
  <2>2. flushState'[f] = "queued"
    <3>. SUFFICES ASSUME flushState'[f] # "queued" PROVE FALSE
      OBVIOUS
    <3>1. RecvFlush /\ f = Head(queue).caller
      BY <2>1, FlushMoves
    <3>2. queue[1].kind = "flush" /\ queue[1].caller = f /\ 1 \in 1..Len(queue)
      BY <3>1, Received DEF RecvFlush
    <3>3. k = 1
      BY <1>3, <3>2 DEF BehindInv
    <3>. QED BY <1>3, <3>1, <3>3
  <2>3. covered'[f] = covered[f]
    BY <2>1, FlushMoves
  <2>4. ASSUME NEW u \in covered[f], unitState'[u] = "queued"
        PROVE  \E j \in 1..Len(queue') : j < i /\ queue'[j] = SubmitCommand(u)
    <3>1. u \in Units /\ unitState[u] # "new"
      BY <2>1, <2>4 DEF BehindInv, TypeInv
    <3>2. unitState[u] = "queued"
      BY <2>4, <3>1, UnitMoves
    <3>3. PICK j \in 1..Len(queue) : j < k /\ queue[j] = SubmitCommand(u)
      BY <1>3, <2>4, <3>2 DEF BehindInv
    <3>4. ~(RecvSubmit /\ j = 1)
      <4>. SUFFICES ASSUME RecvSubmit, j = 1 PROVE FALSE
        OBVIOUS
      <4>1. Head(queue).unit = u
        BY <3>3, Received DEF RecvSubmit, SubmitCommand
      <4>2. unitState'[u] = "appending"
        BY <3>1, <4>1 DEF RecvSubmit, TypeInv
      <4>. QED BY <2>4, <4>2
    <3>. QED BY <1>3, <3>3, <3>4 DEF SubmitCommand
  <2>. QED BY <1>3, <2>2, <2>3, <2>4
<1>4. CASE queue' = queue /\ ~RecvFlush /\ ~RecvSubmit
  <2>1. ASSUME NEW i \in 1..Len(queue'), queue'[i].kind = "flush"
        PROVE  /\ flushState'[queue'[i].caller] = "queued"
               /\ \A u \in covered'[queue'[i].caller] : unitState'[u] = "queued" =>
                    \E j \in 1..Len(queue') : j < i /\ queue'[j] = SubmitCommand(u)
    BY <1>3, <1>4, <2>1
  <2>. QED BY <1>1, <1>4, <2>1 DEF BehindInv
<1>5. ASSUME NEW v \in Units, Submit(v)
      PROVE  BehindInv'
  <2>1. queue' = Append(queue, SubmitCommand(v)) /\ SubmitCommand(v) \in Commands
        /\ SubmitCommand(v).kind = "submit"
    BY <1>5, CommandFacts DEF Submit, SubmitCommand
  <2>2. ~RecvFlush /\ ~RecvSubmit
    BY <1>5, <2>1, Sent, Received DEF RecvFlush, RecvSubmit
  <2>3. ASSUME NEW i \in 1..Len(queue'), queue'[i].kind = "flush"
        PROVE  /\ i \in 1..Len(queue) /\ queue'[i] = queue[i]
               /\ flushState'[queue'[i].caller] = "queued"
               /\ \A u \in covered'[queue'[i].caller] : unitState'[u] = "queued" =>
                    \E j \in 1..Len(queue') : j < i /\ queue'[j] = SubmitCommand(u)
    <3>1. i \in 1..Len(queue) /\ queue'[i] = queue[i]
      BY <2>1, <2>3, Sent
    <3>2. \A j \in 1..Len(queue) : j \in 1..Len(queue') /\ queue'[j] = queue[j]
      BY <2>1, Sent
    <3>. QED BY <1>3, <2>2, <2>3, <3>1, <3>2
  <2>. QED BY <1>1, <2>3 DEF BehindInv
<1>6. ASSUME NEW g \in Flushers, FlushAndDrain(g)
      PROVE  BehindInv'
  <2>. DEFINE n == Len(queue) + 1
  <2>1. queue' = Append(queue, FlushCommand(g)) /\ FlushCommand(g) \in Commands
        /\ FlushCommand(g).kind = "flush" /\ FlushCommand(g).caller = g
    BY <1>6, CommandFacts DEF FlushAndDrain, FlushCommand
  <2>2. ~RecvFlush /\ ~RecvSubmit
    BY <2>1, Sent, Received DEF RecvFlush, RecvSubmit
  <2>3. \A i \in 1..Len(queue) : i \in 1..Len(queue') /\ queue'[i] = queue[i]
    BY <2>1, Sent
  <2>4. ASSUME NEW i \in 1..Len(queue), queue'[i].kind = "flush"
        PROVE  /\ flushState'[queue'[i].caller] = "queued"
               /\ \A u \in covered'[queue'[i].caller] : unitState'[u] = "queued" =>
                    \E j \in 1..Len(queue') : j < i /\ queue'[j] = SubmitCommand(u)
               /\ queue[i].caller # g
    <3>1. queue[i].caller # g
      BY <1>6, <2>3, <2>4 DEF BehindInv, FlushAndDrain
    <3>. QED BY <1>3, <2>2, <2>3, <2>4, <3>1
  <2>5. flushState'[g] = "queued"
    BY <1>6 DEF FlushAndDrain, TypeInv
  <2>6. ASSUME NEW u \in covered'[g], unitState'[u] = "queued"
        PROVE  \E j \in 1..Len(queue') : j < n /\ queue'[j] = SubmitCommand(u)
    <3>1. u \in Units /\ unitState[u] = "queued"
      BY <1>1, <1>6, <2>6 DEF FlushAndDrain
    <3>2. PICK j \in 1..Len(queue) : queue[j] = SubmitCommand(u)
      BY <3>1 DEF WhereInv
    <3>3. j < n
      BY <2>1, Sent
    <3>. QED BY <2>3, <3>2, <3>3
  <2>7. \A i \in 1..Len(queue') : i \in 1..Len(queue) \/ i = n
    BY <2>1, Sent
  <2>8. queue'[n] = FlushCommand(g)
    BY <2>1, Sent
  <2>9. \A i, j \in 1..Len(queue') : queue'[i].kind = "flush" /\ queue'[j].kind = "flush"
            /\ queue'[j].caller = queue'[i].caller => i = j
    BY <2>1, <2>3, <2>4, <2>7, <2>8 DEF BehindInv
  <2>. QED BY <1>1, <2>1, <2>4, <2>5, <2>6, <2>7, <2>8, <2>9 DEF BehindInv
<1>7. CASE RecvSubmit \/ RecvFlush
  <2>1. queue # <<>> /\ queue' = Tail(queue)
    BY <1>7 DEF RecvSubmit, RecvFlush
  <2>2. ASSUME NEW i \in 1..Len(queue'), queue'[i].kind = "flush"
        PROVE  /\ flushState'[queue'[i].caller] = "queued"
               /\ \A u \in covered'[queue'[i].caller] : unitState'[u] = "queued" =>
                    \E j \in 1..Len(queue') : j < i /\ queue'[j] = SubmitCommand(u)
    <3>1. i + 1 \in 1..Len(queue) /\ queue'[i] = queue[i + 1] /\ i + 1 # 1
      BY <2>1, Received
    <3>2. \A j \in 1..Len(queue) : j # 1 =>
                j - 1 \in 1..Len(queue') /\ queue'[j - 1] = queue[j]
      BY <2>1, Received
    <3>3. ASSUME NEW j \in 1..Len(queue), j < i + 1, queue[j].kind = "submit",
                 ~(RecvSubmit /\ j = 1)
          PROVE  \E m \in 1..Len(queue') : m < i /\ queue'[m] = queue[j]
      <4>1. j # 1
        BY <1>7, <2>1, <3>3, Received DEF RecvFlush
      <4>. QED BY <3>2, <3>3, <4>1
    <3>. QED BY <1>3, <2>2, <3>1, <3>3
  <2>3. ASSUME NEW i \in 1..Len(queue'), NEW j \in 1..Len(queue'),
               queue'[i].kind = "flush", queue'[j].kind = "flush",
               queue'[j].caller = queue'[i].caller
        PROVE  i = j
    <3>1. i + 1 = j + 1
      BY <2>1, <2>3, Received DEF BehindInv
    <3>. QED BY <3>1
  <2>. QED BY <1>1, <2>2, <2>3 DEF BehindInv
<1>. QED BY <1>4, <1>5, <1>6, <1>7, QueueMoves

-----------------------------------------------------------------------------
(* The flush being served, and those answered.                             *)

\* Every step keeps the units of the served flush appended, and the live
\* segment empty once its second persist has run.
LEMMA ServingStep ==
    ASSUME SafetyInv, OffsetsInv, BehindInv, ServingInv, [Next]_vars
    PROVE  ServingInv'
<1>. USE DEF SafetyInv
<1>1. CASE RecvFlush
  <2>. DEFINE f == Head(queue).caller
  <2>1. f \in Flushers /\ queue[1] = Head(queue) /\ 1 \in 1..Len(queue)
        /\ queue[1].kind = "flush" /\ queue[1].caller = f
    BY <1>1, ChannelFacts, CommandFacts, Received DEF RecvFlush
  <2>2. writer'.pc = "flush1" /\ writer'.caller = f /\ flushState'[f] = "serving"
    BY <1>1, <2>1 DEF RecvFlush, TypeInv
  <2>3. unitState' = unitState /\ covered' = covered
    BY <1>1 DEF RecvFlush
  <2>4. ASSUME NEW u \in covered[f]
        PROVE  unitState[u] \notin {"new", "queued", "appending"}
    <3>1. u \in Units /\ unitState[u] # "new"
      BY <2>1, <2>4 DEF BehindInv, TypeInv
    <3>2. unitState[u] # "queued"
      <4>1. unitState[u] = "queued" =>
                \E j \in 1..Len(queue) : j < 1 /\ queue[j] = SubmitCommand(u)
        BY <2>1, <2>4 DEF BehindInv
      <4>. QED BY <4>1
    <3>3. unitState[u] # "appending"
      BY <1>1, <3>1 DEF RecvFlush, AppendInv, AtLoop
    <3>. QED BY <3>1, <3>2, <3>3
  <2>. QED BY <2>1, <2>2, <2>3, <2>4 DEF ServingInv
<1>2. ASSUME writer.pc \in {"flush1", "flush2"}, writer'.caller = writer.caller, ~FlushReplies
      PROVE  /\ flushState'[writer'.caller] = "serving"
             /\ \A u \in covered'[writer'.caller] :
                    unitState'[u] \notin {"new", "queued", "appending"}
  <2>1. writer.caller \in Flushers /\ flushState[writer.caller] = "serving"
    BY <1>2, WriterFacts DEF ServingInv
  <2>2. covered'[writer.caller] = covered[writer.caller]
        /\ flushState'[writer.caller] = "serving"
    BY <1>2, <2>1, FlushMoves
  <2>3. ASSUME NEW u \in covered[writer.caller]
        PROVE  unitState'[u] \notin {"new", "queued", "appending"}
    <3>1. u \in Units
      BY <2>1, <2>3 DEF TypeInv
    <3>2. unitState[u] \notin {"new", "queued", "appending"}
      BY <1>2, <2>3 DEF ServingInv
    <3>. QED BY <3>1, <3>2, UnitMoves
  <2>. QED BY <1>2, <2>2, <2>3
<1>3. CASE FlushJoinsRunning
  <2>1. writer.pc = "flush1" /\ writer'.pc = "flush2" /\ writer'.caller = writer.caller
    BY <1>3, WriterFacts DEF FlushJoinsRunning
  <2>2. ~FlushReplies
    BY <2>1 DEF FlushReplies
  <2>3. persist'.phase # "spawned" => live' = {}
    <3>1. TryStartPersist(live, pending, offsets, Idle) /\ Idle.phase = "none" /\ live' = live
      BY <1>3 DEF FlushJoinsRunning, Idle
    <3>2. offsets
      BY <2>1 DEF OffsetsInv
    <3>. QED BY <3>1, <3>2 DEF TryStartPersist
  <2>. QED BY <1>2, <2>1, <2>2, <2>3 DEF ServingInv
<1>4. CASE PersistTask
  <2>1. writer' = writer /\ ~FlushReplies
    BY <1>4 DEF PersistTask, TakeLive, PersistCommits, PersistFails, FlushReplies,
                PersistFailsAfterCommit, PersistPanics, AtLoop
  <2>2. writer'.pc = "flush2" /\ panics' = 0 /\ persist'.phase # "spawned" => live' = {}
    <3>1. CASE TakeLive
      BY <3>1 DEF TakeLive
    <3>2. CASE PersistCommits \/ PersistFails \/ PersistFailsAfterCommit
      BY <2>1, <3>2 DEF PersistCommits, PersistFails, PersistFailsAfterCommit,
                        ServingInv, boundVars
    <3>3. CASE PersistPanics
      BY <3>3 DEF PersistPanics, TypeInv
    <3>. QED BY <1>4, <3>1, <3>2, <3>3 DEF PersistTask
  <2>. QED BY <1>2, <2>1, <2>2 DEF ServingInv
<1>5. CASE Callers \/ UNCHANGED vars
  <2>1. UNCHANGED <<writer, persist, live, panics>>
    BY <1>5 DEF Callers, RegisterRequestAck, Submit, FailRequest, boundVars,
                CompleteRequestWithoutWal, FlushAndDrain, FlushTimeout, vars
  <2>2. writer.pc \in {"flush1", "flush2"} => ~FlushReplies
    BY <2>1 DEF FlushReplies, AtLoop
  <2>. QED BY <1>2, <2>1, <2>2 DEF ServingInv
<1>6. CASE RecvSubmit \/ AppendBatch
  <2>1. writer'.pc = "append"
    BY <1>6, WriterFacts DEF RecvSubmit, AppendBatch
  <2>. QED BY <2>1 DEF ServingInv
<1>7. CASE JoinPersist \/ QueueSubmitted \/ AppendFails \/ FlushReplies
  <2>1. writer'.pc = "loop"
    BY <1>7 DEF JoinPersist, QueueSubmitted, AppendFails, FlushReplies, AtLoop
  <2>. QED BY <2>1 DEF ServingInv
<1>. QED BY <1>1, <1>3, <1>4, <1>5, <1>6, <1>7 DEF Next, WriterTask

\* A unit whose answer is out and whose batches have left memory stays so.
LEMMA SettledStays ==
    ASSUME SafetyInv, [Next]_vars, NEW u \in Units,
           unitState[u] \notin Unresolved \cup {"new"}, PartsOf(u) \cap Volatile = {}
    PROVE  unitState'[u] \notin Unresolved \cup {"new"} /\ PartsOf(u) \cap Volatile' = {}
<1>. USE DEF SafetyInv, Volatile
<1>1. unitState'[u] \notin Unresolved \cup {"new"}
  BY UnitMoves
<1>2. CASE Volatile' \subseteq Volatile
  BY <1>1, <1>2
<1>3. CASE AppendBatch
  <2>1. unitState[writer.unit] = "appending" /\ writer.unit \in Units /\ writer.done \in Nat
    BY <1>3, WriterFacts DEF AppendBatch, AppendInv
  <2>2. <<writer.unit, writer.done + 1>> \notin PartsOf(u)
    BY <2>1, PartsFacts DEF Unresolved
  <2>. QED BY <1>1, <1>3, <2>2 DEF AppendBatch
<1>4. CASE PersistTask
  <2>1. Volatile' \subseteq Volatile
    BY <1>4 DEF PersistTask, TakeLive, PersistCommits, PersistFails,
       PersistFailsAfterCommit, PersistPanics, TypeInv, TaskInv
  <2>. QED BY <1>2, <2>1
<1>5. CASE Callers \/ RecvSubmit \/ RecvFlush \/ UNCHANGED vars
  BY <1>1, <1>5 DEF Callers, RegisterRequestAck, Submit, FailRequest,
     CompleteRequestWithoutWal, FlushAndDrain, FlushTimeout, RecvSubmit,
     RecvFlush, vars
<1>6. CASE JoinPersist \/ FlushJoinsRunning \/ FlushReplies \/ QueueSubmitted \/ AppendFails
  <2>1. live' = live /\ (persist'.snap = {} \/ persist' = persist)
    BY <1>6 DEF JoinPersist, FlushJoinsRunning, FlushReplies, QueueSubmitted,
                AppendFails, TryStartPersist, Idle
  <2>. QED BY <1>2, <2>1
<1>. QED BY <1>1, <1>2, <1>3, <1>4, <1>5, <1>6 DEF Next, WriterTask

\* Every step keeps the promise of the flushes answered so far, and a reply
\* is given only when it holds for one more.
LEMMA DrainsStep ==
    ASSUME SafetyInv, OffsetsInv, WhereInv, BehindInv, ServingInv,
           FlushDrainsCovered, [Next]_vars
    PROVE  FlushDrainsCovered'
<1>. USE DEF SafetyInv
<1>. SUFFICES ASSUME panics' = 0, NEW f \in Flushers, flushState'[f] = "ok",
                     NEW u \in covered'[f]
              PROVE  /\ unitState'[u] \notin Unresolved
                     /\ PartsOf(u) \cap Volatile' = {}
  BY DEF FlushDrainsCovered, Volatile, Unresolved
<1>1. panics = 0
  <2>1. PersistPanics => panics' = panics + 1 /\ panics \in Nat
    BY DEF PersistPanics, TypeInv
  <2>2. ~PersistPanics => panics' = panics
    <3>1. Callers => panics' = panics
      BY DEF Callers, RegisterRequestAck, Submit, FailRequest, boundVars,
             CompleteRequestWithoutWal, FlushAndDrain, FlushTimeout
    <3>2. PersistTask /\ ~PersistPanics => panics' = panics
      BY DEF PersistTask, TakeLive, PersistCommits, PersistFails,
             PersistFailsAfterCommit, boundVars
    <3>3. WriterTask => panics' = panics
      BY DEF WriterTask, JoinPersist, RecvSubmit, AppendBatch, QueueSubmitted,
             AppendFails, RecvFlush, FlushJoinsRunning, FlushReplies, boundVars
    <3>. QED BY <3>1, <3>2, <3>3 DEF Next, vars
  <2>. QED BY <2>1, <2>2
<1>2. CASE flushState[f] = "ok"
  <2>1. covered'[f] = covered[f]
    BY <1>2, FlushMoves
  <2>2. u \in Units /\ unitState[u] # "new"
    BY <2>1 DEF BehindInv, TypeInv
  <2>3. unitState[u] \notin Unresolved /\ PartsOf(u) \cap Volatile = {}
    BY <1>1, <1>2, <2>1 DEF FlushDrainsCovered
  <2>. QED BY <2>2, <2>3, SettledStays
<1>3. CASE flushState[f] # "ok"
  <2>1. FlushReplies /\ f = writer.caller
    BY <1>3, FlushMoves
  <2>2. covered'[f] = covered[f] /\ u \in Units
    BY <2>1 DEF FlushReplies, TypeInv
  <2>3. unitState[u] \notin {"new", "queued", "appending"}
    BY <2>1, <2>2 DEF FlushReplies, ServingInv
  <2>4. persist.phase \in Finished \cup {"none"} /\ persist.snap = {} /\ live = {}
    BY <1>1, <2>1 DEF FlushReplies, JoinIfRunning, ServingInv, TaskInv, Finished
  <2>5. live' = {} /\ persist'.snap = {}
    BY <2>1, <2>4 DEF FlushReplies, Idle
  <2>6. unitState'[u] \notin Unresolved
    <3>1. CASE unitState[u] = "pending"
      <4>1. u \in persist.acks
        BY <2>1, <2>2, <3>1 DEF FlushReplies, OffsetsInv, WhereInv
      <4>. QED BY <2>1, <2>2, <4>1, Joined DEF Unresolved
    <3>2. CASE unitState[u] # "pending"
      BY <2>2, <2>3, <3>2, UnitMoves DEF Unresolved
    <3>. QED BY <3>1, <3>2
  <2>. QED BY <2>5, <2>6 DEF Volatile
<1>. QED BY <1>2, <1>3

-----------------------------------------------------------------------------
(* The request registry.                                                   *)

\* The units left of a request are finitely many, before and after a step.
LEMMA LeftFinite ==
    \A r : IsFiniteSet(Left(r)) /\ IsFiniteSet(Left(r)')
<1>. TAKE r
<1>. Left(r) \subseteq Units /\ Left(r)' \subseteq Units
  BY DEF Left, UnitsOf
<1>. QED BY UnitsAssumption, FS_Subset

\* Completing units that have not succeeded keeps the registry exact: it takes
\* off as many units as leave Left, and drops the request at the first error.
LEMMA RegistryCompletes ==
    ASSUME TypeInv, RegistryInv, NEW us \in SUBSET Units, NEW result \in {"ok", "err"},
           CompleteRequestUnits(us, result),
           \A u \in us :
                /\ unitState[u] \notin {"ok", "empty"}
                /\ result = "ok" => unitState'[u] \in {"ok", "empty"}
                /\ UnitRequest[u] \in Requests =>
                        reqResult[UnitRequest[u]] # "unregistered",
           \A u \in Units \ us : unitState'[u] = unitState[u]
    PROVE  RegistryInv'
<1>. SUFFICES ASSUME NEW r \in Requests
              PROVE  /\ registry'[r] > 0 => registry'[r] = Cardinality(Left(r)')
                     /\ reqResult'[r] = "ok" => Left(r)' = {}
                     /\ reqResult'[r] = "unregistered" =>
                            registry'[r] = 0 /\ \A u \in UnitsOf(r) : unitState'[u] = "new"
  BY DEF RegistryInv, Left, UnitsOf
<1>. DEFINE H == {u \in us : UnitRequest[u] = r}
            n == Cardinality(H)
<1>1. Hits(us, r) = n /\ H \subseteq Left(r) /\ H \subseteq UnitsOf(r)
  BY DEF Hits, Left, UnitsOf
<1>2. /\ IsFiniteSet(H) /\ n \in Nat /\ (n = 0 <=> H = {})
      /\ Cardinality(Left(r)) \in Nat /\ n <= Cardinality(Left(r))
      /\ Cardinality(Left(r) \ H) = Cardinality(Left(r)) - n
  <2>1. IsFiniteSet(H) /\ n <= Cardinality(Left(r))
    BY <1>1, LeftFinite, FS_Subset
  <2>2. n \in Nat /\ Cardinality(Left(r)) \in Nat /\ (n = 0 <=> H = {})
    BY <2>1, LeftFinite, FS_CardinalityType, FS_EmptySet
  <2>3. Left(r) \cap H = H
    BY <1>1
  <2>4. Cardinality(Left(r) \ H) = Cardinality(Left(r)) - Cardinality(Left(r) \cap H)
    BY LeftFinite, FS_Difference
  <2>. QED BY <2>1, <2>2, <2>3, <2>4
<1>3. registry[r] \in Nat
  BY DEF TypeInv
<1>. HIDE DEF n
<1>4. CASE H = {} \/ registry[r] = 0
  <2>1. registry'[r] = registry[r] /\ reqResult'[r] = reqResult[r]
    BY <1>1, <1>2, <1>3, <1>4 DEF CompleteRequestUnits
  <2>2. CASE H = {}
    <3>1. \A u \in UnitsOf(r) : unitState'[u] = unitState[u]
      BY <2>2 DEF UnitsOf
    <3>2. Left(r)' = Left(r)
      BY <3>1 DEF Left, UnitsOf
    <3>. QED BY <2>1, <3>1, <3>2 DEF RegistryInv
  <2>3. CASE H # {} /\ registry[r] = 0
    <3>1. reqResult[r] # "ok" /\ reqResult[r] # "unregistered"
      BY <1>1, <2>3 DEF RegistryInv
    <3>. QED BY <2>1, <2>3, <3>1
  <2>. QED BY <1>4, <2>2, <2>3
<1>5. CASE H # {} /\ registry[r] > 0
  <2>1. reqResult[r] # "ok" /\ reqResult[r] # "unregistered" /\ n > 0
        /\ registry[r] = Cardinality(Left(r))
    BY <1>1, <1>2, <1>5 DEF RegistryInv
  <2>2. CASE result = "err"
    <3>1. registry'[r] = 0 /\ reqResult'[r] = "err"
      BY <1>1, <1>5, <2>1, <2>2 DEF CompleteRequestUnits
    <3>. QED BY <3>1
  <2>3. CASE result = "ok"
    <3>1. Left(r)' = Left(r) \ H
      BY <2>3 DEF Left, UnitsOf
    <3>2. registry'[r] = registry[r] - n
          /\ reqResult'[r] = IF registry[r] - n = 0 THEN "ok" ELSE reqResult[r]
      <4>1. registry[r] > 0 /\ Hits(us, r) > 0 /\ Hits(us, r) <= registry[r]
        BY <1>1, <1>2, <1>5, <2>1
      <4>2. registry[r] - n = IF Hits(us, r) >= registry[r] THEN 0
                              ELSE registry[r] - Hits(us, r)
        BY <1>1, <1>2, <1>3, <4>1
      <4>. QED BY <2>3, <4>1, <4>2 DEF CompleteRequestUnits
    <3>3. registry'[r] = Cardinality(Left(r)')
      BY <1>2, <2>1, <3>1, <3>2
    <3>4. registry'[r] = 0 => Left(r)' = {}
      BY <3>3, LeftFinite, FS_EmptySet
    <3>. QED BY <2>1, <3>2, <3>3, <3>4
  <2>. QED BY <2>2, <2>3
<1>. QED BY <1>3, <1>4, <1>5

\* A step that succeeds no unit and leaves the registry alone keeps it exact.
LEMMA RegistryIdle ==
    ASSUME RegistryInv, UNCHANGED <<registry, reqResult>>,
           \A u \in Units :
              /\ unitState'[u] \in {"ok", "empty"} <=> unitState[u] \in {"ok", "empty"}
              /\ unitState[u] = "new" /\ unitState'[u] # "new" =>
                    (UnitRequest[u] \in Requests =>
                        reqResult[UnitRequest[u]] # "unregistered")
    PROVE  RegistryInv'
<1>. SUFFICES ASSUME NEW r \in Requests
              PROVE  /\ registry[r] > 0 => registry[r] = Cardinality(Left(r)')
                     /\ reqResult[r] = "ok" => Left(r)' = {}
                     /\ reqResult[r] = "unregistered" =>
                            registry[r] = 0 /\ \A u \in UnitsOf(r) : unitState'[u] = "new"
  BY DEF RegistryInv, Left, UnitsOf
<1>1. Left(r)' = Left(r)
  BY DEF Left, UnitsOf
<1>2. \A u \in UnitsOf(r) : unitState[u] = "new" /\ reqResult[r] = "unregistered"
            => unitState'[u] = "new"
  BY DEF UnitsOf
<1>. QED BY <1>1, <1>2 DEF RegistryInv

\* Every step keeps the registry exact.
LEMMA RegistryStep ==
    ASSUME SafetyInv, RegistryInv, [Next]_vars
    PROVE  RegistryInv'
<1>. USE DEF SafetyInv
<1>1. ASSUME NEW u \in Units, unitState[u] # "new", UnitRequest[u] \in Requests
      PROVE  reqResult[UnitRequest[u]] # "unregistered"
  BY <1>1 DEF RegistryInv, UnitsOf
<1>2. ASSUME NEW u \in Units, Started(u), UnitRequest[u] \in Requests
      PROVE  reqResult[UnitRequest[u]] # "unregistered"
  BY <1>2, UnitsAssumption DEF Started
<1>3. ASSUME NEW r \in Requests, RegisterRequestAck(r)
      PROVE  RegistryInv'
  <2>1. UNCHANGED unitState /\ \A q \in Requests : Left(q)' = Left(q)
    BY <1>3 DEF RegisterRequestAck, Left, UnitsOf
  <2>2. Left(r) = UnitsOf(r)
    BY <1>3 DEF RegisterRequestAck, RegistryInv, Left
  <2>3. \A q \in Requests : q # r =>
            registry'[q] = registry[q] /\ reqResult'[q] = reqResult[q]
    BY <1>3 DEF RegisterRequestAck, TypeInv
  <2>4. registry'[r] = Cardinality(UnitsOf(r))
        /\ reqResult'[r] = IF Cardinality(UnitsOf(r)) = 0 THEN "ok" ELSE "waiting"
    BY <1>3 DEF RegisterRequestAck, TypeInv
  <2>5. Cardinality(UnitsOf(r)) = 0 => UnitsOf(r) = {}
    BY <2>2, LeftFinite, FS_EmptySet
  <2>. QED BY <2>1, <2>2, <2>3, <2>4, <2>5 DEF RegistryInv
<1>4. ASSUME NEW u \in Units, FailRequest(u)
      PROVE  RegistryInv'
  <2>1. unitState[u] = "new" /\ \A v \in Units \ {u} : unitState'[v] = unitState[v]
    BY <1>4 DEF FailRequest, Started, TypeInv
  <2>. QED BY <1>2, <1>4, <2>1, RegistryCompletes DEF FailRequest
<1>5. ASSUME NEW u \in Units, CompleteRequestWithoutWal(u)
      PROVE  RegistryInv'
  <2>1. unitState[u] = "new" /\ unitState'[u] = "empty"
        /\ \A v \in Units \ {u} : unitState'[v] = unitState[v]
    BY <1>5 DEF CompleteRequestWithoutWal, Started, TypeInv
  <2>. QED BY <1>2, <1>5, <2>1, RegistryCompletes DEF CompleteRequestWithoutWal
<1>6. ASSUME NEW u \in Units, Submit(u)
      PROVE  RegistryInv'
  <2>1. unitState[u] = "new" /\ unitState'[u] = "queued"
        /\ \A v \in Units \ {u} : unitState'[v] = unitState[v]
    BY <1>6 DEF Submit, Started, TypeInv
  <2>2. UNCHANGED <<registry, reqResult>> /\ Started(u)
    BY <1>6 DEF Submit, registryVars
  <2>. QED BY <1>2, <2>1, <2>2, RegistryIdle
<1>7. CASE AppendFails
  <2>1. writer.unit \in Units /\ unitState[writer.unit] = "appending"
    BY <1>7, WriterFacts DEF AppendFails, AppendInv
  <2>2. CompleteRequestUnits({writer.unit}, "err")
        /\ \A v \in Units \ {writer.unit} : unitState'[v] = unitState[v]
    BY <1>7 DEF AppendFails, TypeInv
  <2>. QED BY <1>1, <2>1, <2>2, RegistryCompletes
<1>8. CASE ApplyPersistResult /\ persist.phase \in Finished
  <2>1. persist.acks \in SUBSET Units /\ \A u \in persist.acks : unitState[u] = "pending"
    BY DEF TypeInv, AcksInv
  <2>2. CASE persist.phase \in {"ok", "err"}
    <3>1. \A u \in persist.acks : unitState'[u] = persist.phase
      BY <1>8, <2>1, <2>2 DEF ApplyPersistResult
    <3>2. \A u \in Units \ persist.acks : unitState'[u] = unitState[u]
      BY <1>8, <2>1, <2>2 DEF ApplyPersistResult
    <3>3. CompleteRequestUnits(persist.acks, persist.phase)
      BY <1>8, <2>2 DEF ApplyPersistResult
    <3>. QED BY <1>1, <2>1, <2>2, <3>1, <3>2, <3>3, RegistryCompletes
  <2>3. CASE persist.phase \notin {"ok", "err"}
    <3>1. UNCHANGED <<registry, reqResult>>
          /\ \A u \in Units : unitState'[u] = IF u \in persist.acks THEN "dropped"
                                                                    ELSE unitState[u]
      BY <1>8, <2>3 DEF ApplyPersistResult
    <3>. QED BY <2>1, <3>1, RegistryIdle
  <2>. QED BY <2>2, <2>3
<1>9. CASE UNCHANGED <<registry, reqResult, unitState>>
  BY <1>9, RegistryIdle
<1>10. CASE RecvSubmit \/ QueueSubmitted
  <2>1. UNCHANGED <<registry, reqResult>>
    BY <1>10 DEF RecvSubmit, QueueSubmitted, registryVars
  <2>2. \A u \in Units :
            \/ unitState'[u] = unitState[u]
            \/ /\ unitState[u] \in {"queued", "appending"}
               /\ unitState'[u] \in {"appending", "pending"}
    <3>1. CASE RecvSubmit
      <4>1. Head(queue).unit \in Units /\ unitState[Head(queue).unit] = "queued"
        BY <3>1, ChannelFacts, CommandFacts DEF RecvSubmit, QueueInv
      <4>. QED BY <3>1, <4>1 DEF RecvSubmit, TypeInv
    <3>2. CASE QueueSubmitted
      <4>1. writer.unit \in Units /\ unitState[writer.unit] = "appending"
        BY <3>2, WriterFacts DEF QueueSubmitted, AppendInv
      <4>. QED BY <3>2, <4>1 DEF QueueSubmitted, TypeInv
    <3>. QED BY <1>10, <3>1, <3>2
  <2>. QED BY <2>1, <2>2, RegistryIdle
<1>11. CASE Callers
  BY <1>3, <1>4, <1>5, <1>6, <1>9, <1>11 DEF Callers, FlushAndDrain, FlushTimeout,
     registryVars
<1>12. CASE PersistTask \/ AppendBatch \/ RecvFlush \/ UNCHANGED vars
  BY <1>9, <1>12 DEF PersistTask, TakeLive, PersistCommits, PersistFails,
     PersistFailsAfterCommit, PersistPanics, AppendBatch, RecvFlush, registryVars, vars
<1>13. CASE JoinPersist \/ FlushJoinsRunning \/ FlushReplies
  BY <1>8, <1>9, <1>13 DEF JoinPersist, FlushJoinsRunning, FlushReplies, JoinIfRunning
<1>. QED BY <1>7, <1>10, <1>11, <1>12, <1>13 DEF Next, WriterTask

-----------------------------------------------------------------------------
(* The theorems.                                                           *)

\* The writer starts with nothing pending, covered or registered.
LEMMA DrainInit == Init => DrainInv
<1>. SUFFICES ASSUME Init PROVE DrainInv
  OBVIOUS
<1>1. OffsetsInv /\ ServingInv
  BY DEF Init, OffsetsInv, ServingInv, PendingHasPersist, AtLoop
<1>2. WhereInv /\ BehindInv /\ FlushDrainsCovered
  BY DEF Init, WhereInv, BehindInv, FlushDrainsCovered
<1>3. RegistryInv
  BY DEF Init, RegistryInv, UnitsOf
<1>. QED BY <1>1, <1>2, <1>3 DEF DrainInv

\* Every step keeps the strengthened invariant.
LEMMA DrainStep == SafetyInv /\ DrainInv /\ [Next]_vars => DrainInv'
BY OffsetsStep, WhereStep, BehindStep, ServingStep, DrainsStep, RegistryStep
   DEF DrainInv

\* What wait_for_completion relies on follows from the exact counter.
LEMMA IdleSettled == IInv => IdleMeansSettled
<1>. SUFFICES ASSUME IInv, ~HasPendingWork
              PROVE  \A u \in Units :
                        /\ unitState[u] \notin {"appending", "pending", "dropped"}
                        /\ unitState[u] = "ok" => PartsOf(u) \cap Volatile = {}
  BY DEF IdleMeansSettled
<1>1. count \in Nat /\ ~(count > 0)
  BY InvImplies DEF TypeOK, HasPendingWork
<1>2. Counted = {}
  BY <1>1, CountedFinite, FS_EmptySet DEF IInv, CountInv
<1>. QED BY <1>2 DEF Counted, IInv, SafetyInv, AckedIsSettled

\* The writer drains: a flush is answered only when every unit queued before
\* it is answered and out of memory, has_pending_work is FALSE only when
\* nothing received is unanswered, and acks never wait without a persist under
\* way - for any number of units and flush callers and any channel capacity.
THEOREM WriterDrains ==
    Spec => [](FlushDrainsCovered /\ IdleMeansSettled /\ PendingHasPersist)
<1>1. Init => IInv /\ DrainInv
  BY InitHolds, DrainInit
<1>2. (IInv /\ DrainInv) /\ [Next]_vars => (IInv /\ DrainInv)'
  BY SafetyStep, CountStep, DrainStep DEF IInv
<1>3. IInv /\ DrainInv => FlushDrainsCovered /\ IdleMeansSettled /\ PendingHasPersist
  BY IdleSettled DEF DrainInv, OffsetsInv
<1>. QED BY <1>1, <1>2, <1>3, PTL DEF Spec

\* A runtime source's request is answered Ok only when each of its units was
\* answered Ok or had nothing to write: for any number of requests and units
\* and whatever order units are joined, refused, failed or dropped in.
THEOREM RequestAnswers == Spec => []RequestOkMeansUnitsOk
<1>1. Init => IInv /\ DrainInv
  BY InitHolds, DrainInit
<1>2. (IInv /\ DrainInv) /\ [Next]_vars => (IInv /\ DrainInv)'
  BY SafetyStep, CountStep, DrainStep DEF IInv
<1>3. IInv /\ DrainInv => RequestOkMeansUnitsOk
  BY DEF DrainInv, RegistryInv, Left, RequestOkMeansUnitsOk
<1>. QED BY <1>1, <1>2, <1>3, PTL DEF Spec
=============================================================================
