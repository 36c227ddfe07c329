------------------------- MODULE CatalogOutboxProof -------------------------
(* TLAPS proofs about CatalogOutbox, for any partitions, locations, sink   *)
(* calls and bounds.                                                       *)
EXTENDS CatalogOutbox, TLAPS

(* The inductive invariant.  An intent can be lost in two ways: an entry   *)
(* is removed although Glue does not have it, or a drainer that scanned an *)
(* older entry overwrites in Glue what is no longer in the outbox.  The    *)
(* first is excluded by what a drainer knows of Glue, the second by who    *)
(* can have removed an entry while a drainer holds the partition.          *)

\* A drainer that holds a partition holds the entry it scanned.
HandsFit ==
    \A d \in Drainers, k \in Keys :
        \/ hand[d][k] = Free
        \/ hand[d][k].step # "none" /\ hand[d][k].entry # NoEntry

\* What a drainer found equal or has written is in Glue.
ReportedIsInGlue ==
    \A d \in Drainers, k \in Keys \ overlapped :
        hand[d][k].step \in {"equal", "written"} => glue[k] = hand[d][k].entry.intent

\* Both drainers hold a partition only when it is recorded as overlapped.
OneHolder ==
    \A d, e \in Drainers, k \in Keys \ overlapped :
        hand[d][k] # Free /\ hand[e][k] # Free => d = e

\* Where a crash may leave no entry, a drainer can only write the location
\* that is wanted.
LateWriteIsHarmless ==
    \A d \in Drainers, k \in Keys \ overlapped, loc \in Locations :
        hand[d][k] # Free /\ NoEntry \in ondisk[k] /\ wanted[k] = {loc}
            => hand[d][k].entry.intent = loc

SomethingWanted == \A k \in Keys : wanted[k] # {}

IInv == /\ HandsFit /\ ReportedIsInGlue /\ OneHolder /\ LateWriteIsHarmless
        /\ SomethingWanted /\ IntentSurvives

----------------------------------------------------------------------------
(* TypeOK, by the part of the state it is about.                           *)

TypeEntries ==
    /\ entries \in [Keys -> EntryType \cup {NoEntry}]
    /\ clock \in 0..MaxClock
    /\ deferred \subseteq {k \in Keys : entries[k] # NoEntry}

TypeDisk ==
    /\ ondisk \in [Keys -> SUBSET (EntryType \cup {NoEntry})]
    /\ \A k \in Keys : entries[k] \in ondisk[k] /\ (~dirty => ondisk[k] = {entries[k]})
    /\ dirty \in BOOLEAN

TypeHands == hand \in [Drainers -> [Keys -> HandType]]

TypeRest ==
    /\ call \in [Calls -> {"todo", "ok", "failed"}]
    /\ glue \in [Keys -> Locations \cup {Nowhere}]
    /\ wanted \in [Keys -> SUBSET (Locations \cup {Nowhere})]
    /\ overlapped \subseteq Keys
    /\ faults \in 0..MaxFaults
    /\ crashes \in 0..MaxCrashes

LEMMA TypeParts == TypeOK <=> TypeEntries /\ TypeDisk /\ TypeHands /\ TypeRest
BY DEF TypeOK, TypeEntries, TypeDisk, TypeHands, TypeRest

----------------------------------------------------------------------------
(* What the operators of the drainers do to a hand.                        *)

Steps == {"none", "layout", "refuse", "get", "equal", "differs", "missing", "written", "error"}
Kinds == {"none", "transient", "terminal"}

LEMMA FreeHand == Free \in HandType /\ Free.step = "none" /\ Free.entry = NoEntry
BY DEF Free, HandType

\* One drainer's hands are replaced by g.
LEMMA ReplaceHands ==
    ASSUME TypeHands, NEW d \in Drainers, NEW g \in [Keys -> HandType],
           hand' = [hand EXCEPT ![d] = g]
    PROVE  /\ TypeHands'
           /\ \A k \in Keys : hand'[d][k] = g[k]
           /\ \A e \in Drainers, k \in Keys : e # d => hand'[e][k] = hand[e][k]
BY DEF TypeHands

LEMMA HoldingEffect ==
    ASSUME TypeHands, NEW d \in Drainers, NEW k \in Keys, NEW s \in Steps, NEW q \in Kinds,
           Holding(d, k, s, q)
    PROVE  /\ TypeHands' /\ hand'[d][k].entry = hand[d][k].entry /\ hand'[d][k].step = s
           /\ \A e \in Drainers, j \in Keys : e # d \/ j # k => hand'[e][j] = hand[e][j]
<1> DEFINE h == [hand[d][k] EXCEPT !.step = s, !.kind = q]
<1>1. hand[d][k] \in HandType
  BY DEF TypeHands
<1>2. h \in HandType /\ h.entry = hand[d][k].entry /\ h.step = s
  BY <1>1 DEF HandType, Steps, Kinds
<1>3. hand' = [hand EXCEPT ![d][k] = h]
  BY DEF Holding
<1> HIDE DEF h
<1> QED BY <1>2, <1>3 DEF TypeHands

LEMMA DropEffect ==
    ASSUME TypeHands, NEW d \in Drainers, NEW k \in Keys, Drop(d, k)
    PROVE  /\ TypeHands' /\ hand'[d][k] = Free
           /\ \A e \in Drainers, j \in Keys : e # d \/ j # k => hand'[e][j] = hand[e][j]
BY FreeHand DEF Drop, TypeHands

LEMMA DropAllEffect ==
    ASSUME TypeHands, NEW d \in Drainers, DropAll(d)
    PROVE  /\ TypeHands' /\ \A k \in Keys : hand'[d][k] = Free
           /\ \A e \in Drainers, k \in Keys : e # d => hand'[e][k] = hand[e][k]
<1> DEFINE g == [k \in Keys |-> Free]
<1>1. g \in [Keys -> HandType] /\ \A k \in Keys : g[k] = Free
  BY FreeHand
<1>2. hand' = [hand EXCEPT ![d] = g]
  BY DEF DropAll
<1> HIDE DEF g
<1> QED BY <1>1, <1>2, ReplaceHands

----------------------------------------------------------------------------
(* Types                                                                   *)

LEMMA TypeSynced == ASSUME TypeEntries', SyncDirectory PROVE TypeDisk'
BY DEF TypeEntries, SyncDirectory, TypeDisk

LEMMA TypeUnsynced ==
    ASSUME TypeDisk, TypeEntries', NEW S \in SUBSET Keys, LeaveUnsynced(S),
           \A k \in Keys \ S : entries'[k] = entries[k]
    PROVE  TypeDisk'
<1>1. /\ ondisk' = [k \in Keys |-> IF k \in S THEN ondisk[k] \cup {entries'[k]} ELSE ondisk[k]]
      /\ dirty' = (dirty \/ S # {})
  BY DEF LeaveUnsynced
<1>2. ondisk' \in [Keys -> SUBSET (EntryType \cup {NoEntry})]
  BY <1>1 DEF TypeDisk, TypeEntries
<1>3. dirty' \in BOOLEAN
  BY <1>1 DEF TypeDisk
<1>4. ASSUME NEW k \in Keys PROVE entries'[k] \in ondisk'[k] /\ (~dirty' => ondisk'[k] = {entries'[k]})
  <2>1. CASE k \in S
    BY <1>1, <2>1
  <2>2. CASE k \notin S
    <3>1. ondisk'[k] = ondisk[k] /\ entries'[k] = entries[k]
      BY <1>1, <2>2
    <3> QED BY <1>1, <3>1 DEF TypeDisk
  <2> QED BY <2>1, <2>2
<1> QED BY <1>2, <1>3, <1>4 DEF TypeDisk

\* The entry record_failure_if writes.
LEMMA FailedEntryType ==
    ASSUME TypeEntries, NEW d \in Drainers, NEW k \in Keys, entries[k] # NoEntry,
           clock' \in 0..MaxClock
    PROVE  FailedEntry(d, k) \in EntryType /\ FailedEntry(d, k).intent = entries[k].intent
<1>1. entries[k] \in EntryType
  BY DEF TypeEntries
<1> DEFINE b == (hand[d][k].kind = "terminal")
           n == entries[k].attempts + 1
<1>2. b \in BOOLEAN
  OBVIOUS
<1>3. n \in Nat
  BY <1>1 DEF EntryType
<1>4. FailedEntry(d, k) = [entries[k] EXCEPT !.attempts = n, !.stamp = clock', !.terminal = b]
  BY DEF FailedEntry
<1> HIDE DEF b, n
<1> QED BY <1>1, <1>2, <1>3, <1>4 DEF EntryType

LEMMA AfterFailureEffect ==
    ASSUME TypeEntries, NEW d \in Drainers, NEW k \in Keys, entries[k] # NoEntry,
           AfterFailure(d, k)
    PROVE  /\ TypeEntries' /\ entries'[k] # NoEntry /\ entries'[k].intent = entries[k].intent
           /\ \A j \in Keys : j # k => entries'[j] = entries[j]
<1>1. clock' \in 0..MaxClock
  BY DEF AfterFailure, Tick
<1> DEFINE v == FailedEntry(d, k)
<1>2. v \in EntryType /\ v.intent = entries[k].intent /\ v # NoEntry
  BY <1>1, FailedEntryType, SentinelAssumption
<1>3. /\ entries' = [entries EXCEPT ![k] = v]
      /\ deferred' \subseteq deferred \cup {k}
  BY DEF AfterFailure
<1> HIDE DEF v
<1> QED BY <1>1, <1>2, <1>3 DEF TypeEntries

\* The entries a sink call writes.
LEMMA FreshType ==
    ASSUME NEW c \in Calls, NEW k \in DOMAIN IntentsOf[c], clock' \in 0..MaxClock
    PROVE  /\ Fresh(c, k) \in EntryType /\ Fresh(c, k) # NoEntry
           /\ Fresh(c, k).intent = IntentsOf[c][k] /\ k \in Keys /\ IntentsOf[c][k] \in Locations
<1>1. k \in Keys /\ IntentsOf[c][k] \in Locations
  BY IntentAssumption
<1>2. Fresh(c, k) \in EntryType /\ Fresh(c, k).intent = IntentsOf[c][k]
  BY <1>1 DEF Fresh, EntryType
<1> QED BY <1>1, <1>2, SentinelAssumption

LEMMA WriteEffect ==
    ASSUME TypeEntries, NEW c \in Calls, NEW S \in SUBSET Written(c), Tick,
           entries' = [k \in Keys |-> IF k \in S THEN Fresh(c, k) ELSE entries[k]],
           deferred' = deferred \ S
    PROVE  /\ TypeEntries' /\ S \subseteq Keys
           /\ \A k \in S : entries'[k] # NoEntry /\ entries'[k].intent = IntentsOf[c][k]
           /\ \A k \in Keys \ S : entries'[k] = entries[k]
<1>1. clock' \in 0..MaxClock
  BY DEF Tick
<1>2. S \subseteq DOMAIN IntentsOf[c]
  BY DEF Written
<1>3. \A k \in S : /\ Fresh(c, k) \in EntryType /\ Fresh(c, k) # NoEntry
                   /\ Fresh(c, k).intent = IntentsOf[c][k] /\ k \in Keys
  BY <1>1, <1>2, FreshType
<1> QED BY <1>1, <1>3 DEF TypeEntries

\* Every step is one of the actions or a stutter.
LEMMA StepCases ==
    [Next]_vars <=>
        \/ \E c \in Calls : Persist(c) \/ PersistFails(c) \/ RepeatCall(c)
        \/ \E d \in Drainers : Scan(d) \/ LoadLayout(d) \/ CreatePartitions(d)
        \/ \E d \in Drainers, k \in Keys :
              \/ GetPartition(d, k) \/ UpdatePartition(d, k) \/ MarkDelivered(d, k)
              \/ MarkFails(d, k) \/ RecordFailure(d, k) \/ RecordFails(d, k)
        \/ \E k \in Keys : Backoff(k)
        \/ Crash
        \/ UNCHANGED vars
BY DEF Next, Drain, SinkCall

----------------------------------------------------------------------------
(* How the hands change                                                    *)

\* A drainer goes on with the entry it holds or drops it.
Kept == \A d \in Drainers, k \in Keys :
            \/ hand'[d][k] = Free
            \/ /\ hand[d][k] # Free /\ hand'[d][k].step # "none"
               /\ hand'[d][k].entry = hand[d][k].entry

\* No drainer learns anything of Glue.
NoNewReport == \A d \in Drainers, k \in Keys :
                   hand'[d][k].step \in {"equal", "written"} => hand'[d][k] = hand[d][k]

LEMMA HandsUnchanged == ASSUME HandsFit, hand' = hand PROVE Kept /\ NoNewReport
BY DEF HandsFit, Kept, NoNewReport

LEMMA HandDropped ==
    ASSUME TypeHands, HandsFit, NEW d \in Drainers, NEW k \in Keys, Drop(d, k) \/ DropAll(d)
    PROVE  TypeHands' /\ Kept /\ NoNewReport /\ hand'[d][k] = Free
<1>1. CASE Drop(d, k)
  BY <1>1, DropEffect, FreeHand DEF HandsFit, Kept, NoNewReport
<1>2. CASE DropAll(d)
  BY <1>2, DropAllEffect, FreeHand DEF HandsFit, Kept, NoNewReport
<1> QED BY <1>1, <1>2

\* A hand that is at some step of drain_once is not free.
LEMMA HeldNotFree ==
    ASSUME HandsFit, NEW d \in Drainers, NEW k \in Keys, hand[d][k].step # "none"
    PROVE  hand[d][k] # Free /\ hand[d][k].entry # NoEntry
BY FreeHand DEF HandsFit

LEMMA LayoutEffect ==
    ASSUME TypeHands, HandsFit, NEW d \in Drainers, LoadLayout(d)
    PROVE  TypeHands' /\ Kept /\ NoNewReport
<1>1. PICK bad \in SUBSET Held(d, {"layout"}), kind \in ErrorKinds :
         hand' = [hand EXCEPT ![d] =
                   [k \in Keys |->
                      IF k \in bad THEN [@[k] EXCEPT !.step = "refuse", !.kind = kind]
                      ELSE IF @[k].step = "layout" THEN [@[k] EXCEPT !.step = "get"]
                      ELSE @[k]]]
  BY DEF LoadLayout
<1> DEFINE g == [k \in Keys |->
                   IF k \in bad THEN [hand[d][k] EXCEPT !.step = "refuse", !.kind = kind]
                   ELSE IF hand[d][k].step = "layout" THEN [hand[d][k] EXCEPT !.step = "get"]
                   ELSE hand[d][k]]
<1>2. \A k \in Keys : hand[d][k] \in HandType
  BY DEF TypeHands
<1>3. ASSUME NEW k \in Keys
      PROVE  /\ g[k] \in HandType /\ g[k].entry = hand[d][k].entry
             /\ \/ g[k] = hand[d][k]
                \/ hand[d][k].step = "layout" /\ g[k].step \in {"refuse", "get"}
  <2>1. CASE k \in bad
    <3>1. hand[d][k].step = "layout" /\ kind \in {"transient", "terminal"}
      BY <2>1 DEF Held, ErrorKinds
    <3>2. g[k] = [hand[d][k] EXCEPT !.step = "refuse", !.kind = kind]
      BY <2>1
    <3> QED BY <1>2, <3>1, <3>2 DEF HandType
  <2>2. CASE k \notin bad /\ hand[d][k].step = "layout"
    <3>1. g[k] = [hand[d][k] EXCEPT !.step = "get"]
      BY <2>2
    <3> QED BY <1>2, <2>2, <3>1 DEF HandType
  <2>3. CASE k \notin bad /\ hand[d][k].step # "layout"
    BY <1>2, <2>3
  <2> QED BY <2>1, <2>2, <2>3
<1>4. g \in [Keys -> HandType]
  BY <1>3
<1>5. hand' = [hand EXCEPT ![d] = g]
  BY <1>1
<1> HIDE DEF g
<1>6. /\ TypeHands' /\ \A k \in Keys : hand'[d][k] = g[k]
      /\ \A e \in Drainers, k \in Keys : e # d => hand'[e][k] = hand[e][k]
  BY <1>4, <1>5, ReplaceHands
<1>7. \A k \in Keys : hand[d][k].step = "layout" => hand[d][k] # Free
  BY HeldNotFree
<1> QED BY <1>3, <1>6, <1>7 DEF Kept, NoNewReport, HandsFit

LEMMA GetEffect ==
    ASSUME TypeHands, HandsFit, NEW d \in Drainers, NEW k \in Keys, GetPartition(d, k)
    PROVE  /\ TypeHands' /\ Kept
           /\ \A e \in Drainers, j \in Keys : e # d \/ j # k => hand'[e][j] = hand[e][j]
           /\ hand'[d][k].step \in {"equal", "written"} => glue[k] = hand'[d][k].entry.intent
<1>1. PICK s \in {"missing", "equal", "differs", "error"}, q \in Kinds :
         Holding(d, k, s, q) /\ (s = "equal" => glue[k] = hand[d][k].entry.intent)
  <2>1. CASE Holding(d, k, IF glue[k] = Nowhere THEN "missing"
                           ELSE IF glue[k] = hand[d][k].entry.intent THEN "equal"
                           ELSE "differs", "none")
    BY <2>1 DEF Kinds
  <2>2. CASE \E kind \in ErrorKinds : Holding(d, k, "error", kind)
    BY <2>2 DEF Kinds, ErrorKinds
  <2> QED BY <2>1, <2>2 DEF GetPartition
<1>2. hand[d][k] # Free
  BY HeldNotFree DEF GetPartition
<1>3. /\ TypeHands' /\ hand'[d][k].entry = hand[d][k].entry /\ hand'[d][k].step = s
      /\ \A e \in Drainers, j \in Keys : e # d \/ j # k => hand'[e][j] = hand[e][j]
  BY <1>1, HoldingEffect DEF Steps
<1> QED BY <1>1, <1>2, <1>3 DEF Kept, HandsFit

LEMMA UpdateEffect ==
    ASSUME TypeHands, HandsFit, NEW d \in Drainers, NEW k \in Keys, UpdatePartition(d, k),
           glue \in [Keys -> Locations \cup {Nowhere}]
    PROVE  /\ TypeHands' /\ Kept /\ hand[d][k] # Free
           /\ \A e \in Drainers, j \in Keys : e # d \/ j # k => hand'[e][j] = hand[e][j]
           /\ hand'[d][k].step \in {"equal", "written"} => glue'[k] = hand'[d][k].entry.intent
           /\ \A j \in Keys : j # k => glue'[j] = glue[j]
           /\ glue'[k] \in {glue[k], hand[d][k].entry.intent}
           /\ glue' \in [Keys -> Locations \cup {Nowhere}]
<1>1. hand[d][k] # Free /\ hand[d][k].entry # NoEntry
  BY HeldNotFree DEF UpdatePartition
<1>2. hand[d][k].entry.intent \in Locations
  <2>1. hand[d][k].entry \in EntryType
    BY <1>1 DEF TypeHands, HandType
  <2> QED BY <2>1 DEF EntryType
<1>3. PICK s \in {"written", "error"}, q \in Kinds :
         /\ Holding(d, k, s, q)
         /\ s = "written" => glue' = [glue EXCEPT ![k] = hand[d][k].entry.intent]
         /\ glue' = glue \/ glue' = [glue EXCEPT ![k] = hand[d][k].entry.intent]
  <2>1. CASE /\ glue' = [glue EXCEPT ![k] = hand[d][k].entry.intent]
             /\ Holding(d, k, "written", "none")
    BY <2>1 DEF Kinds
  <2>2. CASE /\ glue' = glue \/ glue' = [glue EXCEPT ![k] = hand[d][k].entry.intent]
             /\ \E kind \in ErrorKinds : Holding(d, k, "error", kind)
    BY <2>2 DEF Kinds, ErrorKinds
  <2> QED BY <2>1, <2>2 DEF UpdatePartition
<1>4. /\ TypeHands' /\ hand'[d][k].entry = hand[d][k].entry /\ hand'[d][k].step = s
      /\ \A e \in Drainers, j \in Keys : e # d \/ j # k => hand'[e][j] = hand[e][j]
  BY <1>3, HoldingEffect DEF Steps
<1> QED BY <1>1, <1>2, <1>3, <1>4 DEF Kept, HandsFit

LEMMA CreateEffect ==
    ASSUME TypeHands, HandsFit, NEW d \in Drainers, CreatePartitions(d),
           glue \in [Keys -> Locations \cup {Nowhere}]
    PROVE  /\ TypeHands' /\ Kept
           /\ \A e \in Drainers, k \in Keys : e # d => hand'[e][k] = hand[e][k]
           /\ \A k \in Keys : \/ hand'[d][k] = hand[d][k] /\ glue'[k] = glue[k]
                              \/ /\ hand[d][k] # Free /\ hand'[d][k].entry = hand[d][k].entry
                                 /\ \/ /\ hand'[d][k].step = "written"
                                       /\ glue'[k] = hand[d][k].entry.intent
                                    \/ /\ hand'[d][k].step = "error"
                                       /\ glue'[k] \in {glue[k], hand[d][k].entry.intent}
           /\ glue' \in [Keys -> Locations \cup {Nowhere}]
<1> DEFINE missing == Held(d, {"missing"})
           absent == {k \in missing : glue[k] = Nowhere}
           H(S, kind) == [k \in Keys |->
                 IF k \notin missing THEN hand[d][k]
                 ELSE IF k \in S THEN [hand[d][k] EXCEPT !.step = "written"]
                 ELSE [hand[d][k] EXCEPT !.step = "error",
                         !.kind = IF k \in absent THEN kind ELSE "transient"]]
           E(kind) == [k \in Keys |->
                 IF k \in missing THEN [hand[d][k] EXCEPT !.step = "error", !.kind = kind]
                 ELSE hand[d][k]]
<1>0. PICK made \in SUBSET absent :
         /\ glue' = [k \in Keys |-> IF k \in made THEN hand[d][k].entry.intent ELSE glue[k]]
         /\ \E g : /\ hand' = [hand EXCEPT ![d] = g]
                  /\ \E kind \in ErrorKinds : g = H(made, kind) \/ g = E(kind)
  <2>1. CASE \E failed \in SUBSET absent, kind \in ErrorKinds :
               /\ glue' = [k \in Keys |-> IF k \in absent \ failed THEN hand[d][k].entry.intent
                                          ELSE glue[k]]
               /\ hand' = [hand EXCEPT ![d] = H(absent \ failed, kind)]
    <3>1. PICK failed \in SUBSET absent, kind \in ErrorKinds :
               /\ glue' = [k \in Keys |-> IF k \in absent \ failed THEN hand[d][k].entry.intent
                                          ELSE glue[k]]
               /\ hand' = [hand EXCEPT ![d] = H(absent \ failed, kind)]
      BY <2>1
    <3>2. absent \ failed \in SUBSET absent
      OBVIOUS
    <3> HIDE DEF H, E, absent
    <3> QED BY <3>1, <3>2
  <2>2. CASE \E landed \in SUBSET absent, kind \in ErrorKinds :
               /\ glue' = [k \in Keys |-> IF k \in landed THEN hand[d][k].entry.intent
                                          ELSE glue[k]]
               /\ hand' = [hand EXCEPT ![d] = E(kind)]
    <3> HIDE DEF H, E, absent
    <3> QED BY <2>2
  <2> QED BY <2>1, <2>2 DEF CreatePartitions
<1>1. PICK g : /\ hand' = [hand EXCEPT ![d] = g]
               /\ \E kind \in ErrorKinds : g = H(made, kind) \/ g = E(kind)
  BY <1>0
<1>2. PICK kind \in ErrorKinds : g = H(made, kind) \/ g = E(kind)
  BY <1>1
<1>3. \A k \in Keys : hand[d][k] \in HandType
  BY DEF TypeHands
<1>4. \A k \in missing : /\ k \in Keys /\ hand[d][k] # Free /\ hand[d][k].entry # NoEntry
  <2>1. \A k \in missing : k \in Keys /\ hand[d][k].step = "missing"
    BY DEF Held
  <2> QED BY <2>1, HeldNotFree
<1>5. ASSUME NEW k \in Keys
      PROVE  /\ g[k] \in HandType /\ g[k].entry = hand[d][k].entry
             /\ k \notin missing => g[k] = hand[d][k]
             /\ k \in missing => g[k].step \in {"written", "error"}
             /\ k \in missing /\ g[k].step = "written" => k \in made
  <2>1. kind \in Kinds /\ "transient" \in Kinds
    BY DEF ErrorKinds, Kinds
  <2>2. CASE k \notin missing
    BY <1>2, <1>3, <2>2
  <2>3. CASE k \in missing /\ g[k] = [hand[d][k] EXCEPT !.step = "written"] /\ k \in made
    BY <1>3, <2>3 DEF HandType
  <2>4. CASE k \in missing /\ \E q \in Kinds : g[k] = [hand[d][k] EXCEPT !.step = "error", !.kind = q]
    BY <1>3, <2>4 DEF HandType, Kinds
  <2>5. CASE k \in missing
    <3> DEFINE q == IF k \in absent THEN kind ELSE "transient"
    <3>1. q \in Kinds
      BY <2>1
    <3>2. \/ k \in made /\ g[k] = [hand[d][k] EXCEPT !.step = "written"]
          \/ g[k] = [hand[d][k] EXCEPT !.step = "error", !.kind = q]
          \/ g[k] = [hand[d][k] EXCEPT !.step = "error", !.kind = kind]
      BY <1>2, <2>5
    <3> HIDE DEF q, missing
    <3> QED BY <2>1, <2>3, <2>4, <2>5, <3>1, <3>2
  <2> QED BY <2>2, <2>5
<1>6. g \in [Keys -> HandType]
  <2>1. DOMAIN g = Keys /\ g = [k \in Keys |-> g[k]]
    BY <1>2
  <2> HIDE DEF H, E
  <2> QED BY <1>5, <2>1
<1>7. made \subseteq missing
  OBVIOUS
<1>8. \A k \in missing : hand[d][k].entry.intent \in Locations
  <2>1. \A k \in missing : hand[d][k].entry \in EntryType
    BY <1>3, <1>4 DEF HandType
  <2> QED BY <2>1 DEF EntryType
<1> HIDE DEF H, E, missing, absent
<1>9. /\ TypeHands' /\ \A k \in Keys : hand'[d][k] = g[k]
      /\ \A e \in Drainers, k \in Keys : e # d => hand'[e][k] = hand[e][k]
  BY <1>1, <1>6, ReplaceHands
<1>10. glue' \in [Keys -> Locations \cup {Nowhere}]
  BY <1>0, <1>7, <1>8
<1>11. \A k \in Keys : glue'[k] = IF k \in made THEN hand[d][k].entry.intent ELSE glue[k]
  BY <1>0
<1>12. Kept
  BY <1>4, <1>5, <1>9 DEF Kept, HandsFit
<1> QED BY <1>4, <1>5, <1>7, <1>9, <1>10, <1>11, <1>12

----------------------------------------------------------------------------
(* How the invariant is kept                                               *)

LEMMA HoldersKept ==
    ASSUME HandsFit, OneHolder, Kept, overlapped' = overlapped
    PROVE  HandsFit' /\ OneHolder'
BY DEF HandsFit, OneHolder, Kept

LEMMA ReportsKept ==
    ASSUME ReportedIsInGlue, NoNewReport, UNCHANGED <<glue, overlapped>>
    PROVE  ReportedIsInGlue'
BY DEF ReportedIsInGlue, NoNewReport

\* Every version a crash may leave was there before or carries the intent of
\* the entry: no intent is lost.
LEMMA VersionsKept ==
    ASSUME IInv, TypeDisk, Kept, NoNewReport, UNCHANGED <<glue, wanted, overlapped>>,
           \A k \in Keys : \A v \in ondisk'[k] :
               \/ v \in ondisk[k]
               \/ v # NoEntry /\ entries[k] # NoEntry /\ v.intent = entries[k].intent
    PROVE  IInv'
<1>1. HandsFit' /\ OneHolder' /\ ReportedIsInGlue'
  BY HoldersKept, ReportsKept DEF IInv
<1>2. SomethingWanted'
  BY DEF IInv, SomethingWanted
<1>3. LateWriteIsHarmless'
  BY DEF IInv, LateWriteIsHarmless, Kept
<1>4. IntentSurvives'
  <2> SUFFICES ASSUME NEW k \in Keys \ overlapped, NEW loc \in Locations, wanted[k] = {loc},
                      NEW v \in ondisk'[k]
               PROVE  IF v = NoEntry THEN glue[k] = loc ELSE v.intent = loc
    BY DEF IntentSurvives
  <2>1. \A u \in ondisk[k] : IF u = NoEntry THEN glue[k] = loc ELSE u.intent = loc
    BY DEF IInv, IntentSurvives
  <2>2. entries[k] \in ondisk[k]
    BY DEF TypeDisk
  <2> QED BY <2>1, <2>2
<1> QED BY <1>1, <1>2, <1>3, <1>4 DEF IInv

\* A drainer writes to Glue what it holds.
LEMMA GlueWritten ==
    ASSUME IInv, TypeHands, Kept, NEW d \in Drainers, UNCHANGED <<ondisk, wanted, overlapped>>,
           \A k \in Keys : \/ glue'[k] = glue[k]
                           \/ hand[d][k] # Free /\ glue'[k] = hand[d][k].entry.intent,
           \A e \in Drainers, k \in Keys : e # d => hand'[e][k] = hand[e][k],
           \A k \in Keys : hand'[d][k].step \in {"equal", "written"} =>
               \/ hand'[d][k] = hand[d][k] /\ glue'[k] = glue[k]
               \/ glue'[k] = hand'[d][k].entry.intent
    PROVE  IInv'
<1>1. HandsFit' /\ OneHolder'
  BY HoldersKept DEF IInv
<1>2. SomethingWanted'
  BY DEF IInv, SomethingWanted
<1>3. LateWriteIsHarmless'
  BY DEF IInv, LateWriteIsHarmless, Kept
<1>4. IntentSurvives'
  <2> SUFFICES ASSUME NEW k \in Keys \ overlapped, NEW loc \in Locations, wanted[k] = {loc},
                      NEW v \in ondisk[k]
               PROVE  IF v = NoEntry THEN glue'[k] = loc ELSE v.intent = loc
    BY DEF IntentSurvives
  <2>1. IF v = NoEntry THEN glue[k] = loc ELSE v.intent = loc
    BY DEF IInv, IntentSurvives
  <2>2. v = NoEntry /\ hand[d][k] # Free => hand[d][k].entry.intent = loc
    BY DEF IInv, LateWriteIsHarmless
  <2> QED BY <2>1, <2>2
<1>5. ReportedIsInGlue'
  <2> SUFFICES ASSUME NEW e \in Drainers, NEW k \in Keys \ overlapped,
                      hand'[e][k].step \in {"equal", "written"}
               PROVE  glue'[k] = hand'[e][k].entry.intent
    BY DEF ReportedIsInGlue
  <2>1. CASE e = d
    BY <2>1 DEF IInv, ReportedIsInGlue
  <2>2. CASE e # d
    <3>1. hand'[e][k] = hand[e][k] /\ hand[e][k] # Free
      BY <2>2, FreeHand
    <3>2. hand[d][k] = Free
      BY <2>2, <3>1 DEF IInv, OneHolder
    <3> QED BY <3>1, <3>2 DEF IInv, ReportedIsInGlue
  <2> QED BY <2>1, <2>2
<1> QED BY <1>1, <1>2, <1>3, <1>4, <1>5 DEF IInv

\* The entry that a drainer has delivered is removed.
LEMMA EntryRemoved ==
    ASSUME IInv, TypeDisk, Kept, NoNewReport, NEW d \in Drainers, NEW k \in Keys,
           hand[d][k].step \in {"equal", "written"}, Current(d, k), hand'[d][k] = Free,
           \A e \in Drainers : e # d => hand'[e][k] = hand[e][k],
           UNCHANGED <<glue, wanted, overlapped>>,
           ondisk'[k] \subseteq ondisk[k] \cup {NoEntry},
           \A j \in Keys : j # k => ondisk'[j] \subseteq ondisk[j]
    PROVE  IInv'
<1>1. HandsFit' /\ OneHolder' /\ ReportedIsInGlue'
  BY HoldersKept, ReportsKept DEF IInv
<1>2. SomethingWanted'
  BY DEF IInv, SomethingWanted
<1>3. hand[d][k] # Free /\ hand[d][k].entry # NoEntry /\ entries[k] = hand[d][k].entry
  BY HeldNotFree DEF IInv, Current
<1>4. LateWriteIsHarmless'
  <2> SUFFICES ASSUME NEW e \in Drainers, NEW j \in Keys \ overlapped, NEW loc \in Locations,
                      hand'[e][j] # Free, NoEntry \in ondisk'[j], wanted[j] = {loc}
               PROVE  hand'[e][j].entry.intent = loc
    BY DEF LateWriteIsHarmless
  <2>1. CASE j # k
    BY <2>1 DEF IInv, LateWriteIsHarmless, Kept
  <2>2. CASE j = k
    BY <1>3, <2>2 DEF IInv, OneHolder
  <2> QED BY <2>1, <2>2
<1>5. IntentSurvives'
  <2> SUFFICES ASSUME NEW j \in Keys \ overlapped, NEW loc \in Locations, wanted[j] = {loc},
                      NEW v \in ondisk'[j]
               PROVE  IF v = NoEntry THEN glue[j] = loc ELSE v.intent = loc
    BY DEF IntentSurvives
  <2>1. \A u \in ondisk[j] : IF u = NoEntry THEN glue[j] = loc ELSE u.intent = loc
    BY DEF IInv, IntentSurvives
  <2>2. CASE v \in ondisk[j]
    BY <2>1, <2>2
  <2>3. CASE j = k /\ v = NoEntry
    <3>1. entries[k] \in ondisk[k]
      BY DEF TypeDisk
    <3>2. entries[k].intent = loc
      BY <1>3, <2>1, <2>3, <3>1
    <3>3. glue[k] = hand[d][k].entry.intent
      BY <2>3 DEF IInv, ReportedIsInGlue
    <3> QED BY <1>3, <2>3, <3>2, <3>3
  <2> QED BY <2>2, <2>3
<1> QED BY <1>1, <1>2, <1>4, <1>5 DEF IInv

----------------------------------------------------------------------------
(* One lemma per action                                                    *)

Inv == TypeOK /\ IInv

LEMMA PersistStep == ASSUME Inv, NEW c \in Calls, Persist(c) PROVE Inv'
<1>t. TypeEntries /\ TypeDisk /\ TypeHands /\ TypeRest /\ IInv
  BY TypeParts DEF Inv
<1>1. /\ call' = [call EXCEPT ![c] = "ok"] /\ UNCHANGED <<hand, glue, overlapped, faults, crashes>>
      /\ entries' = [k \in Keys |-> IF k \in Written(c) THEN Fresh(c, k) ELSE entries[k]]
      /\ deferred' = deferred \ Written(c) /\ Tick
      /\ wanted' = [k \in Keys |-> IF k \in DOMAIN IntentsOf[c] THEN {IntentsOf[c][k]}
                                   ELSE wanted[k]]
      /\ \/ SyncDirectory
         \/ Written(c) = {} /\ ~dirty /\ UNCHANGED <<ondisk, dirty>>
  BY DEF Persist, boundVars
<1>2. /\ TypeEntries' /\ Written(c) \subseteq Keys
      /\ \A k \in Written(c) : entries'[k] # NoEntry /\ entries'[k].intent = IntentsOf[c][k]
      /\ \A k \in Keys \ Written(c) : entries'[k] = entries[k]
  BY <1>t, <1>1, WriteEffect
<1>3. \A k \in DOMAIN IntentsOf[c] : k \in Keys /\ IntentsOf[c][k] \in Locations
  BY IntentAssumption
<1>4. TypeDisk'
  <2>1. CASE SyncDirectory
    BY <1>2, <2>1, TypeSynced
  <2>2. CASE Written(c) = {} /\ UNCHANGED <<ondisk, dirty>>
    BY <1>t, <1>2, <2>2 DEF TypeDisk
  <2> QED BY <1>1, <2>1, <2>2
<1>5. TypeHands' /\ TypeRest'
  BY <1>t, <1>1, <1>3 DEF TypeHands, TypeRest
<1>6. \A k \in Keys : ondisk'[k] = {entries'[k]}
  <2>1. CASE SyncDirectory
    BY <2>1 DEF SyncDirectory
  <2>2. CASE Written(c) = {} /\ ~dirty /\ UNCHANGED <<ondisk, dirty>>
    BY <1>t, <1>2, <2>2 DEF TypeDisk
  <2> QED BY <1>1, <2>1, <2>2
<1>7. \A k \in DOMAIN IntentsOf[c] :
          entries'[k] # NoEntry /\ entries'[k].intent = IntentsOf[c][k]
  BY <1>2, <1>3 DEF Written
<1>8. Kept /\ NoNewReport
  BY <1>t, <1>1, HandsUnchanged DEF IInv
<1>9. HandsFit' /\ OneHolder' /\ ReportedIsInGlue'
  BY <1>t, <1>1, <1>8, HoldersKept, ReportsKept DEF IInv
<1>10. SomethingWanted'
  BY <1>t, <1>1 DEF IInv, SomethingWanted
<1>11. \A k \in Keys : k \notin DOMAIN IntentsOf[c] =>
           wanted'[k] = wanted[k] /\ entries'[k] = entries[k] /\ entries[k] \in ondisk[k]
  BY <1>t, <1>1, <1>2 DEF Written, TypeDisk
<1>12. \A k \in DOMAIN IntentsOf[c] : wanted'[k] = {IntentsOf[c][k]}
  BY <1>1, <1>3
<1>13. LateWriteIsHarmless'
  <2> SUFFICES ASSUME NEW d \in Drainers, NEW k \in Keys \ overlapped, NEW loc \in Locations,
                      hand[d][k] # Free, NoEntry \in ondisk'[k], wanted'[k] = {loc}
               PROVE  hand[d][k].entry.intent = loc
    BY <1>1 DEF LateWriteIsHarmless
  <2>1. k \notin DOMAIN IntentsOf[c]
    BY <1>6, <1>7
  <2> QED BY <1>t, <1>6, <1>11, <2>1 DEF IInv, LateWriteIsHarmless
<1>14. IntentSurvives'
  <2> SUFFICES ASSUME NEW k \in Keys \ overlapped, NEW loc \in Locations, wanted'[k] = {loc},
                      NEW v \in ondisk'[k]
               PROVE  IF v = NoEntry THEN glue[k] = loc ELSE v.intent = loc
    BY <1>1 DEF IntentSurvives
  <2>1. v = entries'[k]
    BY <1>6
  <2>2. CASE k \in DOMAIN IntentsOf[c]
    BY <1>7, <1>12, <2>1, <2>2
  <2>3. CASE k \notin DOMAIN IntentsOf[c]
    BY <1>t, <1>11, <2>1, <2>3 DEF IInv, IntentSurvives
  <2> QED BY <2>2, <2>3
<1>15. TypeOK' /\ IInv'
  BY <1>2, <1>4, <1>5, <1>9, <1>10, <1>13, <1>14 DEF TypeOK, TypeEntries, TypeDisk, TypeHands,
      TypeRest, IInv
<1> QED BY <1>15 DEF Inv

LEMMA PersistFailsStep == ASSUME Inv, NEW c \in Calls, PersistFails(c) PROVE Inv'
<1>t. TypeEntries /\ TypeDisk /\ TypeHands /\ TypeRest /\ IInv
  BY TypeParts DEF Inv
<1>1. PICK S \in SUBSET Written(c) :
        /\ entries' = [k \in Keys |-> IF k \in S THEN Fresh(c, k) ELSE entries[k]]
        /\ LeaveUnsynced(S) /\ deferred' = deferred \ S
        /\ wanted' = [k \in Keys |-> IF k \in S THEN wanted[k] \cup {IntentsOf[c][k]}
                                     ELSE wanted[k]]
  BY DEF PersistFails
<1>2. /\ call' = [call EXCEPT ![c] = "failed"] /\ Tick /\ Fault
      /\ UNCHANGED <<hand, glue, overlapped, crashes>>
  BY DEF PersistFails
<1>3. /\ TypeEntries' /\ S \subseteq Keys
      /\ \A k \in S : entries'[k] # NoEntry /\ entries'[k].intent = IntentsOf[c][k]
      /\ \A k \in Keys \ S : entries'[k] = entries[k]
  BY <1>t, <1>1, <1>2, WriteEffect
<1>4. \A k \in S : k \in Keys /\ IntentsOf[c][k] \in Locations
  BY IntentAssumption DEF Written
<1>5. TypeDisk'
  BY <1>t, <1>1, <1>3, TypeUnsynced
<1>6. TypeHands' /\ TypeRest'
  BY <1>t, <1>1, <1>2, <1>4, OutboxBoundsAssumption DEF TypeHands, TypeRest, Fault
<1>7. Kept /\ NoNewReport
  BY <1>t, <1>2, HandsUnchanged DEF IInv
<1>8. HandsFit' /\ OneHolder' /\ ReportedIsInGlue'
  BY <1>t, <1>2, <1>7, HoldersKept, ReportsKept DEF IInv
<1>9. SomethingWanted'
  BY <1>t, <1>1 DEF IInv, SomethingWanted
<1>10. \A k \in Keys : ondisk'[k] \subseteq ondisk[k] \cup {entries'[k]}
  BY <1>1 DEF LeaveUnsynced
<1>11. \A k \in Keys \ S : ondisk'[k] = ondisk[k] /\ wanted'[k] = wanted[k]
  BY <1>1 DEF LeaveUnsynced
<1>12. ASSUME NEW k \in S, NEW loc \in Locations, wanted'[k] = {loc}
       PROVE  wanted[k] = {loc} /\ entries'[k] # NoEntry /\ entries'[k].intent = loc
  <2>1. wanted'[k] = wanted[k] \cup {IntentsOf[c][k]}
    BY <1>1, <1>4
  <2>2. wanted[k] # {}
    BY <1>t, <1>4 DEF IInv, SomethingWanted
  <2> QED BY <1>3, <1>12, <2>1, <2>2
<1>13. LateWriteIsHarmless'
  <2> SUFFICES ASSUME NEW d \in Drainers, NEW k \in Keys \ overlapped, NEW loc \in Locations,
                      hand[d][k] # Free, NoEntry \in ondisk'[k], wanted'[k] = {loc}
               PROVE  hand[d][k].entry.intent = loc
    BY <1>2 DEF LateWriteIsHarmless
  <2>1. NoEntry \in ondisk[k] /\ wanted[k] = {loc}
    BY <1>10, <1>11, <1>12
  <2> QED BY <1>t, <2>1 DEF IInv, LateWriteIsHarmless
<1>14. IntentSurvives'
  <2> SUFFICES ASSUME NEW k \in Keys \ overlapped, NEW loc \in Locations, wanted'[k] = {loc},
                      NEW v \in ondisk'[k]
               PROVE  IF v = NoEntry THEN glue[k] = loc ELSE v.intent = loc
    BY <1>2 DEF IntentSurvives
  <2>1. wanted[k] = {loc}
    BY <1>11, <1>12
  <2>2. CASE v \in ondisk[k]
    BY <1>t, <2>1, <2>2 DEF IInv, IntentSurvives
  <2>3. CASE k \in S /\ v = entries'[k]
    BY <1>12, <2>3
  <2> QED BY <1>10, <1>11, <2>2, <2>3
<1>15. TypeOK' /\ IInv'
  BY <1>3, <1>5, <1>6, <1>8, <1>9, <1>13, <1>14 DEF TypeOK, TypeEntries, TypeDisk, TypeHands,
      TypeRest, IInv
<1> QED BY <1>15 DEF Inv

\* scan_eligible_pending: what is due is taken into free hands.
LEMMA ScanStep == ASSUME Inv, NEW d \in Drainers, Scan(d) PROVE Inv'
<1>t. TypeEntries /\ TypeDisk /\ TypeHands /\ TypeRest /\ IInv
  BY TypeParts DEF Inv
<1> DEFINE g == [k \in Keys |->
            IF k \notin Due THEN Free
            ELSE IF entries[k].intent \in Inadmissible
                 THEN [entry |-> entries[k], step |-> "refuse", kind |-> "terminal"]
                 ELSE [entry |-> entries[k], step |-> "layout", kind |-> "none"]]
<1>1. /\ hand[d] = [k \in Keys |-> Free] /\ hand' = [hand EXCEPT ![d] = g]
      /\ overlapped' = overlapped \cup {k \in Due : \E e \in Drainers \ {d} : hand[e][k] # Free}
      /\ UNCHANGED <<entries, ondisk, dirty, deferred, clock, call, glue, wanted, faults, crashes>>
  BY DEF Scan, outboxVars, boundVars
<1>2. \A k \in Due : k \in Keys /\ entries[k] # NoEntry /\ entries[k] \in EntryType
  BY <1>t DEF Due, TypeEntries
<1>3. ASSUME NEW k \in Keys
      PROVE  /\ g[k] \in HandType
             /\ k \notin Due => g[k] = Free
             /\ k \in Due => g[k].entry = entries[k] /\ g[k].step \in {"refuse", "layout"}
  <2>1. CASE k \notin Due
    BY <2>1, FreeHand
  <2>2. CASE k \in Due /\ g[k] = [entry |-> entries[k], step |-> "refuse", kind |-> "terminal"]
    BY <1>2, <2>2 DEF HandType
  <2>3. CASE k \in Due /\ g[k] = [entry |-> entries[k], step |-> "layout", kind |-> "none"]
    BY <1>2, <2>3 DEF HandType
  <2> QED BY <2>1, <2>2, <2>3
<1>4. g \in [Keys -> HandType]
  BY <1>3
<1> HIDE DEF g
<1>5. /\ TypeHands' /\ \A k \in Keys : hand'[d][k] = g[k]
      /\ \A e \in Drainers, k \in Keys : e # d => hand'[e][k] = hand[e][k]
  BY <1>t, <1>1, <1>4, ReplaceHands
<1>6. TypeEntries' /\ TypeDisk' /\ TypeRest'
  BY <1>t, <1>1, <1>2 DEF TypeEntries, TypeDisk, TypeRest
<1>7. \A k \in Keys : hand[d][k] = Free
  BY <1>1
<1>8. HandsFit'
  BY <1>t, <1>2, <1>3, <1>5 DEF IInv, HandsFit
<1>9. OneHolder'
  <2> SUFFICES ASSUME NEW e \in Drainers, NEW f \in Drainers, NEW k \in Keys \ overlapped',
                      hand'[e][k] # Free, hand'[f][k] # Free, e # f
               PROVE  FALSE
    BY DEF OneHolder
  <2>1. k \in Keys \ overlapped
    BY <1>1
  <2>2. CASE e # d /\ f # d
    BY <1>t, <1>5, <2>1, <2>2 DEF IInv, OneHolder
  <2>3. CASE e = d \/ f = d
    BY <1>1, <1>3, <1>5, <2>3
  <2> QED BY <2>2, <2>3
<1>10. ReportedIsInGlue'
  <2> SUFFICES ASSUME NEW e \in Drainers, NEW k \in Keys \ overlapped',
                      hand'[e][k].step \in {"equal", "written"}
               PROVE  glue[k] = hand'[e][k].entry.intent
    BY <1>1 DEF ReportedIsInGlue
  <2>1. e # d
    BY <1>3, <1>5, FreeHand
  <2> QED BY <1>t, <1>1, <1>5, <2>1 DEF IInv, ReportedIsInGlue
<1>11. LateWriteIsHarmless'
  <2> SUFFICES ASSUME NEW e \in Drainers, NEW k \in Keys \ overlapped', NEW loc \in Locations,
                      hand'[e][k] # Free, NoEntry \in ondisk[k], wanted[k] = {loc}
               PROVE  hand'[e][k].entry.intent = loc
    BY <1>1 DEF LateWriteIsHarmless
  <2>1. k \in Keys \ overlapped
    BY <1>1
  <2>2. CASE e # d
    BY <1>t, <1>5, <2>1, <2>2 DEF IInv, LateWriteIsHarmless
  <2>3. CASE e = d
    <3>1. k \in Due /\ hand'[e][k].entry = entries[k]
      BY <1>3, <1>5, <2>3
    <3>2. entries[k] # NoEntry /\ entries[k] \in ondisk[k]
      BY <1>t, <1>2, <3>1 DEF TypeDisk
    <3> QED BY <1>t, <2>1, <3>1, <3>2 DEF IInv, IntentSurvives
  <2> QED BY <2>2, <2>3
<1>12. SomethingWanted' /\ IntentSurvives'
  BY <1>t, <1>1 DEF IInv, SomethingWanted, IntentSurvives
<1>13. TypeOK' /\ IInv'
  BY <1>5, <1>6, <1>8, <1>9, <1>10, <1>11, <1>12 DEF TypeOK, TypeEntries, TypeDisk, TypeHands,
      TypeRest, IInv
<1> QED BY <1>13 DEF Inv

\* Steps of a drainer that look at Glue or write to it.
LEMMA GlueStep ==
    ASSUME Inv, NEW d \in Drainers,
           \/ LoadLayout(d) \/ CreatePartitions(d)
           \/ \E k \in Keys : GetPartition(d, k) \/ UpdatePartition(d, k)
    PROVE  Inv'
<1>t. TypeEntries /\ TypeDisk /\ TypeHands /\ TypeRest /\ IInv
  BY TypeParts DEF Inv
<1>h. HandsFit /\ glue \in [Keys -> Locations \cup {Nowhere}]
  BY <1>t DEF IInv, TypeRest
<1>1. /\ UNCHANGED <<entries, ondisk, dirty, deferred, clock, call, wanted, overlapped, crashes>>
      /\ UNCHANGED faults \/ Fault
  BY DEF LoadLayout, CreatePartitions, GetPartition, UpdatePartition, outboxVars
<1>2. TypeEntries' /\ TypeDisk'
  BY <1>t, <1>1 DEF TypeEntries, TypeDisk
<1>3. faults' \in 0..MaxFaults
  BY <1>t, <1>1, OutboxBoundsAssumption DEF TypeRest, Fault
<1>4. CASE LoadLayout(d)
  <2>1. TypeHands' /\ Kept /\ NoNewReport
    BY <1>t, <1>h, <1>4, LayoutEffect
  <2>2. glue' = glue
    BY <1>4 DEF LoadLayout
  <2>3. IInv'
    BY <1>t, <1>1, <2>1, <2>2, VersionsKept
  <2>4. TypeRest'
    BY <1>t, <1>1, <1>3, <2>2 DEF TypeRest
  <2> QED BY <1>2, <2>1, <2>3, <2>4 DEF Inv, TypeOK, TypeEntries, TypeDisk, TypeHands, TypeRest
<1>5. CASE CreatePartitions(d)
  <2>1. /\ TypeHands' /\ Kept
        /\ \A e \in Drainers, k \in Keys : e # d => hand'[e][k] = hand[e][k]
        /\ \A k \in Keys : \/ hand'[d][k] = hand[d][k] /\ glue'[k] = glue[k]
                           \/ /\ hand[d][k] # Free /\ hand'[d][k].entry = hand[d][k].entry
                              /\ \/ /\ hand'[d][k].step = "written"
                                    /\ glue'[k] = hand[d][k].entry.intent
                                 \/ /\ hand'[d][k].step = "error"
                                    /\ glue'[k] \in {glue[k], hand[d][k].entry.intent}
        /\ glue' \in [Keys -> Locations \cup {Nowhere}]
    BY <1>t, <1>h, <1>5, CreateEffect
  <2>2. /\ \A k \in Keys : \/ glue'[k] = glue[k]
                           \/ hand[d][k] # Free /\ glue'[k] = hand[d][k].entry.intent
        /\ \A k \in Keys : hand'[d][k].step \in {"equal", "written"} =>
               \/ hand'[d][k] = hand[d][k] /\ glue'[k] = glue[k]
               \/ glue'[k] = hand'[d][k].entry.intent
    BY <2>1
  <2>3. IInv'
    BY <1>t, <1>1, <2>1, <2>2, GlueWritten
  <2>4. TypeRest'
    BY <1>t, <1>1, <1>3, <2>1 DEF TypeRest
  <2> QED BY <1>2, <2>1, <2>3, <2>4 DEF Inv, TypeOK, TypeEntries, TypeDisk, TypeHands, TypeRest
<1>6. ASSUME NEW k \in Keys, GetPartition(d, k) PROVE Inv'
  <2>1. /\ TypeHands' /\ Kept
        /\ \A e \in Drainers, j \in Keys : e # d \/ j # k => hand'[e][j] = hand[e][j]
        /\ hand'[d][k].step \in {"equal", "written"} => glue[k] = hand'[d][k].entry.intent
    BY <1>t, <1>h, <1>6, GetEffect
  <2>2. glue' = glue
    BY <1>6 DEF GetPartition
  <2>3. IInv'
    BY <1>t, <1>1, <2>1, <2>2, GlueWritten
  <2>4. TypeRest'
    BY <1>t, <1>1, <1>3, <2>2 DEF TypeRest
  <2> QED BY <1>2, <2>1, <2>3, <2>4 DEF Inv, TypeOK, TypeEntries, TypeDisk, TypeHands, TypeRest
<1>7. ASSUME NEW k \in Keys, UpdatePartition(d, k) PROVE Inv'
  <2>1. /\ TypeHands' /\ Kept /\ hand[d][k] # Free
        /\ \A e \in Drainers, j \in Keys : e # d \/ j # k => hand'[e][j] = hand[e][j]
        /\ hand'[d][k].step \in {"equal", "written"} => glue'[k] = hand'[d][k].entry.intent
        /\ \A j \in Keys : j # k => glue'[j] = glue[j]
        /\ glue'[k] \in {glue[k], hand[d][k].entry.intent}
        /\ glue' \in [Keys -> Locations \cup {Nowhere}]
    BY <1>t, <1>h, <1>7, UpdateEffect
  <2>2. IInv'
    BY <1>t, <1>1, <2>1, GlueWritten
  <2>3. TypeRest'
    BY <1>t, <1>1, <1>3, <2>1 DEF TypeRest
  <2> QED BY <1>2, <2>1, <2>2, <2>3 DEF Inv, TypeOK, TypeEntries, TypeDisk, TypeHands, TypeRest
<1> QED BY <1>4, <1>5, <1>6, <1>7

\* mark_delivered_if, done or failing.
LEMMA MarkStep ==
    ASSUME Inv, NEW d \in Drainers, NEW k \in Keys, MarkDelivered(d, k) \/ MarkFails(d, k)
    PROVE  Inv'
<1>t. TypeEntries /\ TypeDisk /\ TypeHands /\ TypeRest /\ IInv
  BY TypeParts DEF Inv
<1>1. /\ hand[d][k].step \in {"equal", "written"}
      /\ UNCHANGED <<clock, call, glue, wanted, overlapped, crashes>>
      /\ UNCHANGED faults \/ Fault
      /\ Drop(d, k) \/ DropAll(d)
  BY DEF MarkDelivered, MarkFails, boundVars
<1>2. TypeHands' /\ Kept /\ NoNewReport /\ hand'[d][k] = Free
  BY <1>t, <1>1, HandDropped DEF IInv
<1>3. \A e \in Drainers : e # d => hand'[e][k] = hand[e][k]
  BY <1>t, <1>1, DropEffect, DropAllEffect
<1>4. TypeRest'
  BY <1>t, <1>1, OutboxBoundsAssumption DEF TypeRest, Fault
<1>5. CASE UNCHANGED <<entries, ondisk, dirty, deferred>>
  <2>1. TypeEntries' /\ TypeDisk'
    BY <1>t, <1>1, <1>5 DEF TypeEntries, TypeDisk
  <2>2. IInv'
    BY <1>t, <1>1, <1>2, <1>5, VersionsKept
  <2> QED BY <1>2, <1>4, <2>1, <2>2 DEF Inv, TypeOK, TypeEntries, TypeDisk, TypeHands, TypeRest
<1>6. CASE /\ Current(d, k) /\ entries' = [entries EXCEPT ![k] = NoEntry]
           /\ deferred' = deferred \ {k} /\ (SyncDirectory \/ LeaveUnsynced({k}))
  <2>1. TypeEntries'
    BY <1>t, <1>1, <1>6 DEF TypeEntries
  <2>2. entries'[k] = NoEntry /\ \A j \in Keys : j # k => entries'[j] = entries[j]
    BY <1>t, <1>6 DEF TypeEntries
  <2>3. TypeDisk'
    BY <1>t, <1>6, <2>1, <2>2, TypeSynced, TypeUnsynced
  <2>4. /\ ondisk'[k] \subseteq ondisk[k] \cup {NoEntry}
        /\ \A j \in Keys : j # k => ondisk'[j] \subseteq ondisk[j]
    BY <1>t, <1>6, <2>2 DEF SyncDirectory, LeaveUnsynced, TypeDisk
  <2>5. IInv'
    BY <1>t, <1>1, <1>2, <1>3, <1>6, <2>4, EntryRemoved
  <2> QED BY <1>2, <1>4, <2>1, <2>3, <2>5 DEF Inv, TypeOK, TypeEntries, TypeDisk, TypeHands,
      TypeRest
<1> QED BY <1>5, <1>6 DEF MarkDelivered, MarkFails

\* record_failure_if, done or failing.
LEMMA RecordStep ==
    ASSUME Inv, NEW d \in Drainers, NEW k \in Keys, RecordFailure(d, k) \/ RecordFails(d, k)
    PROVE  Inv'
<1>t. TypeEntries /\ TypeDisk /\ TypeHands /\ TypeRest /\ IInv
  BY TypeParts DEF Inv
<1>1. /\ hand[d][k].step \in {"refuse", "error"}
      /\ UNCHANGED <<call, glue, wanted, overlapped, crashes>>
      /\ UNCHANGED faults \/ Fault
      /\ Drop(d, k) \/ DropAll(d)
  BY DEF RecordFailure, RecordFails, boundVars
<1>2. TypeHands' /\ Kept /\ NoNewReport
  BY <1>t, <1>1, HandDropped DEF IInv
<1>4. TypeRest'
  BY <1>t, <1>1, OutboxBoundsAssumption DEF TypeRest, Fault
<1>5. CASE UNCHANGED outboxVars
  <2>1. TypeEntries' /\ TypeDisk' /\ ondisk' = ondisk
    BY <1>t, <1>1, <1>5 DEF TypeEntries, TypeDisk, outboxVars
  <2>2. IInv'
    BY <1>t, <1>1, <1>2, <2>1, VersionsKept
  <2> QED BY <1>2, <1>4, <2>1, <2>2 DEF Inv, TypeOK, TypeEntries, TypeDisk, TypeHands, TypeRest
<1>6. CASE Current(d, k) /\ AfterFailure(d, k) /\ (SyncDirectory \/ LeaveUnsynced({k}))
  <2>1. entries[k] # NoEntry
    BY <1>t, <1>1, <1>6, HeldNotFree DEF IInv, Current
  <2>2. /\ TypeEntries' /\ entries'[k] # NoEntry /\ entries'[k].intent = entries[k].intent
        /\ \A j \in Keys : j # k => entries'[j] = entries[j]
    BY <1>t, <1>6, <2>1, AfterFailureEffect
  <2>3. TypeDisk'
    BY <1>t, <1>6, <2>2, TypeSynced, TypeUnsynced
  <2>4. \A j \in Keys : \A v \in ondisk'[j] : v \in ondisk[j] \/ (j = k /\ v = entries'[k])
    BY <1>t, <1>6, <2>2 DEF SyncDirectory, LeaveUnsynced, TypeDisk
  <2>5. IInv'
    BY <1>t, <1>1, <1>2, <2>1, <2>2, <2>4, VersionsKept
  <2> QED BY <1>2, <1>4, <2>2, <2>3, <2>5 DEF Inv, TypeOK, TypeEntries, TypeDisk, TypeHands,
      TypeRest
<1> QED BY <1>5, <1>6 DEF RecordFailure, RecordFails

\* The process dies; hands are lost and one version of each entry is left.
LEMMA CrashStep == ASSUME Inv, Crash PROVE Inv'
<1>t. TypeEntries /\ TypeDisk /\ TypeHands /\ TypeRest /\ IInv
  BY TypeParts DEF Inv
<1>1. PICK left \in [Keys -> UNION {ondisk[k] : k \in Keys}], again \in SUBSET Calls :
        /\ \A k \in Keys : left[k] \in ondisk[k]
        /\ entries' = left
        /\ ondisk' = [k \in Keys |-> {left[k]}]
        /\ deferred' = {k \in deferred : left[k] = entries[k]}
        /\ call' = [c \in Calls |-> IF c \in again \/ call[c] # "ok" THEN "todo" ELSE "ok"]
  BY DEF Crash
<1>2. /\ crashes < MaxCrashes /\ crashes' = crashes + 1 /\ dirty' = FALSE
      /\ hand' = [d \in Drainers |-> [k \in Keys |-> Free]]
      /\ UNCHANGED <<clock, glue, wanted, overlapped, faults>>
  BY DEF Crash
<1>3. TypeEntries'
  BY <1>t, <1>1, <1>2 DEF TypeEntries, TypeDisk
<1>4. TypeDisk'
  BY <1>t, <1>1, <1>2 DEF TypeDisk
<1>5. TypeHands' /\ Kept /\ NoNewReport
  BY <1>2, FreeHand DEF TypeHands, Kept, NoNewReport
<1>6. TypeRest'
  BY <1>t, <1>1, <1>2, OutboxBoundsAssumption DEF TypeRest
<1>7. \A k \in Keys : ondisk'[k] \subseteq ondisk[k]
  BY <1>1
<1>8. IInv'
  BY <1>t, <1>2, <1>5, <1>7, VersionsKept
<1> QED BY <1>3, <1>4, <1>5, <1>6, <1>8 DEF Inv, TypeOK, TypeEntries, TypeDisk, TypeHands, TypeRest

\* Steps that only look at calls and timers.
LEMMA QuietStep ==
    ASSUME Inv, (\E c \in Calls : RepeatCall(c)) \/ (\E k \in Keys : Backoff(k)) \/ UNCHANGED vars
    PROVE  Inv'
<1>t. TypeEntries /\ TypeDisk /\ TypeHands /\ TypeRest /\ IInv
  BY TypeParts DEF Inv
<1>1. /\ UNCHANGED <<entries, ondisk, dirty, clock, hand, glue, wanted, overlapped, faults, crashes>>
      /\ deferred' \subseteq deferred
      /\ call' \in [Calls -> {"todo", "ok", "failed"}]
  BY <1>t DEF RepeatCall, Backoff, vars, outboxVars, boundVars, TypeRest
<1>2. TypeEntries' /\ TypeDisk' /\ TypeHands' /\ TypeRest'
  BY <1>t, <1>1 DEF TypeEntries, TypeDisk, TypeHands, TypeRest
<1>3. Kept /\ NoNewReport
  BY <1>t, <1>1, HandsUnchanged DEF IInv
<1>4. IInv'
  BY <1>t, <1>1, <1>3, VersionsKept
<1> QED BY <1>2, <1>4 DEF Inv, TypeOK, TypeEntries, TypeDisk, TypeHands, TypeRest

LEMMA InvStep == Inv /\ [Next]_vars => Inv'
<1> SUFFICES ASSUME Inv, [Next]_vars PROVE Inv'
  OBVIOUS
<1>1. ASSUME NEW c \in Calls, Persist(c) \/ PersistFails(c) \/ RepeatCall(c) PROVE Inv'
  BY <1>1, PersistStep, PersistFailsStep, QuietStep
<1>2. ASSUME NEW d \in Drainers, Scan(d) \/ LoadLayout(d) \/ CreatePartitions(d) PROVE Inv'
  BY <1>2, ScanStep, GlueStep
<1>3. ASSUME NEW d \in Drainers, NEW k \in Keys,
             \/ GetPartition(d, k) \/ UpdatePartition(d, k) \/ MarkDelivered(d, k)
             \/ MarkFails(d, k) \/ RecordFailure(d, k) \/ RecordFails(d, k)
      PROVE  Inv'
  BY <1>3, GlueStep, MarkStep, RecordStep
<1>4. CASE Crash
  BY <1>4, CrashStep
<1>5. CASE (\E k \in Keys : Backoff(k)) \/ UNCHANGED vars
  BY <1>5, QuietStep
<1> QED BY StepCases, <1>1, <1>2, <1>3, <1>4, <1>5

\* Who removes an entry.
LEMMA RemovalStep ==
    ASSUME Inv, [Next]_vars, NEW k \in Keys \ overlapped, entries[k] # NoEntry,
           entries'[k] = NoEntry
    PROVE  \/ glue[k] = entries[k].intent
           \/ crashes' # crashes /\ NoEntry \in ondisk[k]
<1>t. TypeEntries /\ TypeDisk /\ TypeHands /\ TypeRest /\ IInv
  BY TypeParts DEF Inv
<1>1. ASSUME NEW c \in Calls, Persist(c) \/ PersistFails(c) PROVE FALSE
  <2>1. PICK S \in SUBSET Written(c) :
          /\ entries' = [j \in Keys |-> IF j \in S THEN Fresh(c, j) ELSE entries[j]]
          /\ deferred' = deferred \ S /\ Tick
    <3>1. CASE Persist(c)
      BY <3>1 DEF Persist
    <3>2. CASE PersistFails(c)
      BY <3>2 DEF PersistFails
    <3> QED BY <1>1, <3>1, <3>2
  <2> QED BY <1>t, <2>1, WriteEffect
<1>2. ASSUME NEW d \in Drainers, NEW j \in Keys, MarkDelivered(d, j) \/ MarkFails(d, j)
      PROVE  glue[k] = entries[k].intent
  <2>1. /\ hand[d][j].step \in {"equal", "written"}
        /\ \/ entries' = entries
           \/ entries' = [entries EXCEPT ![j] = NoEntry] /\ Current(d, j)
    BY <1>2 DEF MarkDelivered, MarkFails
  <2>2. j = k /\ entries[k] = hand[d][k].entry
    BY <1>t, <2>1 DEF TypeEntries, Current
  <2> QED BY <1>t, <2>1, <2>2 DEF IInv, ReportedIsInGlue
<1>3. ASSUME NEW d \in Drainers, NEW j \in Keys, RecordFailure(d, j) \/ RecordFails(d, j)
      PROVE  FALSE
  <2>1. hand[d][j].step # "none"
    BY <1>3 DEF RecordFailure, RecordFails
  <2>2. hand[d][j].entry # NoEntry
    BY <1>t, <2>1, HeldNotFree DEF IInv
  <2>3. entries' = entries \/ (Current(d, j) /\ AfterFailure(d, j))
    BY <1>3 DEF RecordFailure, RecordFails, outboxVars
  <2>4. CASE Current(d, j) /\ AfterFailure(d, j)
    BY <1>t, <2>2, <2>4, AfterFailureEffect DEF Current
  <2> QED BY <2>3, <2>4
<1>4. CASE Crash
  <2>1. entries'[k] \in ondisk[k]
    BY <1>4 DEF Crash
  <2>2. crashes' # crashes
    BY <1>t, <1>4, OutboxBoundsAssumption DEF Crash, TypeRest
  <2> QED BY <2>1, <2>2
<1>5. CASE entries' = entries
  BY <1>5
<1>6. ASSUME NEW d \in Drainers,
             \/ Scan(d) \/ LoadLayout(d) \/ CreatePartitions(d)
             \/ \E j \in Keys : GetPartition(d, j) \/ UpdatePartition(d, j)
      PROVE  entries' = entries
  BY <1>6 DEF Scan, LoadLayout, CreatePartitions, GetPartition, UpdatePartition, outboxVars
<1>7. ASSUME (\E c \in Calls : RepeatCall(c)) \/ (\E j \in Keys : Backoff(j)) \/ UNCHANGED vars
      PROVE  entries' = entries
  BY <1>7 DEF RepeatCall, Backoff, vars, outboxVars
<1> QED BY StepCases, <1>1, <1>2, <1>3, <1>4, <1>5, <1>6, <1>7

----------------------------------------------------------------------------
(* For any partitions, calls and bounds: the state of the outbox and its   *)
(* drainers is typed, and an entry in the index is one of the versions a   *)
(* crash may leave, the only one when no directory sync is owed; an intent *)
(* whose persist was acknowledged is in Glue or in every version of its    *)
(* entry a crash may leave, through failing writes, syncs and Glue calls,  *)
(* retries and crashes, as long as only one loop drains the partition; and *)
(* mark_delivered_if removes an entry only when Glue has its location.     *)
THEOREM OutboxSafety == Spec => [](TypeOK /\ IntentSurvives) /\ RemovedIsDelivered
<1>1. Init => Inv
  <2> SUFFICES ASSUME Init PROVE Inv
    OBVIOUS
  <2>1. TypeEntries
    <3>1. /\ entries \in [Keys -> EntryType \cup {NoEntry}] /\ deferred = {} /\ clock = 0
      BY DEF Init
    <3> QED BY <3>1, OutboxBoundsAssumption DEF TypeEntries
  <2>0. TypeDisk
    <3>1. /\ ondisk \in [Keys -> SUBSET (EntryType \cup {NoEntry})] /\ dirty = FALSE
          /\ \A k \in Keys : ondisk[k] = {entries[k]}
      BY DEF Init
    <3> QED BY <3>1 DEF TypeDisk
  <2>2. TypeHands
    BY FreeHand DEF Init, TypeHands
  <2>3. TypeRest
    BY OutboxBoundsAssumption DEF Init, TypeRest
  <2>4. \A d \in Drainers, k \in Keys : hand[d][k] = Free
    BY DEF Init
  <2>5. HandsFit /\ ReportedIsInGlue /\ OneHolder /\ LateWriteIsHarmless
    BY <2>4, FreeHand DEF HandsFit, ReportedIsInGlue, OneHolder, LateWriteIsHarmless
  <2>6. SomethingWanted /\ IntentSurvives
    BY IntentAssumption DEF Init, SomethingWanted, IntentSurvives
  <2> QED BY <2>0, <2>1, <2>2, <2>3, <2>5, <2>6, TypeParts DEF Inv, IInv
<1>2. Inv /\ [Next]_vars => Inv'
  BY InvStep
<1>3. Inv => TypeOK /\ IntentSurvives
  BY DEF Inv, IInv
<1>4. Inv /\ [Next]_vars =>
        [\A k \in Keys \ overlapped :
            entries[k] # NoEntry /\ entries'[k] = NoEntry
              => \/ glue[k] = entries[k].intent
                 \/ crashes' # crashes /\ NoEntry \in ondisk[k]]_vars
  BY RemovalStep
<1> QED
  BY <1>1, <1>2, <1>3, <1>4, PTL DEF Spec, RemovedIsDelivered
=============================================================================
