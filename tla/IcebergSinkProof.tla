-------------------------- MODULE IcebergSinkProof --------------------------
(* TLAPS proofs about IcebergSink, for any number of groups, processes,    *)
(* calls, attempts and faults.                                             *)
EXTENDS IcebergSink, TLAPS

(* The inductive invariant.  A copy of the table, cached or a call's base, *)
(* that has the current snapshot has every snapshot the table has, and a   *)
(* call that has to commit finds its group in the table if it is written.  *)
(* So a commit the catalog takes is of a group that is not written.        *)

Written(r) == {g \in Groups : r[g] = 1}

\* t is the table tab as it was at some time, r the commits so far.
Seen(t, tab, r) ==
    /\ t.version <= tab.version /\ t.snaps \subseteq Written(r)
    /\ t.version = tab.version => tab.snaps \subseteq t.snaps

\* What a call k relies on: table t, commits r, manifests m, token tk and
\* acknowledged groups a.
Fits(k, t, r, m, tk, a) ==
    k.pc # "idle" =>
        /\ k.g \in Groups /\ k.w \in Writers /\ Groups \ k.live \subseteq a
        /\ k.base # NoTable => Seen(k.base, t, r)
        /\ k.pc \in {"receipt", "commit"} => (r[k.g] = 1 => k.g \in t.snaps)
        /\ k.pc \in {"receipt", "commit", "state"} =>
              k.files \in Files /\ (k.files = "empty" => tk >= k.g)
        /\ k.pc \in {"state", "manifest", "expire"} => r[k.g] = 1
        /\ k.pc \in {"manifest", "expire"} => tk >= k.g
        /\ k.pc = "expire" => k.g \in m

LedgerOK ==
    /\ \A g \in Groups : rows[g] \in {0, 1}
    /\ table.snaps \subseteq Written(rows)
    /\ \A g \in manifest : rows[g] = 1 /\ tokens >= g
    /\ acked \subseteq manifest
    /\ GateSurvives

RequestsOK ==
    /\ \A g \in Groups : receipt[g] = "empty" => tokens >= g
    /\ \A f \in flight : /\ f.version <= table.version
                         /\ f.version = table.version => rows[f.g] = 0

CachesOK == \A w \in Writers : cache[w] # NoTable => Seen(cache[w], table, rows)

CallsOK == \A c \in Calls : Fits(call[c], table, rows, manifest, tokens, acked)

IInv == TypeOK /\ LedgerOK /\ RequestsOK /\ CachesOK /\ CallsOK

----------------------------------------------------------------------------
LEMMA GroupIsNat == \A g \in Groups : g \in Nat /\ g \in 0..NumGroups
BY SinkAssumption DEF Groups

LEMMA IdleIsCall == Idle \in CallType
BY SinkAssumption DEF Idle, CallType

LEMMA CommittedTable ==
    ASSUME NEW t \in TableType, NEW g \in Groups
    PROVE  CommitTo(t, g) \in TableType /\ CommitTo(t, g).version = t.version + 1
           /\ CommitTo(t, g).snaps = t.snaps \cup {g}
BY GroupIsNat DEF CommitTo, TableType

(* What a step of the store keeps for every call and every copy.           *)
Kept ==
    /\ manifest \subseteq manifest' /\ acked \subseteq acked' /\ tokens <= tokens'
    /\ \A x \in TableType : Seen(x, table, rows) => Seen(x, table', rows')
    /\ \A g \in Groups : rows[g] = 1 => rows'[g] = 1
    /\ \A c \in Calls, g \in Groups :
          Active(c) /\ call[c].g = g /\ (rows[g] = 1 => g \in table.snaps)
              => (rows'[g] = 1 => g \in table'.snaps)

\* No commit: nothing is lost.
LEMMA KeptSame ==
    ASSUME TypeOK, UNCHANGED <<table, rows>>, manifest \subseteq manifest', acked \subseteq acked',
           tokens <= tokens'
    PROVE  Kept
BY DEF Kept

\* A commit of a group that is not written.
LEMMA KeptByCommit ==
    ASSUME IInv, NEW g \in Groups, NEW files, rows[g] = 0, Committed(g, files),
           UNCHANGED <<manifest, acked, tokens>>
    PROVE  /\ Kept /\ LedgerOK'
           /\ table' \in TableType /\ rows' \in [Groups -> Nat] /\ visible' \subseteq Groups
           /\ table'.version = table.version + 1 /\ rows'[g] = 1 /\ table' = CommitTo(table, g)
           /\ Seen(table', table', rows')
<1>1. table \in TableType /\ rows \in [Groups -> Nat] /\ visible \subseteq Groups /\ tokens \in Nat
  BY SinkAssumption DEF IInv, TypeOK
<1>2. /\ table' \in TableType /\ table'.version = table.version + 1
      /\ table'.snaps = table.snaps \cup {g} /\ table' = CommitTo(table, g)
  BY <1>1, CommittedTable DEF Committed
<1>3. rows' = [rows EXCEPT ![g] = 1] /\ rows' \in [Groups -> Nat]
  BY <1>1 DEF Committed
<1>4. visible' \subseteq Groups
  BY <1>1 DEF Committed
<1>5. table.version \in Nat
  BY <1>1 DEF TableType
<1>6. Written(rows) \cup {g} = Written(rows')
  BY <1>1, <1>3 DEF Written
<1>7. ASSUME NEW x \in TableType, Seen(x, table, rows) PROVE Seen(x, table', rows')
  <2>1. x.version \in Nat
    BY DEF TableType
  <2> QED BY <1>2, <1>5, <1>6, <1>7, <2>1 DEF Seen
<1>8. \A h \in Groups : h # g => rows'[h] = rows[h]
  BY <1>1, <1>3
<1>9. rows'[g] = 1
  BY <1>1, <1>3
<1>10. Kept
  <2>1. manifest \subseteq manifest' /\ acked \subseteq acked' /\ tokens <= tokens'
    BY <1>1
  <2>2. \A h \in Groups : rows[h] = 1 => rows'[h] = 1
    BY <1>8, <1>9
  <2>3. \A h \in Groups : (rows[h] = 1 => h \in table.snaps)
                              => (rows'[h] = 1 => h \in table'.snaps)
    BY <1>2, <1>8
  <2> QED BY <1>7, <2>1, <2>2, <2>3 DEF Kept
<1>11. table'.snaps \subseteq Written(rows')
  BY <1>2, <1>6 DEF IInv, LedgerOK
<1>12. LedgerOK'
  <2>1. \A h \in Groups : rows'[h] \in {0, 1}
    BY <1>8, <1>9 DEF IInv, LedgerOK
  <2>2. \A h \in manifest' : rows'[h] = 1 /\ tokens' >= h
    BY <1>8, <1>9 DEF IInv, LedgerOK, TypeOK
  <2>3. GateSurvives'
    BY <1>2, <1>8 DEF IInv, LedgerOK, GateSurvives
  <2> QED BY <1>11, <2>1, <2>2, <2>3 DEF IInv, LedgerOK
<1>13. Seen(table', table', rows')
  BY <1>2, <1>5, <1>11 DEF Seen
<1> QED BY <1>2, <1>3, <1>4, <1>9, <1>10, <1>12, <1>13

\* One call moves on, the others keep what they rely on.
LEMMA OneCall ==
    ASSUME IInv, Kept, NEW c \in Calls, NEW k \in CallType, call' = [call EXCEPT ![c] = k],
           TypeOK', Fits(k, table', rows', manifest', tokens', acked')
    PROVE  CallsOK'
<1> SUFFICES ASSUME NEW d \in Calls
             PROVE  Fits(call'[d], table', rows', manifest', tokens', acked')
  BY DEF CallsOK
<1>1. CASE d = c
  BY <1>1 DEF IInv, TypeOK
<1>2. CASE d # c
  <2>1. call'[d] = call[d] /\ call[d] \in CallType
    BY <1>2 DEF IInv, TypeOK
  <2>2. Fits(call[d], table, rows, manifest, tokens, acked)
    BY DEF IInv, CallsOK
  <2>3. call[d].base # NoTable => call[d].base \in TableType
    BY <2>1 DEF CallType
  <2>4. tokens \in Nat /\ tokens' \in Nat
    BY SinkAssumption DEF IInv, TypeOK
  <2> QED BY <2>1, <2>2, <2>3, <2>4, GroupIsNat DEF Fits, Kept, Active
<1> QED BY <1>1, <1>2

\* A step that leaves the stores alone.
LEMMA QuietStep ==
    ASSUME IInv, TypeOK', UNCHANGED storeVars, acked \subseteq acked', acked' \subseteq manifest,
           \A w \in Writers : cache'[w] # NoTable => Seen(cache'[w], table, rows)
    PROVE  Kept /\ LedgerOK' /\ RequestsOK' /\ CachesOK'
<1>1. tokens \in Nat
  BY SinkAssumption DEF IInv, TypeOK
<1>2. Kept
  BY <1>1, KeptSame DEF IInv, storeVars
<1> QED BY <1>2 DEF IInv, LedgerOK, GateSurvives, RequestsOK, CachesOK, storeVars

\* What Return does to the host and to the call.
LEMMA ReturnFacts ==
    ASSUME IInv, NEW c \in Calls, NEW ok \in BOOLEAN, Return(c, ok), Active(c)
    PROVE  /\ call' = [call EXCEPT ![c] = Idle] /\ call' \in [Calls -> CallType]
           /\ lane' \in [Writers -> Calls \cup {NoCall}]
           /\ awaited' \in Calls \cup {NoCall}
           /\ acked' \subseteq Groups /\ acked \subseteq acked'
           /\ acked' \subseteq acked \cup {call[c].g}
           /\ ~ok => acked' = acked
<1>1. call[c].g \in Groups
  BY DEF IInv, CallsOK, Fits, Active
<1> QED BY <1>1, IdleIsCall DEF Return, IInv, TypeOK

\* The state of the calls after one of them has returned.
LEMMA AfterReturn ==
    ASSUME IInv, Kept, TypeOK', NEW c \in Calls, call' = [call EXCEPT ![c] = Idle]
    PROVE  CallsOK'
<1>1. Fits(Idle, table', rows', manifest', tokens', acked')
  BY DEF Fits, Idle
<1> QED BY <1>1, IdleIsCall, OneCall

\* A call that returns without having touched the stores.
LEMMA QuietReturn ==
    ASSUME IInv, NEW c \in Calls, NEW ok \in BOOLEAN, Return(c, ok), Active(c),
           UNCHANGED <<cache, storeVars>>, faults' \in 0..MaxFaults,
           ok => call[c].g \in manifest
    PROVE  IInv'
<1>1. TypeOK'
  BY ReturnFacts DEF IInv, TypeOK, storeVars
<1>2. acked' \subseteq manifest /\ acked \subseteq acked'
  BY ReturnFacts DEF IInv, LedgerOK
<1>3. Kept /\ LedgerOK' /\ RequestsOK' /\ CachesOK'
  BY <1>1, <1>2, QuietStep DEF IInv, CachesOK
<1>4. CallsOK'
  BY <1>1, <1>3, ReturnFacts, AfterReturn
<1> QED BY <1>1, <1>3, <1>4 DEF IInv

\* A call that moves on without having touched the stores.
LEMMA QuietMove ==
    ASSUME IInv, NEW c \in Calls, NEW k \in CallType, call' = [call EXCEPT ![c] = k],
           lane' \in [Writers -> Calls \cup {NoCall}],
           awaited' \in Calls \cup {NoCall},
           UNCHANGED <<cache, storeVars, acked, faults>>,
           Fits(k, table, rows, manifest, tokens, acked)
    PROVE  IInv'
<1>1. TypeOK'
  BY DEF IInv, TypeOK, storeVars
<1>2. Kept /\ LedgerOK' /\ RequestsOK' /\ CachesOK'
  BY <1>1, QuietStep DEF IInv, CachesOK, LedgerOK
<1>3. Fits(k, table', rows', manifest', tokens', acked')
  BY DEF storeVars
<1>4. CallsOK'
  BY <1>1, <1>2, <1>3, OneCall
<1> QED BY <1>1, <1>2, <1>4 DEF IInv

LEMMA CallFacts ==
    ASSUME IInv, NEW c \in Calls
    PROVE  /\ call[c] \in CallType
           /\ Fits(call[c], table, rows, manifest, tokens, acked)
           /\ tokens \in Nat /\ table \in TableType /\ rows \in [Groups -> Nat]
           /\ Active(c) => call[c].g \in Groups /\ call[c].w \in Writers
BY SinkAssumption DEF IInv, TypeOK, CallsOK, Fits, Active

LEMMA FaultCounted == ASSUME IInv, Fault PROVE faults' \in 0..MaxFaults
BY SinkAssumption DEF IInv, TypeOK, Fault

----------------------------------------------------------------------------
LEMMA DispatchInv ==
    ASSUME IInv, NEW c \in Calls, NEW g \in Groups, NEW w \in Writers, Dispatch(c, g, w)
    PROVE  IInv'
<1> DEFINE k == [Idle EXCEPT !.pc = "check", !.g = g, !.w = w, !.live = Groups \ acked]
<1>1. k \in CallType
  BY IdleIsCall, GroupIsNat DEF CallType
<1>2. /\ k.pc = "check" /\ k.g = g /\ k.w = w /\ k.live = Groups \ acked /\ k.base = NoTable
  BY DEF Idle
<1>3. Fits(k, table, rows, manifest, tokens, acked)
  <2> HIDE DEF k
  <2> QED BY <1>2 DEF Fits, IInv, TypeOK
<1>4. /\ call' = [call EXCEPT ![c] = k] /\ awaited' = c
      /\ UNCHANGED <<lane, cache, storeVars, acked, faults>>
  BY DEF Dispatch
<1> HIDE DEF k
<1> QED BY <1>1, <1>3, <1>4, QuietMove DEF IInv, TypeOK

LEMMA TimeOutInv ==
    ASSUME IInv, TimeOut
    PROVE  IInv'
<1>1. TypeOK'
  BY FaultCounted DEF IInv, TypeOK, TimeOut, storeVars
<1>2. Kept /\ LedgerOK' /\ RequestsOK' /\ CachesOK'
  BY <1>1, QuietStep DEF IInv, CachesOK, LedgerOK, TimeOut
<1>3. CallsOK'
  BY DEF TimeOut, IInv, CallsOK, storeVars
<1> QED BY <1>1, <1>2, <1>3 DEF IInv

LEMMA CheckManifestInv ==
    ASSUME IInv, NEW c \in Calls, CheckManifest(c)
    PROVE  IInv'
<1>1. Active(c)
  BY DEF CheckManifest, Active
<1>2. CASE call[c].g \in manifest /\ Return(c, TRUE)
  <2>1. faults' \in 0..MaxFaults /\ UNCHANGED <<cache, storeVars>>
    BY DEF CheckManifest, IInv, TypeOK
  <2> QED BY <1>1, <1>2, <2>1, QuietReturn
<1>3. CASE /\ call' = [call EXCEPT ![c].pc = "lane"]
           /\ UNCHANGED <<lane, hostVars>>
  <2> DEFINE k == [call[c] EXCEPT !.pc = "lane"]
  <2>1. k \in CallType
    BY CallFacts DEF CallType
  <2>2. Fits(k, table, rows, manifest, tokens, acked)
    BY <1>1, CallFacts DEF Fits, Active, CallType
  <2>3. call' = [call EXCEPT ![c] = k] /\ UNCHANGED <<lane, cache, storeVars, awaited, acked, faults>>
    BY <1>3 DEF CheckManifest, hostVars
  <2> HIDE DEF k
  <2> QED BY <2>1, <2>2, <2>3, QuietMove DEF IInv, TypeOK
<1> QED BY <1>2, <1>3 DEF CheckManifest

LEMMA TakeLaneInv ==
    ASSUME IInv, NEW c \in Calls, TakeLane(c)
    PROVE  IInv'
<1> DEFINE k == [call[c] EXCEPT !.pc = "recheck"]
<1>1. k \in CallType
  BY CallFacts DEF CallType
<1>2. Fits(k, table, rows, manifest, tokens, acked)
  BY CallFacts DEF Fits, CallType, TakeLane
<1>3. call' = [call EXCEPT ![c] = k] /\ UNCHANGED <<cache, storeVars, awaited, acked, faults>>
  BY DEF TakeLane, hostVars
<1>4. lane' \in [Writers -> Calls \cup {NoCall}]
  BY DEF TakeLane, IInv, TypeOK
<1> HIDE DEF k
<1> QED BY <1>1, <1>2, <1>3, <1>4, QuietMove DEF IInv, TypeOK

\* What StartCommit gives the call.
LEMMA StartsCommit ==
    ASSUME IInv, NEW c \in Calls, Active(c), NEW files \in Files, files = "empty" => tokens >= call[c].g,
           rows[call[c].g] = 1 => call[c].g \in table.snaps
    PROVE  \E k \in CallType : /\ StartCommit(c, files) = [call EXCEPT ![c] = k]
                               /\ Fits(k, table, rows, manifest, tokens, acked)
<1> DEFINE k == [call[c] EXCEPT !.pc = "commit", !.files = files, !.base = cache[call[c].w]]
<1>1. call[c].w \in Writers /\ call[c] \in CallType
  BY CallFacts
<1>2. cache[call[c].w] \in TableType \cup {NoTable}
  BY <1>1 DEF IInv, TypeOK
<1>3. k \in CallType
  BY <1>1, <1>2 DEF CallType
<1>4. /\ k.pc = "commit" /\ k.files = files /\ k.base = cache[call[c].w]
      /\ k.g = call[c].g /\ k.w = call[c].w /\ k.live = call[c].live
  BY <1>1 DEF CallType
<1>5. StartCommit(c, files) = [call EXCEPT ![c] = k]
  BY DEF StartCommit
<1>6. k.base # NoTable => Seen(k.base, table, rows)
  BY <1>1, <1>4 DEF IInv, CachesOK
<1> HIDE DEF k
<1>7. Fits(k, table, rows, manifest, tokens, acked)
  BY <1>4, <1>6, CallFacts DEF Fits, Active
<1> QED BY <1>3, <1>5, <1>7

LEMMA PrepareInv ==
    ASSUME IInv, NEW c \in Calls, Prepare(c)
    PROVE  IInv'
<1>1. Active(c) /\ UNCHANGED <<cache, storeVars>>
  BY DEF Prepare, Active
<1>2. call[c].g \in Groups
  BY <1>1, CallFacts
<1>3. CASE call[c].g \in manifest /\ Return(c, TRUE) /\ UNCHANGED faults
  BY <1>1, <1>3, QuietReturn DEF IInv, TypeOK
<1>4. CASE Fault /\ Return(c, FALSE)
  BY <1>1, <1>4, FaultCounted, QuietReturn
<1>5. ASSUME call[c].g \notin manifest PROVE rows[call[c].g] = 1 => call[c].g \in table.snaps
  BY <1>2, <1>5 DEF IInv, LedgerOK, GateSurvives
<1>6. CASE /\ call[c].g \notin manifest /\ receipt[call[c].g] # "none"
           /\ call' = StartCommit(c, receipt[call[c].g]) /\ UNCHANGED <<lane, hostVars, faults>>
  <2>1. receipt[call[c].g] \in Files /\ (receipt[call[c].g] = "empty" => tokens >= call[c].g)
    BY <1>2, <1>6 DEF IInv, TypeOK, RequestsOK
  <2>2. PICK k \in CallType : /\ StartCommit(c, receipt[call[c].g]) = [call EXCEPT ![c] = k]
                              /\ Fits(k, table, rows, manifest, tokens, acked)
    BY <1>1, <1>5, <1>6, <2>1, StartsCommit
  <2> QED BY <1>1, <1>6, <2>2, QuietMove DEF IInv, TypeOK, hostVars
<1>7. CASE /\ call[c].g \notin manifest
           /\ call' = [call EXCEPT ![c].pc = "receipt", ![c].files = Produced(call[c].g)]
           /\ UNCHANGED <<lane, hostVars, faults>>
  <2> DEFINE k == [call[c] EXCEPT !.pc = "receipt", !.files = Produced(call[c].g)]
  <2>1. Produced(call[c].g) \in Files /\ (Produced(call[c].g) = "empty" => tokens >= call[c].g)
    BY <1>2, CallFacts, GroupIsNat DEF Produced, Files
  <2>2. k \in CallType
    BY <2>1, CallFacts DEF CallType
  <2>3. /\ k.pc = "receipt" /\ k.files = Produced(call[c].g) /\ k.base = call[c].base
        /\ k.g = call[c].g /\ k.w = call[c].w /\ k.live = call[c].live
    BY CallFacts DEF CallType
  <2>4. call' = [call EXCEPT ![c] = k]
    BY <1>7
  <2> HIDE DEF k
  <2>5. Fits(k, table, rows, manifest, tokens, acked)
    BY <1>1, <1>5, <1>7, <2>1, <2>3, CallFacts DEF Fits, Active
  <2> QED BY <1>1, <1>7, <2>2, <2>4, <2>5, QuietMove DEF IInv, TypeOK, hostVars
<1> QED BY <1>3, <1>4, <1>6, <1>7 DEF Prepare

LEMMA WriteReceiptInv ==
    ASSUME IInv, NEW c \in Calls, WriteReceipt(c)
    PROVE  IInv'
<1> DEFINE g == call[c].g
<1>1. /\ Active(c) /\ g \in Groups /\ call[c].files \in Files
      /\ call[c].files = "empty" => tokens >= g
      /\ rows[g] = 1 => g \in table.snaps
  BY CallFacts DEF WriteReceipt, Active, Fits
<1>2. receipt' \in {receipt, [receipt EXCEPT ![g] = call[c].files]}
      /\ UNCHANGED <<cache, table, visible, rows, tokens, manifest, flight>>
  BY DEF WriteReceipt
<1>3. receipt' \in [Groups -> {"none"} \cup Files]
      /\ \A h \in Groups : receipt'[h] = "empty" => tokens >= h
  BY <1>1, <1>2 DEF IInv, TypeOK, RequestsOK
<1>4. CASE call' = StartCommit(c, call[c].files) /\ UNCHANGED <<lane, hostVars, faults>>
  <2>1. PICK k \in CallType : /\ StartCommit(c, call[c].files) = [call EXCEPT ![c] = k]
                              /\ Fits(k, table, rows, manifest, tokens, acked)
    BY <1>1, StartsCommit
  <2>2. TypeOK'
    BY <1>2, <1>3, <1>4, <2>1 DEF IInv, TypeOK, hostVars
  <2>3. Kept
    BY <1>2, <1>4, KeptSame, CallFacts DEF IInv, hostVars
  <2>4. CallsOK'
    BY <1>2, <1>4, <2>1, <2>2, <2>3, OneCall DEF hostVars
  <2>5. LedgerOK' /\ RequestsOK' /\ CachesOK'
    BY <1>2, <1>3, <1>4 DEF IInv, LedgerOK, GateSurvives, RequestsOK, CachesOK, hostVars
  <2> QED BY <2>2, <2>4, <2>5 DEF IInv
<1>5. CASE Fault /\ Return(c, FALSE)
  <2>1. /\ call' = [call EXCEPT ![c] = Idle] /\ acked' = acked
        /\ call' \in [Calls -> CallType] /\ lane' \in [Writers -> Calls \cup {NoCall}]
        /\ awaited' \in Calls \cup {NoCall}
    BY <1>1, <1>5, ReturnFacts
  <2>2. TypeOK'
    BY <1>2, <1>3, <1>5, <2>1, FaultCounted DEF IInv, TypeOK
  <2>3. Kept
    BY <1>2, <2>1, KeptSame, CallFacts DEF IInv
  <2>4. CallsOK'
    BY <2>1, <2>2, <2>3, AfterReturn
  <2>5. LedgerOK' /\ RequestsOK' /\ CachesOK'
    BY <1>2, <1>3, <2>1 DEF IInv, LedgerOK, GateSurvives, RequestsOK, CachesOK
  <2> QED BY <2>2, <2>4, <2>5 DEF IInv
<1> QED BY <1>4, <1>5 DEF WriteReceipt

LEMMA LoadTableInv ==
    ASSUME IInv, NEW c \in Calls, LoadTable(c)
    PROVE  IInv'
<1>1. Active(c) /\ UNCHANGED storeVars
  BY DEF LoadTable, Active
<1>2. CASE Fault /\ Return(c, FALSE) /\ UNCHANGED cache
  BY <1>1, <1>2, FaultCounted, QuietReturn
<1>3. CASE /\ call' = [call EXCEPT ![c].base = table]
           /\ cache' \in {cache, [cache EXCEPT ![call[c].w] = table]}
           /\ UNCHANGED <<lane, hostVars, faults>>
  <2> DEFINE k == [call[c] EXCEPT !.base = table]
  <2>1. Seen(table, table, rows)
    BY CallFacts DEF Seen, TableType, IInv, LedgerOK
  <2>2. k \in CallType
    BY CallFacts DEF CallType
  <2>3. /\ k.pc = call[c].pc /\ k.base = table /\ k.files = call[c].files
        /\ k.g = call[c].g /\ k.w = call[c].w /\ k.live = call[c].live
    BY CallFacts DEF CallType
  <2>4. call' = [call EXCEPT ![c] = k]
    BY <1>3
  <2> HIDE DEF k
  <2>5. Fits(k, table, rows, manifest, tokens, acked)
    BY <2>1, <2>3, CallFacts DEF Fits
  <2>6. TypeOK'
    BY <1>1, <1>3, <2>2, <2>4, CallFacts DEF IInv, TypeOK, storeVars, hostVars
  <2>7. \A w \in Writers : cache'[w] # NoTable => Seen(cache'[w], table, rows)
    BY <1>3, <2>1 DEF IInv, TypeOK, CachesOK
  <2>8. Kept /\ LedgerOK' /\ RequestsOK' /\ CachesOK'
    BY <1>1, <1>3, <2>6, <2>7, QuietStep DEF IInv, LedgerOK, hostVars
  <2>9. Fits(k, table', rows', manifest', tokens', acked')
    BY <1>1, <1>3, <2>5 DEF storeVars, hostVars
  <2>10. CallsOK'
    BY <2>2, <2>4, <2>6, <2>8, <2>9, OneCall
  <2> QED BY <2>6, <2>8, <2>10 DEF IInv
<1> QED BY <1>2, <1>3 DEF LoadTable

LEMMA GateHitInv ==
    ASSUME IInv, NEW c \in Calls, GateHit(c)
    PROVE  IInv'
<1> DEFINE k == [call[c] EXCEPT !.pc = "state", !.already = TRUE]
<1>1. k \in CallType
  BY CallFacts DEF CallType
<1>2. /\ k.pc = "state" /\ k.base = call[c].base /\ k.files = call[c].files
      /\ k.g = call[c].g /\ k.w = call[c].w /\ k.live = call[c].live
  BY CallFacts DEF CallType
<1>3. call' = [call EXCEPT ![c] = k] /\ UNCHANGED <<lane, cache, storeVars, awaited, acked, faults>>
  BY DEF GateHit, hostVars
<1>4. rows[call[c].g] = 1
  BY CallFacts DEF GateHit, Fits, Seen, Written
<1> HIDE DEF k
<1>5. Fits(k, table, rows, manifest, tokens, acked)
  BY <1>2, <1>4, CallFacts DEF Fits, GateHit
<1> QED BY <1>1, <1>3, <1>5, QuietMove DEF IInv, TypeOK

\* The catalog takes a commit only if the group is not written: the base has
\* the current snapshot, so it has every snapshot the table has.
LEMMA TakenIsUnwritten ==
    ASSUME IInv, NEW c \in Calls, call[c].pc = "commit", call[c].base # NoTable,
           call[c].g \notin call[c].base.snaps, call[c].base.version = table.version
    PROVE  rows[call[c].g] = 0
BY CallFacts DEF Fits, Seen, IInv, LedgerOK, Active

\* The stores after a commit of a group that is not written.
LEMMA AfterCommit ==
    ASSUME IInv, NEW g \in Groups, NEW files, rows[g] = 0, Committed(g, files),
           UNCHANGED <<cache, receipt, manifest, acked, tokens>>, flight' \subseteq flight
    PROVE  Kept /\ LedgerOK' /\ RequestsOK' /\ CachesOK'
<1>1. /\ Kept /\ LedgerOK' /\ table'.version = table.version + 1
  BY KeptByCommit
<1>2. \A f \in flight : f.version \in Nat
  BY DEF IInv, TypeOK
<1>3. RequestsOK'
  <2>1. table.version \in Nat
    BY DEF IInv, TypeOK, TableType
  <2>2. \A f \in flight' : f.version <= table'.version /\ f.version # table'.version
    BY <1>1, <1>2, <2>1 DEF IInv, RequestsOK
  <2> QED BY <2>2 DEF IInv, RequestsOK
<1>4. CachesOK'
  BY <1>1 DEF IInv, TypeOK, CachesOK, Kept
<1> QED BY <1>1, <1>3, <1>4

\* An attempt that failed leaves its call with what it relies on.
LEMMA NextAttemptFits ==
    ASSUME IInv, Kept, tokens' \in Nat, NEW c \in Calls, call[c].pc = "commit",
           call[c].tries < Attempts, NextAttempt(c)
    PROVE  \E k \in CallType : /\ call' = [call EXCEPT ![c] = k]
                               /\ Fits(k, table', rows', manifest', tokens', acked')
<1> DEFINE k == [call[c] EXCEPT !.base = NoTable, !.tries = call[c].tries + 1]
<1>1. k \in CallType
  <2>1. call[c].tries + 1 \in 0..Attempts
    BY SinkAssumption, CallFacts DEF CallType
  <2> QED BY <2>1, CallFacts DEF CallType
<1>2. /\ k.pc = "commit" /\ k.base = NoTable /\ k.files = call[c].files
      /\ k.g = call[c].g /\ k.w = call[c].w /\ k.live = call[c].live
  BY CallFacts DEF CallType
<1>3. call' = [call EXCEPT ![c] = k]
  BY DEF NextAttempt
<1> HIDE DEF k
<1>4. Active(c) /\ call[c].g \in Groups
  BY CallFacts DEF Active
<1>5. Fits(k, table', rows', manifest', tokens', acked')
  BY <1>2, <1>4, CallFacts, GroupIsNat DEF Fits, Kept
<1> QED BY <1>1, <1>3, <1>5

LEMMA TryCommitInv ==
    ASSUME IInv, NEW c \in Calls, TryCommit(c)
    PROVE  IInv'
<1> DEFINE g == call[c].g
<1>1. /\ call[c].pc = "commit" /\ call[c].base # NoTable /\ call[c].tries < Attempts
      /\ g \notin call[c].base.snaps
      /\ UNCHANGED <<lane, cache, receipt, tokens, manifest, awaited, acked>>
  BY DEF TryCommit, hostVars
<1>2. Active(c) /\ g \in Groups /\ tokens' \in Nat /\ call[c].files \in Files
  BY <1>1, CallFacts DEF Active, Fits
<1>3. CASE /\ call[c].base.version = table.version /\ Committed(g, call[c].files)
           /\ call' = [call EXCEPT ![c].pc = "state", ![c].base = CommitTo(table, g)]
           /\ UNCHANGED <<flight, faults>>
  <2> DEFINE k == [call[c] EXCEPT !.pc = "state", !.base = CommitTo(table, g)]
  <2>1. rows[g] = 0
    BY <1>1, <1>3, TakenIsUnwritten
  <2>2. Kept /\ LedgerOK' /\ RequestsOK' /\ CachesOK'
    BY <1>1, <1>2, <1>3, <2>1, AfterCommit
  <2>3. /\ table' \in TableType /\ rows' \in [Groups -> Nat] /\ visible' \subseteq Groups
        /\ table' = CommitTo(table, g) /\ rows'[g] = 1 /\ Seen(table', table', rows')
    BY <1>1, <1>2, <1>3, <2>1, KeptByCommit
  <2>4. k \in CallType
    BY <2>3, CallFacts DEF CallType
  <2>5. /\ k.pc = "state" /\ k.base = table' /\ k.files = call[c].files
        /\ k.g = g /\ k.w = call[c].w /\ k.live = call[c].live
    BY <2>3, CallFacts DEF CallType
  <2>6. call' = [call EXCEPT ![c] = k]
    BY <1>3
  <2> HIDE DEF k
  <2>7. TypeOK'
    BY <1>1, <1>3, <2>3, <2>4, <2>6 DEF IInv, TypeOK
  <2>8. Fits(k, table', rows', manifest', tokens', acked')
    BY <1>1, <1>2, <2>3, <2>5, CallFacts DEF Fits
  <2>9. CallsOK'
    BY <2>2, <2>4, <2>6, <2>7, <2>8, OneCall
  <2> QED BY <2>2, <2>7, <2>9 DEF IInv
<1>4. CASE /\ call[c].base.version = table.version /\ Committed(g, call[c].files)
           /\ NextAttempt(c) /\ Fault /\ UNCHANGED flight
  <2>1. rows[g] = 0
    BY <1>1, <1>4, TakenIsUnwritten
  <2>2. Kept /\ LedgerOK' /\ RequestsOK' /\ CachesOK'
    BY <1>1, <1>2, <1>4, <2>1, AfterCommit
  <2>3. table' \in TableType /\ rows' \in [Groups -> Nat] /\ visible' \subseteq Groups
    BY <1>1, <1>2, <1>4, <2>1, KeptByCommit
  <2>4. PICK k \in CallType : /\ call' = [call EXCEPT ![c] = k]
                              /\ Fits(k, table', rows', manifest', tokens', acked')
    BY <1>1, <1>2, <1>4, <2>2, NextAttemptFits
  <2>5. TypeOK'
    BY <1>1, <1>4, <2>3, <2>4, FaultCounted DEF IInv, TypeOK
  <2>6. CallsOK'
    BY <2>2, <2>4, <2>5, OneCall
  <2> QED BY <2>2, <2>5, <2>6 DEF IInv
<1>5. CASE /\ NextAttempt(c) /\ faults' \in 0..MaxFaults
           /\ flight' \in {flight, flight \cup {[g |-> g, version |-> call[c].base.version,
                                                files |-> call[c].files]}}
           /\ UNCHANGED <<table, rows, visible>>
  <2>1. Kept
    BY <1>1, <1>5, KeptSame, CallFacts DEF IInv
  <2>2. PICK k \in CallType : /\ call' = [call EXCEPT ![c] = k]
                              /\ Fits(k, table', rows', manifest', tokens', acked')
    BY <1>1, <1>2, <1>5, <2>1, NextAttemptFits
  <2>3. call[c].base \in TableType /\ call[c].base.version \in Nat
        /\ call[c].base.version <= table.version
    BY <1>1, CallFacts DEF CallType, TableType, Fits, Seen
  <2>4. flight' \subseteq [g : Groups, version : Nat, files : Files]
    BY <1>2, <1>5, <2>3 DEF IInv, TypeOK
  <2>5. TypeOK'
    BY <1>1, <1>5, <2>2, <2>4 DEF IInv, TypeOK
  <2>6. call[c].base.version = table.version => rows[g] = 0
    BY <1>1, TakenIsUnwritten
  <2>7. LedgerOK' /\ RequestsOK' /\ CachesOK'
    BY <1>1, <1>5, <2>3, <2>6 DEF IInv, LedgerOK, GateSurvives, RequestsOK, CachesOK
  <2>8. CallsOK'
    BY <2>1, <2>2, <2>5, OneCall
  <2> QED BY <2>5, <2>7, <2>8 DEF IInv
<1>6. faults \in 0..MaxFaults
  BY DEF IInv, TypeOK
<1> QED BY <1>3, <1>4, <1>5, <1>6, FaultCounted DEF TryCommit

\* Calls that no step touches.
LEMMA CallsKept ==
    ASSUME IInv, Kept, TypeOK', UNCHANGED call
    PROVE  CallsOK'
<1> SUFFICES ASSUME NEW c \in Calls
             PROVE  Fits(call[c], table', rows', manifest', tokens', acked')
  BY DEF CallsOK
<1>1. call[c].base # NoTable => call[c].base \in TableType
  BY CallFacts DEF CallType
<1>2. tokens' \in Nat
  BY SinkAssumption DEF TypeOK
<1> QED BY <1>1, <1>2, CallFacts, GroupIsNat DEF Fits, Kept, Active

LEMMA LateCommitInv ==
    ASSUME IInv, LateCommit
    PROVE  IInv'
<1>1. PICK f \in flight : /\ flight' = flight \ {f}
                          /\ \/ f.version = table.version /\ Committed(f.g, f.files)
                             \/ f.version # table.version /\ UNCHANGED <<table, rows, visible>>
  BY DEF LateCommit
<1>2. UNCHANGED <<call, lane, cache, receipt, tokens, manifest, awaited, acked, faults>>
  BY DEF LateCommit, hostVars
<1>3. f.g \in Groups /\ flight' \subseteq flight
  BY <1>1 DEF IInv, TypeOK
<1>4. CASE f.version = table.version /\ Committed(f.g, f.files)
  <2>1. rows[f.g] = 0
    BY <1>4 DEF IInv, RequestsOK
  <2>2. Kept /\ LedgerOK' /\ RequestsOK' /\ CachesOK'
    BY <1>2, <1>3, <1>4, <2>1, AfterCommit
  <2>3. table' \in TableType /\ rows' \in [Groups -> Nat] /\ visible' \subseteq Groups
    BY <1>2, <1>3, <1>4, <2>1, KeptByCommit
  <2>4. TypeOK'
    BY <1>2, <1>3, <2>3 DEF IInv, TypeOK
  <2> QED BY <1>2, <2>2, <2>4, CallsKept DEF IInv
<1>5. CASE UNCHANGED <<table, rows, visible>>
  <2>1. TypeOK'
    BY <1>2, <1>3, <1>5 DEF IInv, TypeOK
  <2>2. tokens \in Nat
    BY SinkAssumption DEF IInv, TypeOK
  <2>3. Kept
    BY <1>2, <1>5, <2>2, KeptSame DEF IInv
  <2>4. LedgerOK' /\ RequestsOK' /\ CachesOK'
    BY <1>2, <1>3, <1>5 DEF IInv, LedgerOK, GateSurvives, RequestsOK, CachesOK
  <2> QED BY <1>2, <2>1, <2>3, <2>4, CallsKept DEF IInv
<1> QED BY <1>1, <1>4, <1>5

LEMMA GiveUpInv ==
    ASSUME IInv, NEW c \in Calls, GiveUp(c)
    PROVE  IInv'
BY QuietReturn DEF GiveUp, Active, IInv, TypeOK

LEMMA PersistStateInv ==
    ASSUME IInv, NEW c \in Calls, PersistState(c)
    PROVE  IInv'
<1> DEFINE g == call[c].g
<1>1. /\ call[c].pc = "state" /\ Active(c) /\ g \in Groups /\ g \in 0..NumGroups /\ g \in Nat
      /\ call[c].w \in Writers /\ call[c] \in CallType /\ tokens \in Nat /\ rows[g] = 1
  BY CallFacts, GroupIsNat DEF PersistState, Active, Fits
<1>2. UNCHANGED <<table, visible, rows, receipt, manifest, flight>>
  BY DEF PersistState
<1>3. Merged(c) \in 0..NumGroups /\ tokens <= Merged(c) /\ Merged(c) >= g
  BY <1>1, CallFacts DEF Merged, Fits, IInv, TypeOK
<1>4. tokens' \in 0..NumGroups /\ tokens <= tokens' /\ tokens' \in Nat
  <2>1. tokens' \in {tokens, Merged(c)}
    BY DEF PersistState
  <2>2. tokens \in 0..NumGroups /\ Merged(c) \in Nat /\ tokens <= tokens
    BY <1>1, <1>3, SinkAssumption DEF IInv, TypeOK
  <2> QED BY <1>1, <1>3, <2>1, <2>2
<1>5. ASSUME UNCHANGED acked PROVE Kept /\ LedgerOK' /\ RequestsOK'
  <2>1. Kept
    BY <1>2, <1>4, <1>5, KeptSame DEF IInv
  <2>2. \A h \in Groups : tokens >= h => tokens' >= h
    BY <1>1, <1>4, GroupIsNat
  <2>3. LedgerOK'
    BY <1>2, <1>5, <2>2 DEF IInv, TypeOK, LedgerOK, GateSurvives
  <2>4. RequestsOK'
    BY <1>2, <2>2 DEF IInv, RequestsOK
  <2> QED BY <2>1, <2>3, <2>4
<1>6. CASE /\ tokens' = Merged(c) /\ cache' = [cache EXCEPT ![call[c].w] = call[c].base]
           /\ call' = [call EXCEPT ![c].pc = "manifest"] /\ UNCHANGED <<lane, hostVars, faults>>
  <2> DEFINE k == [call[c] EXCEPT !.pc = "manifest"]
  <2>1. k \in CallType
    BY <1>1 DEF CallType
  <2>2. /\ k.pc = "manifest" /\ k.base = call[c].base /\ k.files = call[c].files
        /\ k.g = g /\ k.w = call[c].w /\ k.live = call[c].live
    BY <1>1 DEF CallType
  <2>3. call' = [call EXCEPT ![c] = k]
    BY <1>6
  <2> HIDE DEF k
  <2>4. call[c].base \in TableType \cup {NoTable}
    BY <1>1 DEF CallType
  <2>5. TypeOK'
    BY <1>1, <1>2, <1>4, <1>6, <2>1, <2>3, <2>4 DEF IInv, TypeOK, hostVars
  <2>6. call[c].base # NoTable => Seen(call[c].base, table, rows)
    BY <1>1, CallFacts DEF Fits
  <2>7. CachesOK'
    BY <1>1, <1>2, <1>6, <2>6 DEF IInv, TypeOK, CachesOK
  <2>8. Fits(k, table', rows', manifest', tokens', acked')
    BY <1>1, <1>2, <1>3, <1>6, <2>2, <2>6, CallFacts DEF Fits, hostVars
  <2>9. CallsOK'
    BY <1>5, <1>6, <2>1, <2>3, <2>5, <2>8, OneCall DEF hostVars
  <2> QED BY <1>5, <1>6, <2>5, <2>7, <2>9 DEF IInv, hostVars
<1>7. CASE Fault /\ Return(c, FALSE) /\ UNCHANGED cache
  <2>1. /\ call' = [call EXCEPT ![c] = Idle] /\ acked' = acked
        /\ call' \in [Calls -> CallType] /\ lane' \in [Writers -> Calls \cup {NoCall}]
        /\ awaited' \in Calls \cup {NoCall}
    BY <1>1, <1>7, ReturnFacts
  <2>2. TypeOK'
    BY <1>2, <1>4, <1>7, <2>1, FaultCounted DEF IInv, TypeOK
  <2>3. CachesOK'
    BY <1>2, <1>7 DEF IInv, CachesOK
  <2>4. CallsOK'
    BY <1>5, <2>1, <2>2, AfterReturn
  <2> QED BY <1>5, <2>1, <2>2, <2>3, <2>4 DEF IInv
<1> QED BY <1>6, <1>7 DEF PersistState

LEMMA WriteManifestInv ==
    ASSUME IInv, NEW c \in Calls, WriteManifest(c)
    PROVE  IInv'
<1> DEFINE g == call[c].g
<1>1. /\ call[c].pc = "manifest" /\ Active(c) /\ g \in Groups /\ rows[g] = 1 /\ tokens >= g
      /\ call[c] \in CallType /\ tokens \in Nat
  BY CallFacts DEF WriteManifest, Active, Fits
<1>2. /\ manifest' \in {manifest, manifest \cup {g}} /\ faults' \in 0..MaxFaults
      /\ UNCHANGED <<cache, table, visible, rows, receipt, tokens, flight>>
  BY FaultCounted DEF WriteManifest, IInv, TypeOK
<1>3. manifest' \subseteq Groups /\ manifest \subseteq manifest'
  BY <1>1, <1>2 DEF IInv, TypeOK
<1>4. ASSUME acked \subseteq acked', acked' \subseteq manifest'
      PROVE  Kept /\ LedgerOK' /\ RequestsOK' /\ CachesOK'
  <2>1. Kept
    BY <1>1, <1>2, <1>3, <1>4, KeptSame DEF IInv
  <2>2. \A h \in manifest' : rows[h] = 1 /\ tokens >= h
    BY <1>1, <1>2 DEF IInv, LedgerOK
  <2>3. LedgerOK'
    BY <1>2, <1>3, <1>4, <2>2 DEF IInv, LedgerOK, GateSurvives
  <2> QED BY <1>2, <2>1, <2>3 DEF IInv, RequestsOK, CachesOK
<1>5. CASE \E ok \in BOOLEAN : Return(c, ok) /\ (ok => manifest' = manifest \cup {g})
  <2>1. PICK ok \in BOOLEAN : Return(c, ok) /\ (ok => manifest' = manifest \cup {g})
    BY <1>5
  <2>2. /\ call' = [call EXCEPT ![c] = Idle] /\ call' \in [Calls -> CallType]
        /\ lane' \in [Writers -> Calls \cup {NoCall}] /\ awaited' \in Calls \cup {NoCall}
        /\ acked' \subseteq Groups /\ acked \subseteq acked' /\ acked' \subseteq acked \cup {g}
        /\ ~ok => acked' = acked
    BY <1>1, <2>1, ReturnFacts
  <2>3. acked' \subseteq manifest'
    BY <1>3, <2>1, <2>2 DEF IInv, LedgerOK
  <2>4. TypeOK'
    BY <1>2, <1>3, <2>2 DEF IInv, TypeOK
  <2>5. CallsOK'
    BY <1>4, <2>2, <2>3, <2>4, AfterReturn
  <2> QED BY <1>4, <2>2, <2>3, <2>4, <2>5 DEF IInv
<1>6. CASE /\ manifest' = manifest \cup {g}
           /\ call' = [call EXCEPT ![c].pc = "expire"] /\ UNCHANGED <<lane, hostVars>>
  <2> DEFINE k == [call[c] EXCEPT !.pc = "expire"]
  <2>1. k \in CallType
    BY <1>1 DEF CallType
  <2>2. /\ k.pc = "expire" /\ k.base = call[c].base
        /\ k.g = g /\ k.w = call[c].w /\ k.live = call[c].live
    BY <1>1 DEF CallType
  <2>3. call' = [call EXCEPT ![c] = k]
    BY <1>6
  <2> HIDE DEF k
  <2>4. TypeOK'
    BY <1>2, <1>3, <1>6, <2>1, <2>3 DEF IInv, TypeOK, hostVars
  <2>5. Fits(k, table', rows', manifest', tokens', acked')
    BY <1>1, <1>2, <1>6, <2>2, CallFacts DEF Fits, hostVars
  <2>6. acked' = acked /\ acked' \subseteq manifest'
    BY <1>3, <1>6 DEF IInv, LedgerOK, hostVars
  <2>7. CallsOK'
    BY <1>4, <2>1, <2>3, <2>4, <2>5, <2>6, OneCall
  <2> QED BY <1>4, <2>4, <2>6, <2>7 DEF IInv
<1> QED BY <1>5, <1>6 DEF WriteManifest

LEMMA ExpireInv ==
    ASSUME IInv, NEW c \in Calls, Expire(c)
    PROVE  IInv'
<1> DEFINE g == call[c].g
<1>1. /\ call[c].pc = "expire" /\ Active(c) /\ Return(c, TRUE) /\ call[c].w \in Writers
      /\ g \in manifest /\ Groups \ call[c].live \subseteq acked /\ tokens \in Nat
  BY CallFacts DEF Expire, Active, Fits
<1>2. UNCHANGED <<visible, rows, receipt, tokens, manifest, flight, faults>>
  BY DEF Expire
<1>3. /\ call' = [call EXCEPT ![c] = Idle] /\ call' \in [Calls -> CallType]
      /\ lane' \in [Writers -> Calls \cup {NoCall}] /\ awaited' \in Calls \cup {NoCall}
      /\ acked' \subseteq Groups /\ acked \subseteq acked' /\ acked' \subseteq acked \cup {g}
  BY <1>1, ReturnFacts
<1>4. acked' \subseteq manifest
  BY <1>1, <1>3 DEF IInv, LedgerOK
<1>5. CASE UNCHANGED <<table, cache>>
  BY <1>1, <1>2, <1>5, QuietReturn DEF storeVars, IInv, TypeOK
<1>6. CASE \E S \in SUBSET Expirable(c) \ {{}} :
              /\ table' = [table EXCEPT !.snaps = table.snaps \ S]
              /\ cache' \in {cache, [cache EXCEPT ![call[c].w] =
                                        IF @ = NoTable THEN NoTable ELSE table']}
  <2>1. PICK S \in SUBSET Expirable(c) : 
              /\ table' = [table EXCEPT !.snaps = table.snaps \ S]
              /\ cache' \in {cache, [cache EXCEPT ![call[c].w] =
                                        IF @ = NoTable THEN NoTable ELSE table']}
    BY <1>6
  <2>2. /\ table \in TableType /\ table' \in TableType /\ table'.version = table.version
        /\ table'.snaps = table.snaps \ S /\ table.version \in Nat
    BY <2>1 DEF IInv, TypeOK, TableType
  <2>3. TypeOK'
    BY <1>1, <1>2, <1>3, <2>1, <2>2 DEF IInv, TypeOK
  <2>4. \A x \in TableType : Seen(x, table, rows) => Seen(x, table', rows')
    BY <1>2, <2>2 DEF Seen
  <2>5. \A d \in Calls : Active(d) => call[d].g \notin S
    BY DEF Expirable
  <2>6. \A h \in Groups : h \in S => h \in manifest
    BY <1>1 DEF Expirable, IInv, LedgerOK
  <2>7. Kept
    BY <1>1, <1>2, <1>3, <2>2, <2>4, <2>5 DEF Kept
  <2>8. GateSurvives'
    BY <1>2, <2>2, <2>6 DEF IInv, LedgerOK, GateSurvives
  <2>9. LedgerOK'
    BY <1>2, <1>4, <2>2, <2>8 DEF IInv, LedgerOK
  <2>10. RequestsOK'
    BY <1>2, <2>2 DEF IInv, RequestsOK
  <2>11. Seen(table', table', rows')
    BY <1>2, <2>2, <2>9 DEF LedgerOK, Seen
  <2>12. CachesOK'
    <3> SUFFICES ASSUME NEW w \in Writers, cache'[w] # NoTable
                 PROVE  Seen(cache'[w], table', rows')
      BY DEF CachesOK
    <3>1. cache'[w] = cache[w] \/ cache'[w] = table'
      BY <2>1 DEF IInv, TypeOK
    <3>2. cache[w] # NoTable => Seen(cache[w], table', rows')
      BY <2>4 DEF IInv, TypeOK, CachesOK
    <3> QED BY <2>11, <3>1, <3>2
  <2>13. CallsOK'
    BY <1>3, <2>3, <2>7, AfterReturn
  <2> QED BY <2>3, <2>9, <2>10, <2>12, <2>13 DEF IInv
<1> QED BY <1>5, <1>6 DEF Expire

LEMMA InstallSchemaInv ==
    ASSUME IInv, NEW w \in Writers, InstallSchema(w)
    PROVE  IInv'
<1>1. TypeOK'
  BY DEF InstallSchema, IInv, TypeOK, storeVars, hostVars
<1>2. \A v \in Writers : cache'[v] # NoTable => Seen(cache'[v], table, rows)
  BY DEF InstallSchema, IInv, TypeOK, CachesOK
<1>3. UNCHANGED storeVars /\ UNCHANGED <<call, acked>>
  BY DEF InstallSchema, hostVars
<1>4. Kept /\ LedgerOK' /\ RequestsOK' /\ CachesOK'
  BY <1>1, <1>2, <1>3, QuietStep DEF IInv, LedgerOK
<1> QED BY <1>1, <1>3, <1>4, CallsKept DEF IInv

LEMMA WriterDiesInv ==
    ASSUME IInv, NEW w \in Writers, WriterDies(w)
    PROVE  IInv'
<1>1. call' \in [Calls -> CallType]
  BY IdleIsCall DEF WriterDies, IInv, TypeOK
<1>2. TypeOK'
  BY <1>1, FaultCounted DEF WriterDies, IInv, TypeOK, storeVars
<1>3. \A v \in Writers : cache'[v] # NoTable => Seen(cache'[v], table, rows)
  BY DEF WriterDies, IInv, TypeOK, CachesOK
<1>4. UNCHANGED storeVars /\ UNCHANGED acked
  BY DEF WriterDies
<1>5. Kept /\ LedgerOK' /\ RequestsOK' /\ CachesOK'
  BY <1>2, <1>3, <1>4, QuietStep DEF IInv, LedgerOK
<1>6. Fits(Idle, table', rows', manifest', tokens', acked')
  BY DEF Fits, Idle
<1>7. \A c \in Calls : call'[c] = Idle \/ call'[c] = call[c]
  BY DEF WriterDies
<1>8. CallsOK'
  BY <1>4, <1>6, <1>7 DEF CallsOK, IInv, storeVars
<1> QED BY <1>2, <1>5, <1>8 DEF IInv

----------------------------------------------------------------------------
LEMMA InvInit == Init => IInv
<1> SUFFICES ASSUME Init PROVE IInv
  OBVIOUS
<1>1. table \in TableType /\ table.snaps = {}
  BY SinkAssumption DEF Init, TableType
<1>2. TypeOK
  BY <1>1, IdleIsCall, SinkAssumption DEF Init, TypeOK
<1>3. LedgerOK /\ RequestsOK /\ CachesOK
  BY <1>1 DEF Init, LedgerOK, GateSurvives, RequestsOK, CachesOK
<1>4. CallsOK
  BY DEF Init, CallsOK, Fits, Idle
<1> QED BY <1>2, <1>3, <1>4 DEF IInv

LEMMA InvStep == IInv /\ [Next]_vars => IInv'
<1> SUFFICES ASSUME IInv, [Next]_vars PROVE IInv'
  OBVIOUS
<1>1. CASE HostStep
  BY <1>1, DispatchInv DEF HostStep
<1>2. CASE TimeOut \/ LateCommit
  BY <1>2, TimeOutInv, LateCommitInv
<1>3. CASE \E c \in Calls : Step(c)
  BY <1>3, CheckManifestInv, TakeLaneInv, PrepareInv, WriteReceiptInv, LoadTableInv, GateHitInv,
     TryCommitInv, GiveUpInv, PersistStateInv, WriteManifestInv, ExpireInv DEF Step
<1>4. CASE \E w \in Writers : InstallSchema(w) \/ WriterDies(w)
  BY <1>4, InstallSchemaInv, WriterDiesInv
<1>5. CASE UNCHANGED vars
  BY <1>5 DEF vars, storeVars, hostVars, IInv, TypeOK, LedgerOK, GateSurvives, RequestsOK,
     CachesOK, CallsOK
<1> QED BY <1>1, <1>2, <1>3, <1>4, <1>5 DEF Next

\* A step adds a commit of a group that has none, or acknowledges a group
\* that is written, or neither.
LEMMA LedgerStep ==
    ASSUME IInv, [Next]_vars
    PROVE  [Ledger!LedgerNext]_(Ledger!ledgerVars)
<1>1. ASSUME NEW g \in Groups, NEW files, rows[g] = 0, Committed(g, files), UNCHANGED acked
      PROVE  Ledger!LedgerNext
  <2>1. rows' = [rows EXCEPT ![g] = 1]
    BY <1>1 DEF Committed
  <2> QED BY <1>1, <2>1 DEF Ledger!LedgerNext, Ledger!Write
<1>2. ASSUME UNCHANGED <<rows, acked>> PROVE UNCHANGED Ledger!ledgerVars
  BY <1>2 DEF Ledger!ledgerVars
<1>3. ASSUME NEW c \in Calls, NEW ok \in BOOLEAN, Active(c), Return(c, ok), UNCHANGED rows,
             ok => rows[call[c].g] = 1
      PROVE  Ledger!LedgerNext \/ UNCHANGED <<rows, acked>>
  <2>1. CASE ok /\ awaited = c
    BY <1>3, <2>1, CallFacts DEF Return, Ledger!LedgerNext, Ledger!Answer
  <2>2. CASE ~(ok /\ awaited = c)
    BY <1>3, <2>2 DEF Return
  <2> QED BY <2>1, <2>2
<1>4. CASE HostStep \/ TimeOut \/ (\E w \in Writers : InstallSchema(w) \/ WriterDies(w)) \/ UNCHANGED vars
  BY <1>2, <1>4 DEF HostStep, Dispatch, TimeOut, InstallSchema, WriterDies, vars, storeVars, hostVars
<1>5. CASE LateCommit
  <2>1. PICK f \in flight : \/ f.version = table.version /\ Committed(f.g, f.files)
                            \/ UNCHANGED <<table, rows, visible>>
    BY <1>5 DEF LateCommit
  <2>2. UNCHANGED acked
    BY <1>5 DEF LateCommit, hostVars
  <2>3. f.g \in Groups /\ (f.version = table.version => rows[f.g] = 0)
    BY DEF IInv, TypeOK, RequestsOK
  <2> QED BY <1>1, <1>2, <2>1, <2>2, <2>3
<1>6. ASSUME NEW c \in Calls, Step(c) PROVE [Ledger!LedgerNext]_(Ledger!ledgerVars)
  <2>1. CASE CheckManifest(c) \/ Prepare(c) \/ LoadTable(c) \/ WriteReceipt(c) \/ GiveUp(c)
    <3>1. UNCHANGED rows /\ Active(c)
      BY <2>1 DEF CheckManifest, Prepare, LoadTable, WriteReceipt, GiveUp, storeVars, Active
    <3>2. \/ \E ok \in BOOLEAN : Return(c, ok) /\ (ok => call[c].g \in manifest)
          \/ UNCHANGED acked
      BY <2>1 DEF CheckManifest, Prepare, LoadTable, WriteReceipt, GiveUp, hostVars
    <3> QED BY <1>2, <1>3, <3>1, <3>2 DEF IInv, LedgerOK
  <2>2. CASE TakeLane(c) \/ GateHit(c)
    BY <1>2, <2>2 DEF TakeLane, GateHit, storeVars, hostVars
  <2>3. CASE TryCommit(c)
    <3>1. /\ call[c].pc = "commit" /\ call[c].base # NoTable
          /\ call[c].g \notin call[c].base.snaps /\ UNCHANGED acked
      BY <2>3 DEF TryCommit, hostVars
    <3>2. \/ call[c].base.version = table.version /\ Committed(call[c].g, call[c].files)
          \/ UNCHANGED rows
      BY <2>3 DEF TryCommit
    <3>3. call[c].g \in Groups
      BY <3>1, CallFacts DEF Active
    <3> QED BY <1>1, <1>2, <3>1, <3>2, <3>3, TakenIsUnwritten
  <2>4. CASE PersistState(c) \/ WriteManifest(c) \/ Expire(c)
    <3>1. UNCHANGED rows /\ Active(c) /\ rows[call[c].g] = 1
      BY <2>4, CallFacts DEF PersistState, WriteManifest, Expire, Active, Fits
    <3>2. (\E ok \in BOOLEAN : Return(c, ok)) \/ UNCHANGED acked
      BY <2>4 DEF PersistState, WriteManifest, Expire, hostVars
    <3> QED BY <1>2, <1>3, <3>1, <3>2
  <2> QED BY <1>6, <2>1, <2>2, <2>3, <2>4 DEF Step
<1> QED BY <1>4, <1>5, <1>6 DEF Next

----------------------------------------------------------------------------
\* For any number of groups, processes, calls and faults: as long as no
\* manifest tells that a group is written the table keeps the snapshot that
\* does, and an acknowledged group has its manifest and its order token.
THEOREM SinkSafety == Spec => [](TypeOK /\ GateSurvives /\ AckedIsComplete)
<1>1. IInv => TypeOK /\ GateSurvives /\ AckedIsComplete
  BY DEF IInv, LedgerOK, AckedIsComplete
<1> QED BY <1>1, InvInit, InvStep, PTL DEF Spec

\* The sink implements the exactly-once ledger: every initial state of the
\* grouped write path is one of SinkLedger, and every step, also those of
\* retried, late and dying calls, is a step of it or none.
THEOREM SinkImplementsLedger == Spec => ImplementsLedger
<1>1. Init => Ledger!LedgerInit
  BY DEF Init, Ledger!LedgerInit
<1>2. IInv /\ [Next]_vars => [Ledger!LedgerNext]_(Ledger!ledgerVars)
  BY LedgerStep
<1> QED BY <1>1, <1>2, InvInit, InvStep, PTL DEF Spec, ImplementsLedger, Ledger!LedgerSpec
=============================================================================
