----------------------------- MODULE SinkLedger -----------------------------
(* What a grouped sink promises the compactor (GroupedSinkWriteContext's   *)
(* idempotency_key): a group is written once, at any time after its first  *)
(* call, and a call that reports success is of a group that is written.    *)
EXTENDS Naturals

CONSTANT Groups    \* compaction groups, by idempotency key

VARIABLES
    written,   \* written[g]: how often the rows of g are in the table
    answered   \* groups a call has reported as written

ledgerVars == <<written, answered>>

LedgerInit == written = [g \in Groups |-> 0] /\ answered = {}

Write(g) ==
    /\ written[g] = 0
    /\ written' = [written EXCEPT ![g] = 1]
    /\ UNCHANGED answered

Answer(g) ==
    /\ written[g] = 1
    /\ answered' = answered \cup {g}
    /\ UNCHANGED written

LedgerNext == \E g \in Groups : Write(g) \/ Answer(g)

LedgerSpec == LedgerInit /\ [][LedgerNext]_ledgerVars
=============================================================================
