SPECIFICATION Spec
CONSTANTS
    u1 = u1
    u2 = u2
    u3 = u3
    r1 = r1
    f1 = f1
    NoRequest = NoRequest
    Units = {u1, u2}
    Requests = {r1}
    Flushers = {f1}
    UnitRequest <- MCUnitRequest2
    NumBatches <- MCNumBatches2
    Capacity = 2
    MaxFailures = 1
    MaxPanics = 0
    MaxAppendErrors = 0
INVARIANTS
    FailedPersistNotAcked
\* Everything submitted is answered: the writer waits for more.
CHECK_DEADLOCK FALSE
