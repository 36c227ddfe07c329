SPECIFICATION FairSpec
CONSTANTS
    u1 = u1
    u2 = u2
    u3 = u3
    r1 = r1
    f1 = f1
    NoRequest = NoRequest
    Units = {u1, u2, u3}
    Requests = {r1}
    Flushers = {f1}
    UnitRequest <- MCUnitRequest
    NumBatches <- MCNumBatches
    Capacity = 2
    MaxFailures = 2
    MaxPanics = 1
    MaxAppendErrors = 1
PROPERTIES
    EveryUnitAnswered
    EveryFlushAnswered
    LiveIsFlushed
INVARIANTS
    BatchesConserved
    AckedIsSettled
    AckedIsDurableWithoutFailure
    RequestOkMeansUnitsOk
    FlushDrainsCovered
    IdleMeansSettled
    PendingHasPersist
\* Everything submitted is answered: the writer waits for more.
CHECK_DEADLOCK FALSE
