SPECIFICATION FairSpec
CONSTANTS
    NumBatches = 3
    Window = 2
    SpawnCap = 2
    MaxFailures = 2
    MaxRestarts = 2
INVARIANTS
    TypeOK
    CheckpointCovered
    OkIsDurable
    OkIsCheckpointed
PROPERTIES
    CheckpointAdvances
    SessionEnds
\* The session is over.
CHECK_DEADLOCK FALSE
