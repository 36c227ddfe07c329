SPECIFICATION FairSpec
CONSTANTS
    a = a
    b = b
    c = c
    Objects = {a, b, c}
    NumParts <- MCNumParts
    BadObjects = {a, c}
    Persister = persister
    Ceiling = 2
    MaxFailures = 1
    MaxCrashes = 2
PROPERTY CommittedIsClosed
INVARIANTS
    PublishedIsCommitted
    CommittedOnce
    ReclaimedIsClosed
\* Every object has been read: the process waits for more.
CHECK_DEADLOCK FALSE
