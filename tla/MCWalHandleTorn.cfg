SPECIFICATION Spec
CONSTANTS
    a = a
    b = b
    c = c
    Objects = {a, b}
    NumParts <- MCNumParts2
    BadObjects = {}
    Persister = persister
    Ceiling = 2
    MaxFailures = 0
    MaxCrashes = 1
INVARIANTS
    NothingSkipped
\* Every object has been read: the process waits for more.
CHECK_DEADLOCK FALSE
