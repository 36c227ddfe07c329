SPECIFICATION FairSpec
CONSTANTS
    w1 = w1
    w2 = w2
    c1 = c1
    c2 = c2
    NumGroups = 2
    Writers = {w1}
    Calls = {c1}
    NoCall = noCall
    NoTable = noTable
    Attempts = 2
    MaxFaults = 1
INVARIANTS
    TableMatchesSource
\* Every group is written.
CHECK_DEADLOCK FALSE
