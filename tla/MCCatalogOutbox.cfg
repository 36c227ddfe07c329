SPECIFICATION FairSpec
CONSTANTS
    k1 = k1
    k2 = k2
    l1 = l1
    l2 = l2
    bad = bad
    c1 = c1
    c2 = c2
    Keys = {k1, k2}
    Locations = {l1, l2, bad}
    Inadmissible = {bad}
    Calls = {c1, c2}
    IntentsOf <- MCIntentsOf
    Worker = worker
    Finaliser = finaliser
    NoEntry = noEntry
    Nowhere = nowhere
    MaxClock = 1
    MaxFaults = 1
    MaxCrashes = 1
INVARIANTS
    TypeOK
    IntentSurvives
PROPERTIES
    RemovedIsDelivered
    EventuallySettled
\* Every intent is settled: the coordinator waits for more.
CHECK_DEADLOCK FALSE
