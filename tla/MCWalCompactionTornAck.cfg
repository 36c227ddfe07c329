SPECIFICATION Spec
CONSTANTS
    a = a
    b = b
    c = c
    g1 = g1
    g2 = g2
    k1 = k1
    w1 = w1
    w2 = w2
    Slices = {a, b, c}
    Segments = {g1, g2}
    SegmentOf <- MCSegmentOf
    GroupOf <- MCGroupOf
    Workers = {w1, w2}
    MaxParts = 2
    CopyPipeline = FALSE
    AppendPolicy = FALSE
    MaxFailures = 0
    MaxRedoFailures = 0
    MaxCrashes = 1
    MaxHydrates = 0
SYMMETRY MCSymmetry
INVARIANTS
    WrittenOnce
\* Everything committed has been applied: the compactor waits for more.
CHECK_DEADLOCK FALSE
