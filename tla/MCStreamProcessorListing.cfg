SPECIFICATION Spec
CONSTANTS
    NumAggs = 1
    NumSegments = 3
    NumSlices = 1
    KeyRank <- SwappedKeys
    Page = 1
    c1 = c1
    c2 = c2
    Configs = {c1, c2}
    NoConfig = none
    FirstConfig = c1
    NextConfigs <- FreeChange
    MaxCrashes = 0
INVARIANT HoldIsSafe
\* The instance has a last segment, and an error ends the processor for good.
CHECK_DEADLOCK FALSE
