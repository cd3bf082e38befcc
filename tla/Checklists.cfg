SPECIFICATION Spec
CONSTANTS
    Items = {"directors", "email"}
    Seeds <- MCSeeds
    Instances = {k1}
    NoInstance = NoInstance
    Slots = {s1, s2}
    MaxAttempts = 2
    MaxStalledCount = 1
    Bounds <- MCBounds
INVARIANT TypeOK
INVARIANT VersionsContiguous
INVARIANT CompletedIsJudged
INVARIANT AutomatedItemsQueued
CHECK_DEADLOCK FALSE
SYMMETRY MCSymmetry
