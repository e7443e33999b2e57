CONSTANTS
    Calls = {c1, c2, c3, c4}
    Limits <- MCLimits
    InitialLimit = 1
SPECIFICATION Spec
INVARIANTS LiveWithinLimit CanceledExactlyOutside
PROPERTIES EvictOldest AcquireReturns
