\* Two records, one reset and one retry: both counters reach their limits,
\* also after a Requeue, and ResetStalled meets two stalled rows at once.
CONSTANTS
    NoHost = NoHost
    Records = {r1, r2}
    Workers = {w1}
    StalledMaxAge = 0
    MaxNumResets = 1
    RetryAfter = 1
    MaxNumRetries = 2
    MaxCallTicks = 1
    MaxPassTicks = 0
    MaxDelay = 1
    EnforceHostname = FALSE
    MaxFailures = 2
SYMMETRY Symmetry
SPECIFICATION MCSpec
INVARIANTS RetriesAllowed CanceledOnRequest
PROPERTY LifecycleSpec
