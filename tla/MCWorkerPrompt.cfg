\* Two workers compete for one record; heartbeats are on time and one
\* worker process may crash.  StalledMaxAge and RetryAfter of one tick give
\* a record that is not yet stalled, or not yet retried, a state of its own.
CONSTANTS
    NoHost = NoHost
    NoSlot = NoSlot
    NoRecord = NoRecord
    Records = {r1}
    Workers = {w1, w2}
    Slots = {s1, s2}
    StalledMaxAge = 1
    MaxNumResets = 1
    RetryAfter = 1
    MaxNumRetries = 2
    MaxCallTicks = 0
    MaxPassTicks = 0
    MaxDelay = 0
    EnforceHostname = FALSE
    NumHandlers = 1
    NumTotalJobs = 0
    WithPreDequeue = FALSE
    WithStop = FALSE
    Prompt = TRUE
    MaxCrashes = 1
    MaxRequeues = 0
SYMMETRY Symmetry
SPECIFICATION Spec
INVARIANTS OwnersHold OneOwner AddAccepts
