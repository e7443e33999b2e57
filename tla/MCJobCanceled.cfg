\* A late heartbeat, a reset, and the record comes back to the same worker.
CONSTANTS
    NoHost = NoHost
    NoSlot = NoSlot
    NoRecord = NoRecord
    Records = {r1}
    Workers = {w1}
    Slots = {s1, s2}
    StalledMaxAge = 0
    MaxNumResets = 1
    RetryAfter = 0
    MaxNumRetries = 1
    MaxCallTicks = 0
    MaxPassTicks = 0
    MaxDelay = 0
    EnforceHostname = FALSE
    NumHandlers = 2
    NumTotalJobs = 0
    WithPreDequeue = FALSE
    WithStop = FALSE
    Prompt = FALSE
    MaxCrashes = 0
    MaxRequeues = 0
SPECIFICATION Spec
INVARIANTS CanceledOnlyOnRequest
