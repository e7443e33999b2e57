\* Handlers that need return only once their context is canceled, and a worker
\* that is stopped, or has dequeued its NumTotalJobs, at any point; one handler
\* requeues.
CONSTANTS
    NoHost = NoHost
    NoSlot = NoSlot
    NoRecord = NoRecord
    Records = {r1}
    Workers = {w1}
    Slots = {s1}
    StalledMaxAge = 0
    MaxNumResets = 1
    RetryAfter = 0
    MaxNumRetries = 1
    MaxCallTicks = 1
    MaxPassTicks = 0
    MaxDelay = 0
    EnforceHostname = TRUE
    NumHandlers = 1
    NumTotalJobs = 1
    WithPreDequeue = TRUE
    WithStop = TRUE
    Prompt = FALSE
    MaxCrashes = 0
    MaxRequeues = 1
SPECIFICATION FairSpec
PROPERTIES LossNoticed StopReturns
