\* One worker with two handlers, no timing assumption: the record is reset
\* twice under a running handler and dequeued again by the same worker.  One
\* tick may pass inside a Dequeue, Heartbeat or ResetStalled call, which is as
\* much as StalledMaxAge.
CONSTANTS
    NoHost = NoHost
    NoSlot = NoSlot
    NoRecord = NoRecord
    Records = {r1}
    Workers = {w1}
    Slots = {s1, s2}
    StalledMaxAge = 1
    MaxNumResets = 2
    RetryAfter = 0
    MaxNumRetries = 1
    MaxCallTicks = 1
    MaxPassTicks = 1
    MaxDelay = 0
    EnforceHostname = FALSE
    NumHandlers = 2
    NumTotalJobs = 0
    WithPreDequeue = TRUE
    WithStop = FALSE
    Prompt = FALSE
    MaxCrashes = 0
    MaxRequeues = 0
SYMMETRY Symmetry
SPECIFICATION Spec
INVARIANTS TokensConserved EntriesAlive HandlersCovered ResetNotFailed
