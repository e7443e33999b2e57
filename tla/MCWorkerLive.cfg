\* One record, one reset, one retry, one crash, any number of lost store
\* calls.  A Dequeue or Heartbeat that takes a tick writes a stalled heartbeat.
CONSTANTS
    NoHost = NoHost
    NoSlot = NoSlot
    NoRecord = NoRecord
    Records = {r1}
    Workers = {w1}
    Slots = {s1}
    StalledMaxAge = 0
    MaxNumResets = 1
    RetryAfter = 1
    MaxNumRetries = 2
    MaxCallTicks = 1
    MaxPassTicks = 0
    MaxDelay = 0
    EnforceHostname = TRUE
    NumHandlers = 1
    NumTotalJobs = 0
    WithPreDequeue = FALSE
    WithStop = FALSE
    Prompt = FALSE
    MaxCrashes = 1
    MaxRequeues = 0
SPECIFICATION LiveSpec
PROPERTIES EventuallyClosed
