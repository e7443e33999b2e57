\* The queue and the schedule, turned off and on again at any time.  Updates
\* run under the first loop only, and its update loop has ended before the
\* second restart; its schedule loop may still be there.
CONSTANTS
    NoRepo = NoRepo
    Repos = {r1}
    Slots = {u1}
    Limits = {1}
    MaxLoops = 3
    Updaters = {1}
    MaxStopping = 0
    MinDelay = 2
    MaxDelay = 2
    JitterDivisor = 2
    EnabledAtStart = TRUE
SPECIFICATION FairSchedulerSpec
INVARIANTS TimerOnTime LowScheduled IntervalBounded
PROPERTIES ImplementsQueue ScheduledRequested
