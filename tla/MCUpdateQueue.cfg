\* Requests without end, a limit that shrinks and grows under updates, and a
\* loop that is replaced by another at any time.
CONSTANTS
    NoRepo = NoRepo
    Repos = {r1, r2}
    Slots = {u1, u2}
    Limits = {1, 2}
    MaxLoops = 2
    Updaters = {1, 2}
    MaxStopping = 0
SPECIFICATION FairSpec
INVARIANTS OnePlace UpdatesWithinLimit AcquiredInQueue NotifyLossless
PROPERTIES HighServed LowServed
