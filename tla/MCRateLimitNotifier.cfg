\* Three contenders.  A call may take more than half of the lock's timeout, as
\* the 15 s request and the Redis commands around it do of 30 s; one tick of it
\* to acquire the lock, which leaves one tick to spare.
CONSTANTS
    NoCall = NoCall
    Calls = {c1, c2, c3}
    LockTimeout = 5
    AcquireTime = 1
    OperationTime = 3
    Thresholds = {90, 95}
    Usages = {89, 94, 97}
SYMMETRY Symmetry
SPECIFICATION Spec
INVARIANTS MutualExclusion NotifiedOnce
