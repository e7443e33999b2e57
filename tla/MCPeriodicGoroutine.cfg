\* A pool of none to two workers, one worker more than any size needs.
CONSTANTS
    NoValue = NoValue
    Workers = {w1, w2, w3}
    Concurrencies = {0, 1, 2}
    MaxReinvocations = 3
SPECIFICATION FairSpec
INVARIANTS TypeOK PoolWithinSize FinalizedLast
PROPERTIES StopReturns SettingReached NoSpin
