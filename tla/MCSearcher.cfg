\* Two fetches contend for a limit of one, two files for a cache of one.
CONSTANTS
    Nobody = Nobody
    Searches = {s1, s2}
    Keys = {k1, k2}
    Limits = {1, 2}
    MaxCacheSize = 1
    Spoilable = {k1}
    Wanted <- MCWanted
SPECIFICATION FairSpec
INVARIANTS NeverTorn InUseMapped FetchesWithinLimit
PROPERTIES EvictEnds
