SPECIFICATION Spec

CONSTANTS
    t1 = t1
    t2 = t2
    k1 = k1
    k2 = k2
    Threads = {t1, t2}
    Keys = {k1, k2}
    KeyTypes = {1, 2}
    Configs <- FewConfigs
    MaxEpochs = 1

INVARIANTS
    TypeOK
    OneBucket
    BucketsApart
    LimitersCurrent
PROPERTIES
    Atomic
