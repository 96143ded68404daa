SPECIFICATION Spec

CONSTANTS
    t1 = t1
    t2 = t2
    k1 = k1
    Threads = {t1, t2}
    Keys = {k1}
    EmptyKey = EmptyKey
    keyTypes <- TwoTypes
    KeyLists <- FewLists
    backoffTime = 2
    Never = Never
    MaxTime = 2

INVARIANTS
    TypeOK
    RestedWhenOffered
    LeftOutForCause
    FailuresRecorded
