SPECIFICATION FairSpec

CONSTANTS
    MaxItems = 4
    MaxLength = 3
    ItemLists <- ShortLists
    ItemLimits = {0, 1, 2, 3}
    LengthLimits = {0, 2, 4}
    Delays = {TRUE, FALSE}

INVARIANTS
    TypeOK
    ChunksFill
    AllOrNothing
PROPERTIES
    CallReturns
CHECK_DEADLOCK FALSE
