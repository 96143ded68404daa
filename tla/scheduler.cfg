SPECIFICATION FairSpec

CONSTANTS
    c1 = c1
    c2 = c2
    Callers = {c1, c2}
    TaskCalls = {"Start", "Stop", "IsRunning"}
    MaxRuns = 3
    NoOne = NoOne

INVARIANTS
    TypeOK
    NoOverlap
    QuietWhenStopped
    RunningIsTrue
PROPERTIES
    CallsReturn
    TickServed
    IsSwitch
CHECK_DEADLOCK FALSE
