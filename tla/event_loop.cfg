CONSTANTS
    Callers = {c1, c2}
    Threads = {l1, l2}
    MaxTimers = 1
    MaxIds = 3
    Nobody = Nobody
SPECIFICATION FairSpec
INVARIANTS
    StopEndsTheLoop
    LateCallbackIsTheLast
    TableMatchesKernel
PROPERTIES
    StopReturns
CHECK_DEADLOCK FALSE
