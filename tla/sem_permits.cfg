SPECIFICATION FairSpec
CONSTANTS
    low = low
    mid = mid
    high = high
    Threads = {low, mid, high}
    Priority <- MCPriority
    Flag = "FIFO"
    InitValue = 1
    RT_SEM_VALUE_MAX = 2
    MayDetach = TRUE
CHECK_DEADLOCK FALSE
INVARIANTS PermitsConserved NoLostWakeup
PROPERTY WaitersServed
