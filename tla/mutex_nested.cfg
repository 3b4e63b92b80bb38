SPECIFICATION Spec
CONSTANTS
    low = low
    mid = mid
    high = high
    Threads = {low, mid, high}
    Mutexes = {1, 2}
    Priority <- MCPriority
    None = None
    RT_MUTEX_HOLD_MAX = 2
    Lifo = TRUE
    MayDetach = {1, 2}
CHECK_DEADLOCK FALSE
INVARIANTS Exclusive PriorityRestored
