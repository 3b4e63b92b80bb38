SPECIFICATION FairSpec
CONSTANTS
    Threads = {main, a, b, idle}
    Main = main
    Idle = idle
    Levels = {0, 1, 2}
    InitPriority <- Priorities
    Slice = 1
    Timed = {main}
    Mortal = {b}
    Handled = {a}
    MayChange = {a, b}
    MaxNest = 1
    None = None
INVARIANTS ReadyTable OnlyRunningCalls RunsHighest
PROPERTY RoundRobin
