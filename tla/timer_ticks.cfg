SPECIFICATION FairSpec
CONSTANTS
    Threads = {t1}
    AppTimers = {a1}
    TICKS = 8
    Delays = {0, 2}
    Periods = {1, 2}
    MaxLate = 3
    None = None
INVARIANTS TimerListSound NoStaleTimeout
PROPERTIES WakesOnPeriod KeepsTime SleepersWake
