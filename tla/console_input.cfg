SPECIFICATION ConsoleFairSpec
CONSTANTS
    Shell = tshell
    bufsz = 3
    SemValueMax = 2
    MaxChars = 6
CHECK_DEADLOCK FALSE
INVARIANTS RingHoldsNewest NoSleepOnInput
PROPERTY InputIsRead
