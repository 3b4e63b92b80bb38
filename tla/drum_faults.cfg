CONSTANTS
    Width = 1
    PowerUp = {{0}}
    MaxFaults = 2
    QueueLen = 2
    MaxChanges = 2
    MayFail = {}
SPECIFICATION Spec
INVARIANT WholeFrame LedFrameShifted
PROPERTY EventsAlternate
