CONSTANTS
    Width = 1
    PowerUp = {{}, {0}}
    MaxFaults = 0
    QueueLen = 2
    MaxChanges = 1
    MayFail = {}
SPECIFICATION Spec
PROPERTY UpdatesAreSent
