CONSTANTS
    Width = 2
    PowerUp = {{0}}
    MaxFaults = 0
    QueueLen = 2
    MaxChanges = 3
    MayFail = {"kb", "mq", "input", "sequencer"}
SPECIFICATION FairSpec
INVARIANT PatternFollowsPresses DisplayLag SequencerKeepsUp QueueFailureStopsScan KeptEventsFitTogether
PROPERTY LedsSettle Heartbeat
