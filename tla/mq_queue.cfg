CONSTANTS
    s1 = s1
    s2 = s2
    r1 = r1
    r2 = r2
    m1 = m1
    m2 = m2
    Nothing = Nothing
    Senders = {s1, s2}
    Receivers = {r1}
    Messages = {m1, m2}
    max_msgs = 2
    RT_MQ_ENTRY_MAX = 2
    Flag = "PRIO"
    Priority <- MCPriority
    MayReset = TRUE
SPECIFICATION Spec
INVARIANT BlocksInOnePlace EntryCounts NoLostWakeup WaitListsOrdered
PROPERTY KeepsPromise
