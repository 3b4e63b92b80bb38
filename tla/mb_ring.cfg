SPECIFICATION Spec
CONSTANTS
    s1 = s1
    s2 = s2
    r1 = r1
    r2 = r2
    m1 = m1
    m2 = m2
    Senders = {s1, s2}
    Receivers = {r1}
    Mails = {m1, m2}
    Nothing = Nothing
    size = 3
    RT_MB_ENTRY_MAX = 3
    Flag = "PRIO"
    Priority <- MCPriority
    MayReset = TRUE
INVARIANTS OffsetsAgree NoLostWakeup
PROPERTY KeepsPromise
