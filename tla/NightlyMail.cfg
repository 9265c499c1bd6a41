SPECIFICATION FairSpec
CONSTANTS
    Workers = {w1}
    Senders = {s1, s2}
    Nights = 1
    LastPage = 1
    Advisors = {a1, a2}
    PageLimits = {2}
    RawKeep = 1
    RiskKeep = 1
    MaxTimes = 2
    MaxStarts = 2
INVARIANTS
    EmailOnce
PROPERTIES
    AdvisorsMailed
CHECK_DEADLOCK FALSE
