SPECIFICATION Spec
CONSTANTS
    Workers = {w1}
    Senders = {}
    Nights = 3
    LastPage = 2
    Advisors = {}
    PageLimits = {2}
    RawKeep = 2
    RiskKeep = 14
    MaxTimes = 2
    MaxStarts = 4
INVARIANTS
    ResumedRunIsWhole
CHECK_DEADLOCK FALSE
