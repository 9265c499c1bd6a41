SPECIFICATION Spec
CONSTANTS
    Workers = {w1, w2}
    Senders = {}
    Nights = 2
    LastPage = 2
    Advisors = {}
    PageLimits = {1, 2}
    RawKeep = 1
    RiskKeep = 1
    MaxTimes = 2
    MaxStarts = 4
SYMMETRY Symmetry
INVARIANTS
    CountsMatchCursor
    RejectsOnce
    ScoredFromEveryPage
    OneDigest
    NewestKept
PROPERTIES
    CompletedStays
CHECK_DEADLOCK FALSE
