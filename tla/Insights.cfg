SPECIFICATION Spec
CONSTANTS
    Findings = {1, 2, 3}
    Funds = {x1}
    Targets = {"active", "dormant"}
    Groups = {g1, g2}
    Cap = 2
    AutoMax = 1
    Deciders = {d1}
    Tools = {t1}
    MaxFlags = 2
SYMMETRY Symmetry
INVARIANTS
    CapKept
    WorkedOnce
    AppliedIsActedOn
    FlaggedOncePerMove
PROPERTIES
    TerminalStays
CHECK_DEADLOCK FALSE
