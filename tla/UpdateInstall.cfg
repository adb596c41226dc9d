SPECIFICATION Spec
CONSTANTS
    Processes = {p1, p2, p3}
    First = p1
    Servers = {p1, p2}
    PerServer = 2
    MaxFaults = 2
INVARIANTS
    NameIsKept
    OnlyWholeBuilds
    AnswersHold
CHECK_DEADLOCK FALSE
