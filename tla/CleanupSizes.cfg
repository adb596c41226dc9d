SPECIFICATION FairSizesSpec
CONSTANTS
    Walked = {browser}
    Scripted = {prune, prune_all}
    Docker = {prune, prune_all}
    Scans = {a, b}
    Cleanups = {c}
    ScanLimit = 1
INVARIANTS
    OldOnlyIfOvertaken
PROPERTIES
    SpinnersEnd
    BatchesGoOn
CHECK_DEADLOCK FALSE
