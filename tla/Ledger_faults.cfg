SPECIFICATION Spec
CONSTANTS
    Steps = 2
    MaxAttempts = 3
    Requests = {r1}
    FlakyReads = FALSE
    ForeignLedger = TRUE
    Outcomes = {"ran", "failed", "absent"}
    MaxJobs = 2
    MaxApplies = 1
    MaxFaults = 2
INVARIANTS
    StepHasResult
    AttemptsBounded
    OfferedRunIsComplete
PROPERTY ResultsKept
