SPECIFICATION FairSpec
CONSTANTS
    Steps = 2
    MaxAttempts = 2
    Requests = {r1}
    FlakyReads = FALSE
    ForeignLedger = FALSE
    Outcomes = {"ran", "failed"}
    MaxJobs = 4
    MaxApplies = 2
    MaxFaults = 0
PROPERTY AppliesEndUpMeasured
